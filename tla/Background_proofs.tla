--------------------------- MODULE Background_proofs ---------------------------
(***************************************************************************)
(* The background work as a whole keeps what its parts promise: whatever   *)
(* workers, requests and the end of the process do, the single flight      *)
(* answers afresh, and the board is a fresh one; a chore is deferred past  *)
(* the blocks it clashes with, however approvals overlap; nobody is told   *)
(* twice of one matter; and every attempt to deliver is accounted for.     *)
(***************************************************************************)
EXTENDS Background, SequenceTheorems, FiniteSetTheorems, TLAPS

-----------------------------------------------------------------------------
(* The single flight implements OnePass: callers who ask while a pass is     *)
(* running are answered only by a pass that was made for them.               *)

\* Nobody waits twice, nobody waits when no loop runs, and the running pass is
\* made for the caller whose loop it is.
FlightInv ==
    /\ FlightTypeOK
    /\ \A i, j \in 1..Len(line) : line[i] = line[j] => i = j
    /\ active \notin Waiting
    /\ heard = {active} \ {NoOne}
    /\ ready \subseteq heard
    /\ active = NoOne => line = <<>>

LEMMA InitFlight == FlightInit => FlightInv
<1>. SUFFICES ASSUME FlightInit PROVE FlightInv
  OBVIOUS
<1>1. /\ line = <<>> /\ Len(line) = 0 /\ line \in Seq(Callers)
      /\ \A i \in 1..Len(line) : FALSE
  BY DEF FlightInit
<1>2. Waiting = {} /\ heard = {active} \ {NoOne} /\ ready = {} /\ FlightTypeOK
  BY <1>1 DEF FlightInit, Waiting, FlightTypeOK
<1>. QED BY <1>1, <1>2 DEF FlightInv

LEMMA WaitingCallers == FlightTypeOK => Waiting \subseteq Callers
BY DEF FlightTypeOK, Waiting

\* Who is behind the running loop, when a caller joins the line.
LEMMA JoinLine ==
    ASSUME FlightTypeOK, NEW c \in Callers, line' = Append(line, c)
    PROVE  Waiting' = Waiting \cup {c}
<1>1. line \in Seq(Callers) BY DEF FlightTypeOK
<1>2. /\ Len(line') = Len(line) + 1
      /\ \A i \in 1..Len(line) : line'[i] = line[i]
      /\ line'[Len(line) + 1] = c
  BY <1>1
<1>3. 1..Len(line') = 1..Len(line) \cup {Len(line) + 1}
  BY <1>1, <1>2
<1>. QED BY <1>2, <1>3 DEF Waiting

\* Who is left of it when the first begins a loop of its own.
LEMMA LeaveLine ==
    ASSUME FlightInv, line # <<>>, line' = Tail(line)
    PROVE  /\ Head(line) \in Callers
           /\ Waiting' = Waiting \ {Head(line)}
           /\ Head(line) \in Waiting
           /\ \A i, j \in 1..Len(line') : line'[i] = line'[j] => i = j
<1>1. line \in Seq(Callers) /\ \A i, j \in 1..Len(line) : line[i] = line[j] => i = j
  BY DEF FlightInv, FlightTypeOK
<1>2. /\ Len(line) \in Nat /\ Len(line) >= 1
      /\ Len(line') = Len(line) - 1
      /\ \A i \in 1..Len(line') : line'[i] = line[i + 1] /\ i + 1 \in 1..Len(line)
      /\ Head(line) = line[1] /\ Head(line) \in Callers
  BY <1>1
<1>3. \A i, j \in 1..Len(line') : line'[i] = line'[j] => i = j
  BY <1>1, <1>2
<1>4. Waiting' \subseteq Waiting \ {line[1]}
  BY <1>1, <1>2 DEF Waiting
<1>5. Waiting \ {line[1]} \subseteq Waiting'
  <2>1. SUFFICES ASSUME NEW i \in 1..Len(line), i # 1 PROVE line[i] \in Waiting'
    BY DEF Waiting
  <2>2. i - 1 \in 1..Len(line') /\ (i - 1) + 1 = i
    BY <1>2, <2>1
  <2>. QED BY <1>2, <2>2 DEF Waiting
<1>. QED BY <1>2, <1>3, <1>4, <1>5 DEF Waiting

\* Each step of the flight is a step of OnePass, and keeps the invariant.
LEMMA StartLoopStep ==
    ASSUME FlightInv, NEW c \in Callers, StartLoop(c)
    PROVE  FlightInv' /\ Promise!Ask(c)
<1>1. line = <<>> /\ Waiting = {} /\ Wanting = {} /\ heard = {} /\ Waiting' = {}
  BY DEF FlightInv, Waiting, Wanting, StartLoop
<1>2. Wanting' = {c}
  BY <1>1, NoOneAssumption DEF Wanting, StartLoop
<1>3. /\ active' = c /\ c # NoOne /\ line' = <<>> /\ heard' = {c} /\ ready = {}
      /\ UNCHANGED <<ready, thrown>> /\ rerun' = FALSE
  BY <1>1, NoOneAssumption DEF StartLoop, FlightInv
<1>4. /\ \A i \in 1..Len(line') : FALSE
      /\ line' \in Seq(Callers)
  BY <1>3
<1>5. FlightInv'
  <2>1. FlightTypeOK'
    BY <1>3, <1>4 DEF FlightInv, FlightTypeOK
  <2>2. heard' = {active'} \ {NoOne}
    BY <1>3
  <2>. QED BY <1>1, <1>3, <1>4, <2>1, <2>2 DEF FlightInv
<1>. QED BY <1>1, <1>2, <1>3, <1>5 DEF Promise!Ask

LEMMA QueueUpStep ==
    ASSUME FlightInv, NEW c \in Callers, QueueUp(c)
    PROVE  FlightInv' /\ Promise!Ask(c)
<1>1. Waiting' = Waiting \cup {c} /\ c \notin Waiting /\ c # active /\ active # NoOne
  BY JoinLine DEF QueueUp, FlightInv, Wanting
<1>2. /\ line' \in Seq(Callers)
      /\ \A i, j \in 1..Len(line') : line'[i] = line'[j] => i = j
  BY <1>1 DEF QueueUp, FlightInv, FlightTypeOK, Waiting
<1>3. Wanting' = Wanting \cup {c} /\ c \notin Wanting /\ heard # {}
  BY <1>1 DEF Wanting, QueueUp, FlightInv
<1>. QED BY <1>1, <1>2, <1>3 DEF QueueUp, FlightInv, FlightTypeOK, Promise!Ask

LEMMA GoRoundStep ==
    ASSUME FlightInv, GoRound
    PROVE  FlightInv' /\ Promise!End
<1>1. Wanting' = Wanting /\ Waiting' = Waiting /\ heard = {active} /\ heard \subseteq Wanting
  BY DEF GoRound, FlightInv, Wanting, Waiting
<1>2. FlightInv'
  BY <1>1 DEF GoRound, FlightInv, FlightTypeOK
<1>3. thrown' = (thrown /\ {} = {})
  BY DEF GoRound, FlightInv, FlightTypeOK
<1>4. Promise!End
  <2>1. /\ {} \in SUBSET (ready \cup heard) /\ Wanting' = Wanting \ {}
        /\ ready' = (ready \cup heard) \ {}
        /\ heard # {} /\ heard' \subseteq Wanting'
    BY <1>1 DEF GoRound
  <2>. QED BY <2>1, <1>3 DEF Promise!End
<1>. QED BY <1>2, <1>4

LEMMA HandOverStep ==
    ASSUME FlightInv, HandOver
    PROVE  FlightInv' /\ Promise!End
<1>1. /\ active # NoOne /\ active \notin Waiting /\ heard = {active} /\ ready \subseteq heard
      /\ ready' = {} /\ heard' = {active'} \ {NoOne} /\ thrown' = FALSE /\ rerun' \in BOOLEAN
      /\ active \in Callers /\ heard \subseteq Callers /\ line \in Seq(Callers)
  BY DEF HandOver, FlightInv, FlightTypeOK
<1>2. /\ active' \in Callers \cup {NoOne} /\ line' \in Seq(Callers)
      /\ Waiting' \subseteq Callers /\ active' \notin Waiting'
      /\ \A i, j \in 1..Len(line') : line'[i] = line'[j] => i = j
      /\ active' = NoOne => line' = <<>>
      /\ Wanting' = Waiting
  <2>1. CASE line = <<>>
    <3>1. active' = NoOne /\ line' = <<>> /\ Waiting = {} /\ Waiting' = {}
      BY <2>1 DEF HandOver, Waiting
    <3>. QED BY <3>1 DEF Wanting
  <2>2. CASE line # <<>>
    <3>1. active' = Head(line) /\ line' = Tail(line)
      BY <2>2 DEF HandOver
    <3>2. /\ Head(line) \in Callers /\ Head(line) \in Waiting
          /\ Waiting' = Waiting \ {Head(line)}
          /\ \A i, j \in 1..Len(line') : line'[i] = line'[j] => i = j
      BY <2>2, <3>1, LeaveLine
    <3>3. Waiting \subseteq Callers /\ Tail(line) \in Seq(Callers)
      BY <2>2, <1>1, WaitingCallers DEF FlightInv
    <3>. QED BY <3>1, <3>2, <3>3, NoOneAssumption DEF Wanting
  <2>. QED BY <2>1, <2>2
<1>3. FlightInv'
  BY <1>1, <1>2 DEF FlightInv, FlightTypeOK
<1>4. Wanting' = Wanting \ {active} /\ heard' \subseteq Wanting'
  <2>1. Wanting = Waiting \cup {active}
    BY <1>1 DEF Wanting
  <2>2. heard' \subseteq Wanting'
    BY <1>1 DEF Wanting
  <2>. QED BY <1>1, <1>2, <2>1, <2>2
<1>5. Promise!End
  <2>1. /\ {active} \in SUBSET (ready \cup heard) /\ Wanting' = Wanting \ {active}
        /\ ready' = (ready \cup heard) \ {active}
        /\ heard # {} /\ heard' \subseteq Wanting'
        /\ thrown' = (thrown /\ {active} = {})
    BY <1>1, <1>4
  <2>. QED BY <2>1 DEF Promise!End
<1>. QED BY <1>3, <1>5

LEMMA ThrowAllStep ==
    ASSUME FlightInv, ThrowAll
    PROVE  FlightInv' /\ Promise!Fail
<1>1. Waiting' = {} /\ Wanting' = {} /\ heard # {}
  BY DEF ThrowAll, FlightInv, Waiting, Wanting
<1>. QED BY <1>1, NoOneAssumption DEF ThrowAll, FlightInv, FlightTypeOK, Promise!Fail

LEMMA FlightStep ==
    ASSUME FlightInv, [FlightNext]_flight
    PROVE  FlightInv' /\ [Promise!Next]_(Promise!vars)
<1>1. CASE UNCHANGED flight
  BY <1>1 DEF flight, FlightInv, FlightTypeOK, Waiting, Wanting, Promise!vars
<1>2. ASSUME NEW c \in Callers, StartLoop(c) \/ QueueUp(c)
      PROVE  FlightInv' /\ Promise!Next
  BY <1>2, StartLoopStep, QueueUpStep DEF Promise!Next
<1>3. CASE GoRound
  BY <1>3, GoRoundStep DEF Promise!Next
<1>4. CASE HandOver
  BY <1>4, HandOverStep DEF Promise!Next
<1>5. CASE ThrowAll
  BY <1>5, ThrowAllStep DEF Promise!Next
<1>. QED BY <1>1, <1>2, <1>3, <1>4, <1>5 DEF FlightNext

LEMMA FlightStarts == FlightInit => Promise!Init
BY DEF FlightInit, Promise!Init, Wanting, Waiting

\* The single flight of the workers keeps its types: a caller is never behind its
\* own loop, and nobody is in line when no loop runs.
THEOREM FlightInvariant == FlightSpec => []FlightInv
<1>1. FlightInv /\ [FlightNext]_flight => FlightInv'
  BY FlightStep
<1>. QED BY <1>1, InitFlight, PTL DEF FlightSpec

\* runOnce never lets two passes overlap and answers nobody before a whole pass
\* that was made for it after it asked: the single flight implements OnePass.
THEOREM FlightServesAfresh == FlightSpec => ServedAfresh
<1>1. FlightInv /\ [FlightNext]_flight => [Promise!Next]_(Promise!vars)
  BY FlightStep
<1>. QED BY <1>1, FlightStarts, FlightInvariant, PTL DEF FlightSpec, ServedAfresh, Promise!Spec

-----------------------------------------------------------------------------
(* The flight under all the background work.                                 *)

\* The worker is the one of the scene.
FromScene == scene \in Scenes /\ work = scene.work

\* What the delivery of a push or an e-mail does to the flight.
LEMMA DeliveryKeepsFlight ==
    ASSUME NEW p \in Runners, DeliveryStep(p)
    PROVE  [FlightNext]_flight /\ UNCHANGED work
<1>1. CASE Mark(p)
  BY <1>1 DEF Mark, Throws, FlightNext
<1>2. ASSUME NEW x \in Deliveries, Refuse(p, x) \/ Send(p, x)
      PROVE  UNCHANGED <<flight, work>>
  BY <1>2 DEF Refuse, Send
<1>3. CASE List(p)
  BY <1>3 DEF List
<1>. QED BY <1>1, <1>2, <1>3 DEF DeliveryStep

LEMMA ReminderKeepsFlight ==
    ASSUME NEW p \in Runners, ReminderStep(p)
    PROVE  UNCHANGED <<flight, work>>
<1>1. ASSUME NEW m \in Members, Insert(p, m) PROVE UNCHANGED <<flight, work>>
  BY <1>1 DEF Insert
<1>2. ASSUME NEW x, Pick(p, x) PROVE UNCHANGED <<flight, work>>
  BY <1>2 DEF Pick, PassOnly
<1>3. CASE Plan(p) \/ ListPart(p) \/ PartOver(p) \/ Weigh(p) \/ ListMembers(p) \/ Aim(p)
  BY <1>3 DEF Plan, ListPart, PartOver, Weigh, ListMembers, Aim, PassOnly
<1>4. CASE Defer(p) \/ Apply(p) \/ Queue(p)
  BY <1>4 DEF Defer, Apply, Queue
<1>. QED BY <1>1, <1>2, <1>3, <1>4 DEF ReminderStep

LEMMA WorkerKeepsFlight ==
    ASSUME FromScene, Worker
    PROVE  [FlightNext]_flight /\ UNCHANGED <<work, scene, leaderboard>>
<1>1. UNCHANGED <<scene, leaderboard>>
  BY DEF Worker
<1>2. ASSUME NEW c \in scene.callers, RunOnce(c)
      PROVE  FlightNext /\ UNCHANGED work
  BY <1>2, ScenesAssumption DEF Worker, Workers, FromScene, RunOnce, FlightNext
<1>3. CASE PassOver
  BY <1>1, <1>3 DEF PassOver, FlightNext
<1>4. CASE Crash
  BY <1>1, <1>4 DEF Crash, FlightNext
<1>5. ASSUME NEW e \in Endpoints, RunForTenant(e) \/ TenantPassOver(e)
      PROVE  UNCHANGED <<flight, work>>
  BY <1>5 DEF RunForTenant, TenantPassOver
<1>. QED BY <1>1, <1>2, <1>3, <1>4, <1>5, DeliveryKeepsFlight, ReminderKeepsFlight
         DEF Worker, PassOver, Crash

\* A step of the composed system is a step of the flight or none, and touches the
\* leaderboard only in its own actions.
LEMMA StepParts ==
    ASSUME FromScene, [Next]_vars
    PROVE  /\ [FlightNext]_flight
           /\ [LeaderboardNext]_leaderboard
           /\ FromScene'
<1>1. CASE Worker
  BY <1>1, WorkerKeepsFlight DEF FromScene
<1>2. CASE Requests
  BY <1>2 DEF Requests, passes, FromScene
<1>3. CASE Board
  BY <1>3 DEF Board, passes, FromScene
<1>4. CASE UNCHANGED vars
  BY <1>4 DEF vars, passes, FromScene
<1>. QED BY <1>1, <1>2, <1>3, <1>4 DEF Next

LEMMA SceneStays == Spec => []FromScene
<1>1. Init => FromScene
  BY DEF Init, FromScene
<1>2. FromScene /\ [Next]_vars => FromScene'
  BY StepParts
<1>. QED BY <1>1, <1>2, PTL DEF Spec

\* Beside deliveries, tenant passes, rows that vanish and ends of the process, each
\* worker of the server keeps the promise of runOnce: passes do not overlap, and
\* nobody is answered before a whole pass made for it after it asked.
THEOREM WorkersServeAfresh == Spec => ServedAfresh
<1>1. Init => FlightInit
  BY DEF Init, PassesInit
<1>2. FromScene /\ [Next]_vars => [FlightNext]_flight
  BY StepParts
<1>3. Spec => FlightSpec
  BY <1>1, <1>2, SceneStays, PTL DEF Spec, FlightSpec
<1>. QED BY <1>3, FlightServesAfresh

----------------------------------------------------------------------------
\* The leaderboard.

\* No points are left from before the last reset, nor from before the time of a
\* request that has passed its check.
BoardInv ==
    /\ period \in Periods /\ lastReset \in 0..period
    /\ board \in [Periods -> 0..MaxEarned]
    /\ \A q \in Periods : q < lastReset => board[q] = 0
    /\ viewer \in [Viewers -> [at : {"new", "reset", "read", "done"}, now : Nat,
                               shown : [Periods -> 0..MaxEarned]]]
    /\ \A v \in Viewers :
        /\ viewer[v].now <= period
        /\ viewer[v].at = "read" => \A q \in Periods : q < viewer[v].now => board[q] = 0
    /\ FreshBoard

LEMMA BoardStarts == LeaderboardInit => BoardInv
BY LeaderboardAssumption DEF LeaderboardInit, BoardInv, FreshBoard, Periods, Empty

LEMMA CreditedStep == ASSUME BoardInv, Credited PROVE BoardInv'
<1>1. /\ board' = [board EXCEPT ![period] = board[period] + 1] /\ board[period] < MaxEarned
      /\ UNCHANGED <<period, lastReset, viewer>>
  BY DEF Credited
<1>2. board' \in [Periods -> 0..MaxEarned] /\ \A q \in Periods : q < period => board'[q] = board[q]
  BY <1>1, LeaderboardAssumption DEF BoardInv, Periods
<1>. QED BY <1>1, <1>2, LeaderboardAssumption DEF BoardInv, FreshBoard, Periods

LEMMA NewPeriodStep == ASSUME BoardInv, NewPeriod PROVE BoardInv'
BY LeaderboardAssumption DEF NewPeriod, BoardInv, FreshBoard, Periods

LEMMA CheckStep == ASSUME BoardInv, NEW v \in Viewers, Check(v) PROVE BoardInv'
<1>1. PICK at \in {"read", "reset"} :
        /\ viewer' = [viewer EXCEPT ![v] = [viewer[v] EXCEPT !.now = period, !.at = at]]
        /\ at = "read" => lastReset >= period
        /\ UNCHANGED <<period, board, lastReset>>
  <2>1. CASE lastReset >= period
    BY <2>1 DEF Check, BoardInv
  <2>2. CASE ~(lastReset >= period)
    BY <2>2 DEF Check, BoardInv
  <2>. QED BY <2>1, <2>2
<1>2. /\ viewer'[v].now = period /\ viewer'[v].at = at
      /\ \A w \in Viewers \ {v} : viewer'[w] = viewer[w]
  BY <1>1 DEF BoardInv
<1>3. period \in Nat
  BY LeaderboardAssumption DEF BoardInv, Periods
<1>4. viewer' \in [Viewers -> [at : {"new", "reset", "read", "done"}, now : Nat,
                              shown : [Periods -> 0..MaxEarned]]]
  BY <1>1, <1>3 DEF BoardInv
<1>5. \A w \in Viewers :
        /\ viewer'[w].now <= period
        /\ viewer'[w].at = "read" => \A q \in Periods : q < viewer'[w].now => board[q] = 0
  <2>1. at = "read" => \A q \in Periods : q < period => board[q] = 0
    BY <1>1, <1>3 DEF BoardInv, Periods
  <2>2. ASSUME NEW w \in Viewers \ {v}
        PROVE  /\ viewer'[w].now <= period
               /\ viewer'[w].at = "read" => \A q \in Periods : q < viewer'[w].now => board[q] = 0
    BY <1>2 DEF BoardInv
  <2>. QED BY <1>2, <1>3, <2>1, <2>2
<1>6. FreshBoard'
  BY <1>1, <1>2 DEF BoardInv, FreshBoard
<1>. QED BY <1>1, <1>4, <1>5, <1>6 DEF BoardInv

LEMMA ResetStep == ASSUME BoardInv, NEW v \in Viewers, Reset(v) PROVE BoardInv'
<1>1. /\ viewer' = [viewer EXCEPT ![v] = [viewer[v] EXCEPT !.at = "read"]]
      /\ board' = Empty /\ lastReset' = viewer[v].now /\ period' = period
  BY DEF Reset, BoardInv
<1>2. /\ viewer'[v] = [viewer[v] EXCEPT !.at = "read"]
      /\ \A w \in Viewers \ {v} : viewer'[w] = viewer[w]
      /\ \A q \in Periods : board'[q] = 0
  BY <1>1 DEF BoardInv, Empty
<1>3. board' \in [Periods -> 0..MaxEarned]
  BY <1>1, LeaderboardAssumption DEF Empty
<1>4. viewer' \in [Viewers -> [at : {"new", "reset", "read", "done"}, now : Nat,
                              shown : [Periods -> 0..MaxEarned]]]
  BY <1>1 DEF BoardInv
<1>5. \A w \in Viewers : viewer'[w].now = viewer[w].now /\ viewer'[w].now <= period
  BY <1>2 DEF BoardInv
<1>6. FreshBoard'
  BY <1>1, <1>2 DEF BoardInv, FreshBoard
<1>7. lastReset' \in 0..period'
  BY <1>1 DEF BoardInv
<1>. QED BY <1>1, <1>2, <1>3, <1>4, <1>5, <1>6, <1>7 DEF BoardInv

LEMMA ReadSummaryStep == ASSUME BoardInv, NEW v \in Viewers, ReadSummary(v) PROVE BoardInv'
<1>1. /\ viewer' = [viewer EXCEPT ![v] = [viewer[v] EXCEPT !.at = "done", !.shown = board]]
      /\ viewer[v].at = "read" /\ UNCHANGED <<period, board, lastReset>>
  BY DEF ReadSummary, BoardInv
<1>2. /\ viewer'[v].now = viewer[v].now /\ viewer'[v].at = "done" /\ viewer'[v].shown = board
      /\ \A w \in Viewers \ {v} : viewer'[w] = viewer[w]
  BY <1>1 DEF BoardInv
<1>3. viewer' \in [Viewers -> [at : {"new", "reset", "read", "done"}, now : Nat,
                              shown : [Periods -> 0..MaxEarned]]]
  BY <1>1 DEF BoardInv
<1>4. FreshBoard'
  BY <1>1, <1>2 DEF BoardInv, FreshBoard
<1>. QED BY <1>1, <1>2, <1>3, <1>4 DEF BoardInv

LEMMA BoardStep == ASSUME BoardInv, [LeaderboardNext]_leaderboard PROVE BoardInv'
<1>1. CASE UNCHANGED leaderboard
  BY <1>1 DEF leaderboard, BoardInv, FreshBoard
<1>. QED BY <1>1, CreditedStep, NewPeriodStep, CheckStep, ResetStep, ReadSummaryStep
         DEF LeaderboardNext

\* Beside all the other work, a dashboard never shows points from before the period
\* in which it was asked for, however late the resets of other requests come.
THEOREM BoardIsFresh == Spec => []FreshBoard
<1>1. Init => BoardInv
  BY BoardStarts DEF Init
<1>2. BoardInv /\ FromScene /\ [Next]_vars => BoardInv'
  BY StepParts, BoardStep
<1>3. BoardInv => FreshBoard
  BY DEF BoardInv
<1>. QED BY <1>1, <1>2, <1>3, SceneStays, PTL DEF Spec

----------------------------------------------------------------------------
\* The rows of the workers, and where their passes are.

\* A call of a holiday endpoint: still to come, about to write what it has read,
\* or done.
HolidayCalls == {Quiet, [at |-> "done"]}
          \cup [at : {"create"}, row : {r \in BlockRows : ~r.applied}]
          \cup [at : {"delete"}, id : Blocks]
          \cup [at : {"end"}, id : Blocks, day : 1..LastDay]

RowsInv ==
    /\ today \in 1..LastDay
    /\ notes \in Seq(NoticeRows)
    /\ device \in [Devices -> {Absent} \cup [owner : Members, ready : BOOLEAN]]
    /\ muted \subseteq Members
    /\ block \in [Blocks -> BlockRows]
    /\ chore \in [Chores -> ChoreRows]
    /\ booked \in [Bookings -> Nat]
    /\ ask \in [Askers -> HolidayCalls]

\* A pass of the reminders, and of a delivery worker, that is under way.
Starting == {"defer", "apply"}
Adding == {"insert", "aim", "queue"}
Dealing == Starting \cup {"members", "weigh"} \cup Adding
Topics == [kind : NoteKinds \cup {"none"}, about : Matters, to : Members \cup {None}]
Passing ==
    [at : {"list", "pick"} \cup Dealing, stage : 1..5, now : Nat, allowed : BOOLEAN,
     seen : [Blocks -> BlockRows], todo : SUBSET Topics, cur : Topics,
     to : SUBSET Members, email : MailStates, note : Nat, aims : SUBSET Devices]
Results == {"SENT", "FAILED", "SKIPPED"}
Marking == {j \in [at : {"mark"}, todo : SUBSET Deliveries, item : Deliveries, got : Results] :
               j.got = "SKIPPED" => j.item[2] = None}
Sending == [at : {"send"}, todo : SUBSET Deliveries] \cup Marking

Idling == {Off, Begun, Ended}
Places == {Unused} \cup Idling \cup Passing \cup Sending

\* Only the caller whose loop runs has a pass beside those of the endpoints, and the
\* reminders have no passes of endpoints.
RunInv ==
    /\ FlightInv
    /\ faults \in Nat
    /\ job \in [Runners -> Places]
    /\ \A c \in Callers : (At(c, "off") <=> active # c) /\ ~At(c, "unused")
    /\ work = "remind" =>
        /\ \A c \in Callers : job[c] \in Idling \cup Passing
        /\ \A e \in Endpoints : job[e] = Unused
    /\ work # "remind" => \A p \in Runners : job[p] \notin Passing

\* What the parts of a pass list, at a time.
Agenda(stage, now) ==
    CASE stage = 1 -> [kind : {"started"}, about : Blocks, to : {None}]
      [] stage = 2 -> [kind : {"ended"}, about : Blocks, to : {None}]
      [] stage = 3 -> [kind : {"soon", "overdue"}, about : Chores, to : Members]
      [] stage = 4 -> [kind : {"summary"}, about : {now}, to : Members]
      [] stage = 5 -> [kind : {"booking"}, about : {k \in Bookings : booked[k] = now}, to : {None}]

\* A pass deals with what its part has listed, one after the other.
InOrder(j) ==
    /\ j.now <= today
    /\ j.at = "list" => j.todo = {}
    /\ j.todo \subseteq Agenda(j.stage, j.now)
    /\ j.at \in Dealing => j.cur \in Agenda(j.stage, j.now) \ j.todo
    /\ j.at \in Starting => j.stage = 1
    /\ j.at = "weigh" => j.cur.to # None
    /\ j.at = "members" => j.cur.to = None
    /\ j.at \in Adding /\ j.cur.to # None => j.to \subseteq {j.cur.to}

OrderInv == work = "remind" => \A c \in Callers : job[c] \in Passing => InOrder(job[c])

----------------------------------------------------------------------------
\* Holiday blocks

\* The last days that a block has or is about to get from a call that ends it.
Ends(b) == {block[b].end} \cup {ask[a].day : a \in {x \in Askers : ask[x].at = "end" /\ ask[x].id = b}}

\* What the pass has read of a block that it is to start still stands, or is gone.
AsRead(j, b) ==
    /\ j.seen[b].start = j.now /\ ~j.seen[b].applied
    /\ j.seen[b] # NoBlock
    /\ block[b] \in {j.seen[b], Deleted}

Clearing(j) ==
    /\ \A b \in Blocks : block[b].applied => block[b].start <= j.now
    /\ j.stage = 1 => \A x \in j.todo : AsRead(j, x.about)
    /\ j.at \in Starting => AsRead(j, j.cur.about)
    /\ j.at = "apply" /\ j.seen[j.cur.about].defer =>
        \A c \in Chores : Deferrable(c) => chore[c].due \notin j.now..j.seen[j.cur.about].end

\* A block that has been applied, and perhaps deleted since.
Past(b) == block[b].applied \/ block[b] = Deleted

EndsPast == \A a \in Askers : ask[a].at = "end" => Past(ask[a].id)

StoredInv ==
    /\ \A b \in Blocks : block[b].applied => block[b].start <= today
    /\ EndsPast
    /\ \A b \in Blocks, c \in Chores : block[b].applied /\ block[b].defer /\ Deferrable(c) =>
           \A e \in Ends(b) : chore[c].due \notin block[b].start..e
ClearInv == work = "remind" => \A p \in Callers : job[p] \in Passing => Clearing(job[p])

----------------------------------------------------------------------------
\* Notices

\* The note is one of those that the topic asks for.
Covers(x, i) ==
    /\ notes[i].kind = x.kind /\ notes[i].about = x.about
    /\ x.to # None => notes[i].to = x.to

\* A note tells of nothing that has not come yet.
Credible(i) ==
    /\ notes[i].day <= today
    /\ notes[i].kind = "summary" => notes[i].about \in Nat /\ notes[i].about <= notes[i].day
    /\ notes[i].kind = "booking" => notes[i].about \in Bookings /\ booked[notes[i].about] <= notes[i].day
    /\ notes[i].kind = "started" => notes[i].about \in Blocks /\ Past(notes[i].about)

\* The pass is still to list what its part `stage` is about.
Before(j, stage) == j.stage < stage \/ (j.stage = stage /\ j.at = "list")

\* What the look for a notice misses of a topic is not there: a summary or a booking
\* of its day was told on that day, and nobody was told of a block it is to start.
\* What it is about to add is not there for those it is still to be added for.
Untold(x, i, now) ==
    Covers(x, i) => x.kind # "started" /\ (x.kind \in {"summary", "booking"} => notes[i].day = now)
Telling(j) ==
    /\ \A i \in 1..Len(notes) :
        /\ Before(j, 4) /\ notes[i].kind = "summary" /\ notes[i].about = j.now => notes[i].day = j.now
        /\ Before(j, 5) /\ notes[i].kind = "booking" /\ booked[notes[i].about] = j.now => notes[i].day = j.now
        /\ \A x \in j.todo : Untold(x, i, j.now)
        /\ j.at \in Starting \cup {"members", "weigh"} => ~Covers(j.cur, i)
        /\ j.at \in Adding /\ notes[i].to \in j.to => ~Covers(j.cur, i)
    /\ j.at \in {"members"} \cup Adding /\ j.stage = 1 => Past(j.cur.about)

NoticeInv ==
    /\ \A i \in 1..Len(notes) : Credible(i)
    /\ OneNoticePerTopic
    /\ work = "remind" => \A p \in Callers : job[p] \in Passing => Telling(job[p])

----------------------------------------------------------------------------
\* Deliveries

\* The pass of p has x still to send.
Coming(p, x) ==
    \/ At(p, "send") /\ x \in job[p].todo
    \/ At(p, "mark") /\ x \in job[p].todo \ {job[p].item}

\* The endpoints whose passes are past x, or have not listed it.
Spent(x) == {e \in Endpoints : ~At(e, "unused") /\ ~At(e, "begin") /\ ~Coming(e, x)}

\* The worker's own pass is past x, or between its sending and its mark.
Served(x) == \/ x \notin Pending /\ (active # NoOne => ~Coming(active, x))
             \/ active # NoOne /\ At(active, "mark") /\ job[active].item = x
Bound(x) == sent[x] <= faults + Cardinality(Spent(x)) + (IF Served(x) THEN 1 ELSE 0)

\* What is on a pass's list is stored, and only what a worker lists is sent.
SendInv ==
    /\ sent \in [Deliveries -> Nat]
    /\ \A p \in Runners : At(p, "send") \/ At(p, "mark") => \A x \in job[p].todo : x[1] <= Len(notes)
    /\ \A x \in Deliveries :
        /\ x[1] > Len(notes) => sent[x] = 0
        /\ work \notin {"push", "mail"} => sent[x] = 0
        /\ Bound(x)

\* Rewriting notes: what stays of each of them, and that a rewritten list is one.
Retold(s) == [i \in 1..Len(s) |-> [kind |-> s[i].kind, about |-> s[i].about,
                                   to |-> s[i].to, day |-> s[i].day]]

LEMMA Rewritten ==
    ASSUME NEW s \in Seq(NoticeRows), NEW t, DOMAIN t = 1..Len(s),
           t = [i \in 1..Len(s) |-> t[i]],
           \A i \in 1..Len(s) : t[i] \in NoticeRows
    PROVE  t \in Seq(NoticeRows) /\ Len(t) = Len(s)
<1>1. Len(s) \in Nat
  OBVIOUS
<1>2. t \in [1..Len(s) -> NoticeRows]
  OBVIOUS
<1>3. t \in Seq(NoticeRows)
  BY <1>1, <1>2, SeqDef
<1>4. Len(t) \in Nat /\ DOMAIN t = 1..Len(t)
  BY <1>3, LenProperties
<1>. QED BY <1>1, <1>3, <1>4

LEMMA NoteTyped ==
    ASSUME notes \in Seq(NoticeRows), NEW i \in 1..Len(notes)
    PROVE  /\ notes[i] \in NoticeRows
           /\ notes[i].push \in [Devices -> PushStates] /\ notes[i].to \in Members
           /\ notes[i].kind \in NoteKinds /\ notes[i].day \in Nat
<1>1. notes[i] \in NoticeRows
  BY ElementOfSeq
<1>. QED BY <1>1 DEF NoticeRows

\* The deliveries of the i-th notification become P.
LEMMA PushRewritten ==
    ASSUME notes \in Seq(NoticeRows), NEW i, NEW P,
           i \in 1..Len(notes) => P \in [Devices -> PushStates],
           notes' = [notes EXCEPT ![i].push = P]
    PROVE  /\ notes' \in Seq(NoticeRows) /\ Len(notes') = Len(notes)
           /\ \A k \in 1..Len(notes) : notes[k] \in NoticeRows /\
                notes'[k] = IF k = i THEN [notes[k] EXCEPT !.push = P] ELSE notes[k]
<1>1. /\ DOMAIN notes = 1..Len(notes) /\ Len(notes) \in Nat
      /\ \A k \in 1..Len(notes) : notes[k] \in NoticeRows
  BY LenProperties, ElementOfSeq
<1>2. /\ DOMAIN notes' = 1..Len(notes)
      /\ notes' = [k \in 1..Len(notes) |-> notes'[k]]
      /\ \A k \in 1..Len(notes) :
            notes'[k] = IF k = i THEN [notes[k] EXCEPT !.push = P] ELSE notes[k]
  BY <1>1
<1>3. \A k \in 1..Len(notes) : notes'[k] \in NoticeRows
  BY <1>1, <1>2 DEF NoticeRows
<1>. QED BY <1>1, <1>2, <1>3, Rewritten

LEMMA EmailRewritten ==
    ASSUME notes \in Seq(NoticeRows), NEW i, NEW e \in MailStates,
           notes' = [notes EXCEPT ![i].email = e]
    PROVE  /\ notes' \in Seq(NoticeRows) /\ Len(notes') = Len(notes)
           /\ \A k \in 1..Len(notes) : notes[k] \in NoticeRows /\
                notes'[k] = IF k = i THEN [notes[k] EXCEPT !.email = e] ELSE notes[k]
<1>1. /\ DOMAIN notes = 1..Len(notes) /\ Len(notes) \in Nat
      /\ \A k \in 1..Len(notes) : notes[k] \in NoticeRows
  BY LenProperties, ElementOfSeq
<1>2. /\ DOMAIN notes' = 1..Len(notes)
      /\ notes' = [k \in 1..Len(notes) |-> notes'[k]]
      /\ \A k \in 1..Len(notes) :
            notes'[k] = IF k = i THEN [notes[k] EXCEPT !.email = e] ELSE notes[k]
  BY <1>1
<1>3. \A k \in 1..Len(notes) : notes'[k] \in NoticeRows
  BY <1>1, <1>2 DEF NoticeRows
<1>. QED BY <1>1, <1>2, <1>3, Rewritten

\* Between two states, the notes tell the same of the same to the same members.
SameTold ==
    /\ notes' \in Seq(NoticeRows) /\ Len(notes') = Len(notes)
    /\ \A i \in 1..Len(notes) :
        /\ notes'[i].kind = notes[i].kind /\ notes'[i].about = notes[i].about
        /\ notes'[i].to = notes[i].to /\ notes'[i].day = notes[i].day
Added(note) ==
    /\ note \in NoticeRows
    /\ notes' \in Seq(NoticeRows) /\ Len(notes') = Len(notes) + 1
    /\ \A i \in 1..Len(notes) : notes'[i] = notes[i]
    /\ notes'[Len(notes) + 1] = note

LEMMA PushSame ==
    ASSUME notes \in Seq(NoticeRows), NEW i, NEW P,
           i \in 1..Len(notes) => P \in [Devices -> PushStates],
           notes' = [notes EXCEPT ![i].push = P]
    PROVE  SameTold
<1>1. /\ notes' \in Seq(NoticeRows) /\ Len(notes') = Len(notes)
      /\ \A k \in 1..Len(notes) : notes[k] \in NoticeRows /\
            notes'[k] = IF k = i THEN [notes[k] EXCEPT !.push = P] ELSE notes[k]
  BY PushRewritten
<1>2. \A k \in 1..Len(notes) :
        /\ notes'[k].kind = notes[k].kind /\ notes'[k].about = notes[k].about
        /\ notes'[k].to = notes[k].to /\ notes'[k].day = notes[k].day
  BY <1>1 DEF NoticeRows
<1>. QED BY <1>1, <1>2 DEF SameTold

LEMMA EmailSame ==
    ASSUME notes \in Seq(NoticeRows), NEW i, NEW e \in MailStates,
           notes' = [notes EXCEPT ![i].email = e]
    PROVE  SameTold
<1>1. /\ notes' \in Seq(NoticeRows) /\ Len(notes') = Len(notes)
      /\ \A k \in 1..Len(notes) : notes[k] \in NoticeRows /\
            notes'[k] = IF k = i THEN [notes[k] EXCEPT !.email = e] ELSE notes[k]
  BY EmailRewritten
<1>2. \A k \in 1..Len(notes) :
        /\ notes'[k].kind = notes[k].kind /\ notes'[k].about = notes[k].about
        /\ notes'[k].to = notes[k].to /\ notes'[k].day = notes[k].day
  BY <1>1 DEF NoticeRows
<1>. QED BY <1>1, <1>2 DEF SameTold

LEMMA SameSame == ASSUME notes \in Seq(NoticeRows), UNCHANGED notes PROVE SameTold
BY DEF SameTold

LEMMA AddedNote ==
    ASSUME notes \in Seq(NoticeRows), NEW note \in NoticeRows, notes' = Append(notes, note)
    PROVE  Added(note)
BY AppendProperties DEF Added

\* A single delivery's status, and the deliveries of a new notification.
LEMMA OnePush ==
    ASSUME notes \in Seq(NoticeRows), NEW i, NEW d \in Devices, NEW s \in PushStates,
           notes' = [notes EXCEPT ![i].push[d] = s]
    PROVE  SameTold
<1>1. notes' = [notes EXCEPT ![i].push = [notes[i].push EXCEPT ![d] = s]]
  OBVIOUS
<1>2. i \in 1..Len(notes) => notes[i].push \in [Devices -> PushStates]
  BY NoteTyped
<1>. QED BY <1>1, <1>2, PushSame

LEMMA AimedSame ==
    ASSUME notes \in Seq(NoticeRows), NEW i, NEW targets, Aimed(i, targets)
    PROVE  SameTold
<1>1. notes' = [notes EXCEPT ![i].push =
                 [d \in Devices |-> IF d \in targets THEN "PENDING" ELSE notes[i].push[d]]]
  BY DEF Aimed
<1>2. i \in 1..Len(notes) => notes[i].push \in [Devices -> PushStates]
  BY NoteTyped
<1>. QED BY <1>1, <1>2, PushSame DEF PushStates

\* What the requests do to the rows.
Personal == {"test", "targeted"}
Heard == SameTold \/ \E note : Added(note) /\ note.kind \in Personal /\ note.day = today

LEMMA DevicesSend ==
    ASSUME RowsInv, \/ \E m \in Members : SendTest(m)
                    \/ \E d \in Devices : SendTargetedTest(d)
    PROVE  /\ \E note : Added(note) /\ note.kind \in Personal /\ note.day = today
           /\ UNCHANGED <<today, device, muted>>
<1>1. today \in Nat /\ notes \in Seq(NoticeRows)
  BY LastDayAssumption DEF RowsInv
<1>2. ASSUME NEW m \in Members, SendTest(m)
      PROVE  /\ \E note : Added(note) /\ note.kind \in Personal /\ note.day = today
             /\ UNCHANGED <<today, device, muted>>
  <2> DEFINE push == [d \in Devices |-> IF d \in Deliverable(m) THEN "PENDING" ELSE "NONE"]
             note == [kind |-> "test", about |-> m, to |-> m, email |-> FallbackFor(m),
                      day |-> today, push |-> push]
  <2>1. notes' = Append(notes, note)
    BY <1>2 DEF SendTest, Note
  <2>2. push \in [Devices -> PushStates] /\ FallbackFor(m) \in MailStates
    BY DEF PushStates, FallbackFor, MailStates
  <2> HIDE DEF push
  <2>3. note \in NoticeRows /\ note.kind \in Personal /\ note.day = today
    BY <1>1, <2>2 DEF NoticeRows, NoteKinds, Mutable, Matters, Personal
  <2> HIDE DEF note
  <2>4. Added(note)
    BY <1>1, <2>1, <2>3, AddedNote
  <2>. QED BY <1>2, <2>3, <2>4 DEF SendTest
<1>3. ASSUME NEW d \in Devices, SendTargetedTest(d)
      PROVE  /\ \E note : Added(note) /\ note.kind \in Personal /\ note.day = today
             /\ UNCHANGED <<today, device, muted>>
  <2> DEFINE push == [[c \in Devices |-> "NONE"] EXCEPT ![d] = "PENDING"]
             note == [kind |-> "targeted", about |-> d, to |-> device[d].owner, email |-> "SKIPPED",
                      day |-> today, push |-> push]
  <2>1. notes' = Append(notes, note)
    BY <1>3 DEF SendTargetedTest, Note
  <2>2. push \in [Devices -> PushStates]
    BY DEF PushStates
  <2> HIDE DEF push
  <2>5. device[d].owner \in Members
    BY <1>3 DEF SendTargetedTest, RowsInv
  <2>3. note \in NoticeRows /\ note.kind \in Personal /\ note.day = today
    BY <1>1, <2>2, <2>5 DEF NoticeRows, NoteKinds, Mutable, Matters, MailStates, Personal
  <2> HIDE DEF note
  <2>4. Added(note)
    BY <1>1, <2>1, <2>3, AddedNote
  <2>. QED BY <1>3, <2>3, <2>4 DEF SendTargetedTest
<1>. QED BY <1>2, <1>3

LEMMA DeletedSame ==
    ASSUME RowsInv, NEW d \in Devices, DeleteDevice(d)
    PROVE  /\ SameTold /\ device' = [device EXCEPT ![d] = Absent]
           /\ UNCHANGED <<today, muted>>
<1>1. Len(notes) \in Nat /\ \A i \in 1..Len(notes) : notes[i] \in NoticeRows
  BY ElementOfSeq DEF RowsInv
<1>2. /\ DOMAIN notes' = 1..Len(notes)
      /\ notes' = [i \in 1..Len(notes) |-> notes'[i]]
      /\ \A i \in 1..Len(notes) : notes'[i] = [notes[i] EXCEPT !.push[d] = "NONE"]
  BY DEF DeleteDevice
<1>3. ASSUME NEW i \in 1..Len(notes)
      PROVE  /\ notes'[i] \in NoticeRows
             /\ notes'[i].kind = notes[i].kind /\ notes'[i].about = notes[i].about
             /\ notes'[i].to = notes[i].to /\ notes'[i].day = notes[i].day
  <2> DEFINE push == [notes[i].push EXCEPT ![d] = "NONE"]
  <2>1. notes[i] \in NoticeRows /\ notes'[i] = [notes[i] EXCEPT !.push = push]
    BY <1>1, <1>2
  <2>2. push \in [Devices -> PushStates]
    BY <2>1 DEF NoticeRows, PushStates
  <2> HIDE DEF push
  <2>. QED BY <2>1, <2>2 DEF NoticeRows
<1>4. notes' \in Seq(NoticeRows) /\ Len(notes') = Len(notes)
  BY <1>2, <1>3, Rewritten DEF RowsInv
<1>. QED BY <1>3, <1>4 DEF SameTold, DeleteDevice

LEMMA SettingsRows == ASSUME RowsInv, Settings, UNCHANGED booked PROVE RowsInv' /\ Heard /\ today' = today
<1>1. UNCHANGED <<block, chore, ask>>
  BY DEF Settings, holidays
<1>2. ASSUME NEW d \in Devices, DeleteDevice(d) PROVE RowsInv' /\ Heard /\ today' = today
  <2>1. device' \in [Devices -> {Absent} \cup [owner : Members, ready : BOOLEAN]]
    BY <1>2, DeletedSame DEF RowsInv
  <2>2. SameTold /\ UNCHANGED <<today, muted>>
    BY <1>2, DeletedSame
  <2>. QED BY <1>1, <2>1, <2>2 DEF RowsInv, SameTold, Heard
<1>3. ASSUME NEW d \in Devices, NEW m \in Members, RegisterDevice(d, m, TRUE)
      PROVE  RowsInv' /\ Heard /\ today' = today
  <2>1. device' \in [Devices -> {Absent} \cup [owner : Members, ready : BOOLEAN]]
    BY <1>3 DEF RowsInv, RegisterDevice
  <2>2. SameTold
    BY <1>3, SameSame DEF RowsInv, RegisterDevice
  <2>. QED BY <1>1, <1>3, <2>1, <2>2 DEF RowsInv, RegisterDevice, Heard
<1>4. ASSUME NEW m \in Members, Mute(m) PROVE RowsInv' /\ Heard /\ today' = today
  <2>1. SameTold
    BY <1>4, SameSame DEF RowsInv, Mute
  <2>. QED BY <1>1, <1>4, <2>1 DEF RowsInv, Mute, Heard
<1>5. CASE \/ \E m \in Members : SendTest(m)
           \/ \E d \in Devices : SendTargetedTest(d)
  <2>1. PICK note : Added(note) /\ note.kind \in Personal /\ note.day = today
    BY <1>5, DevicesSend
  <2>2. UNCHANGED <<today, device, muted>>
    BY <1>5, DevicesSend
  <2>. QED BY <1>1, <2>1, <2>2 DEF RowsInv, Heard, Added
<1>. QED BY <1>2, <1>3, <1>4, <1>5 DEF Settings

LEMMA DeletedRow == Deleted \in BlockRows /\ ~Deleted.applied /\ Deleted # NoBlock
<1>1. 0 \in 0..LastDay + 1
  BY LastDayAssumption
<1>2. NoBlock \in BlockRows /\ NoBlock.defer = FALSE /\ NoBlock.applied = FALSE
  BY <1>1 DEF NoBlock, BlockRows
<1>. QED BY <1>2 DEF Deleted, BlockRows

LEMMA CallRows ==
    ASSUME RowsInv, NEW a \in Askers, HolidayCall(a), UNCHANGED booked
    PROVE  RowsInv'
<1>. USE LastDayAssumption
<1>1. UNCHANGED <<today, notes, device, muted, chore>>
  BY DEF HolidayCall, CreateRead, CreateWrite, DeleteRead, DeleteWrite, EndRead, EndWrite, rows
<1>2. SUFFICES ask' \in [Askers -> HolidayCalls] /\ block' \in [Blocks -> BlockRows]
  BY <1>1 DEF RowsInv
<1>3. ASSUME NEW next \in HolidayCalls, Asks(a, next) PROVE ask' \in [Askers -> HolidayCalls]
  BY <1>3 DEF Asks, RowsInv
<1>4. [at |-> "done"] \in HolidayCalls
  BY DEF HolidayCalls
<1>5. ASSUME NEW from \in 1..LastDay, NEW until \in 1..LastDay + 1, NEW mode \in BOOLEAN,
             CreateRead(a, from, until, mode)
      PROVE  ask' \in [Askers -> HolidayCalls] /\ block' \in [Blocks -> BlockRows]
  <2> DEFINE row == [start |-> from, end |-> until, defer |-> mode, applied |-> FALSE]
  <2>1. row \in BlockRows /\ ~row.applied
    BY DEF BlockRows
  <2> HIDE DEF row
  <2>2. [at |-> "create", row |-> row] \in HolidayCalls
    BY <2>1 DEF HolidayCalls
  <2>3. Asks(a, [at |-> "create", row |-> row]) /\ block' = block
    BY <1>5 DEF CreateRead, row
  <2>. QED BY <1>3, <2>2, <2>3 DEF RowsInv
<1>6. ASSUME NEW b \in Blocks, CreateWrite(a, b)
      PROVE  ask' \in [Askers -> HolidayCalls] /\ block' \in [Blocks -> BlockRows]
  <2>1. ask[a].row \in BlockRows
    BY <1>6 DEF CreateWrite, RowsInv, HolidayCalls, Quiet
  <2>. QED BY <1>3, <1>4, <1>6, <2>1 DEF CreateWrite, RowsInv
<1>7. ASSUME NEW b \in Blocks, DeleteRead(a, b)
      PROVE  ask' \in [Askers -> HolidayCalls] /\ block' \in [Blocks -> BlockRows]
  <2>1. [at |-> "delete", id |-> b] \in HolidayCalls
    BY DEF HolidayCalls
  <2>. QED BY <1>3, <1>7, <2>1 DEF DeleteRead, RowsInv
<1>8. CASE DeleteWrite(a)
  <2>1. Deleted \in BlockRows
    BY DeletedRow
  <2>. QED BY <1>3, <1>4, <1>8, <2>1 DEF DeleteWrite, RowsInv
<1>9. ASSUME NEW b \in Blocks, EndRead(a, b)
      PROVE  ask' \in [Askers -> HolidayCalls] /\ block' \in [Blocks -> BlockRows]
  <2>1. [at |-> "end", id |-> b, day |-> today] \in HolidayCalls
    BY DEF HolidayCalls, RowsInv
  <2>. QED BY <1>3, <1>9, <2>1 DEF EndRead, RowsInv
<1>10. CASE EndWrite(a)
  <2>1. ask[a].id \in Blocks /\ ask[a].day \in 0..LastDay + 1
    BY <1>10 DEF EndWrite, RowsInv, HolidayCalls, Quiet
  <2>2. [block[ask[a].id] EXCEPT !.end = ask[a].day] \in BlockRows
    BY <2>1 DEF RowsInv, BlockRows
  <2>3. block' \in [Blocks -> BlockRows]
    <3>1. CASE Exists(ask[a].id)
      <4>1. block' = [block EXCEPT ![ask[a].id] = [block[ask[a].id] EXCEPT !.end = ask[a].day]]
        BY <1>10, <3>1 DEF EndWrite
      <4>. QED BY <2>1, <2>2, <4>1 DEF RowsInv
    <3>2. CASE ~Exists(ask[a].id)
      BY <1>10, <3>2 DEF EndWrite, RowsInv
    <3>. QED BY <3>1, <3>2
  <2>. QED BY <1>3, <1>4, <1>10, <2>3 DEF EndWrite
<1>. QED BY <1>5, <1>6, <1>7, <1>8, <1>9, <1>10 DEF HolidayCall

LEMMA HomeRows == ASSUME RowsInv, Home, UNCHANGED booked PROVE RowsInv' /\ SameTold
<1>1. UNCHANGED notes /\ SameTold
  <2>1. UNCHANGED notes
    BY DEF Home, Midnight, ChoreGoesOn, HolidayCall, CreateRead, CreateWrite, DeleteRead, DeleteWrite,
         EndRead, EndWrite, rows
  <2>. QED BY <2>1, SameSame DEF RowsInv
<1>2. CASE Midnight
  BY <1>1, <1>2, LastDayAssumption DEF Midnight, RowsInv
<1>3. ASSUME NEW c \in Chores, ChoreGoesOn(c) PROVE RowsInv'
  <2>1. chore \in [Chores -> ChoreRows] /\ chore[c] \in ChoreRows
    BY <1>3 DEF RowsInv
  <2>2. /\ [chore[c] EXCEPT !.state = "done"] \in ChoreRows
        /\ [chore[c] EXCEPT !.state = "pending"] \in ChoreRows
        /\ \A m \in Members : [chore[c] EXCEPT !.who = m] \in ChoreRows
    BY <2>1 DEF ChoreRows
  <2>3. PICK y \in ChoreRows : chore' = [chore EXCEPT ![c] = y]
    BY <1>3, <2>2 DEF ChoreGoesOn
  <2>4. chore' \in [Chores -> ChoreRows]
    BY <2>1, <2>3
  <2>. QED BY <1>3, <2>4 DEF ChoreGoesOn, RowsInv, rows
<1>4. ASSUME NEW a \in Askers, HolidayCall(a) PROVE RowsInv'
  BY <1>4, CallRows
<1>. QED BY <1>1, <1>2, <1>3, <1>4 DEF Home

LEMMA RetryRows ==
    ASSUME RowsInv, NEW i, Retry(i), UNCHANGED <<holidays, booked>>
    PROVE  RowsInv' /\ SameTold
<1>1. UNCHANGED <<today, device, muted, block, chore, ask>>
  BY DEF Retry, RetryPush, RetryEmail, holidays
<1>2. SameTold
  <2>1. ASSUME NEW d \in Devices, RetryPush(i, d) PROVE SameTold
    BY <2>1, OnePush DEF RetryPush, RowsInv, PushStates
  <2>2. CASE RetryEmail(i)
    BY <2>2, EmailSame DEF RetryEmail, RowsInv, MailStates
  <2>. QED BY <2>1, <2>2 DEF Retry
<1>. QED BY <1>1, <1>2 DEF RowsInv, SameTold

\* Where a pass is tells what it knows.
LEMMA PlacesApart ==
    ASSUME NEW j \in Places
    PROVE  /\ j.at \in {"list", "pick"} \cup Dealing <=> j \in Passing
           /\ j.at = "send" => j \in [at : {"send"}, todo : SUBSET Deliveries]
           /\ j.at = "mark" => j \in Marking
           /\ j.at = "over" => j = Ended
           /\ j.at = "begin" => j = Begun
           /\ j.at = "off" => j = Off
           /\ j.at = "unused" => j = Unused
           /\ j.at \in {"list", "pick", "over", "begin", "off", "unused", "send", "mark"} \cup Dealing
BY DEF Places, Idling, Passing, Sending, Marking, Ended, Begun, Off, Unused, Dealing, Starting, Adding

LEMMA MarkedRows ==
    ASSUME RowsInv, RunInv, NEW p \in Runners, Mark(p)
    PROVE  SameTold /\ UNCHANGED <<today, device, muted>>
<1>. DEFINE x == job[p].item
<1>1. UNCHANGED <<today, device, muted>>
  BY DEF Mark
<1>2. x \in Deliveries /\ job[p].got \in Results /\ (job[p].got = "SKIPPED" => x[2] = None)
  <2>1. job[p] \in Places /\ job[p].at = "mark"
    BY DEF Mark, At, RunInv
  <2>. QED BY <2>1, PlacesApart DEF Marking
<1>. SUFFICES SameTold
  BY <1>1
<1>3. CASE Status(x) = "NONE"
  BY <1>3, SameSame DEF Mark, RowsInv
<1>4. CASE Status(x) # "NONE"
  <2>1. Marked(x, job[p].got)
    BY <1>4 DEF Mark
  <2>2. job[p].got \in MailStates /\ (x[2] # None => x[2] \in Devices)
    BY <1>2 DEF Results, MailStates, Deliveries
  <2>3. CASE x[2] = None
    BY <2>1, <2>2, <2>3, EmailSame DEF Marked, RowsInv
  <2>4. CASE x[2] # None
    <3>1. job[p].got \in PushStates
      BY <1>2, <2>4 DEF Results, PushStates
    <3>. QED BY <2>1, <2>2, <2>4, <3>1, OnePush DEF Marked, RowsInv
  <2>. QED BY <2>3, <2>4
<1>. QED BY <1>3, <1>4

LEMMA DeliveryRows ==
    ASSUME RowsInv, RunInv, NEW p \in Runners, DeliveryStep(p), UNCHANGED <<holidays, booked>>
    PROVE  RowsInv' /\ SameTold
<1>1. UNCHANGED <<today, device, muted, block, chore, ask>> /\ SameTold
  <2>1. CASE Mark(p)
    BY <2>1, MarkedRows DEF holidays
  <2>2. CASE List(p) \/ \E x \in Deliveries : Refuse(p, x) \/ Send(p, x)
    BY <2>2, SameSame DEF List, Refuse, Send, rows, holidays, RowsInv
  <2>. QED BY <2>1, <2>2 DEF DeliveryStep
<1>. QED BY <1>1 DEF RowsInv, SameTold

\* What a pass of the reminders does to the rows: the notices it adds are for its
\* topic, and it writes blocks and chores only when it starts a block.
LEMMA PassGoes ==
    ASSUME RunInv, NEW p \in Runners, NEW next, Goes(p, next)
    PROVE  job'[p] = next /\ \A q \in Runners \ {p} : job'[q] = job[q]
BY DEF Goes, RunInv

\* Who makes a pass of the reminders.
LEMMA OnlyActive ==
    ASSUME RunInv, NEW p \in Runners, ReminderStep(p)
    PROVE  /\ p = active /\ p \in Callers /\ work = "remind"
           /\ job[p] = Begun \/ job[p] \in Passing
<1>1. /\ At(p, "begin") /\ work = "remind"
      \/ job[p].at \in {"list", "pick"} \cup Dealing
  <2>1. ASSUME NEW m \in Members, Insert(p, m) PROVE job[p].at \in Dealing
    BY <2>1 DEF Insert, At, Dealing, Adding
  <2>2. ASSUME NEW x, Pick(p, x) PROVE job[p].at = "pick"
    BY <2>2 DEF Pick, At
  <2>3. CASE Plan(p)
    BY <2>3 DEF Plan
  <2>4. CASE ListPart(p) \/ PartOver(p)
    BY <2>4 DEF ListPart, PartOver, At
  <2>5. CASE Defer(p) \/ Apply(p) \/ Weigh(p) \/ ListMembers(p) \/ Aim(p) \/ Queue(p)
    BY <2>5 DEF Defer, Apply, Weigh, ListMembers, Aim, Queue, At, Dealing, Starting, Adding
  <2>. QED BY <2>1, <2>2, <2>3, <2>4, <2>5 DEF ReminderStep
<1>2. job[p] \in Places
  BY DEF RunInv
<1>3. (job[p].at = "begin" /\ job[p] = Begun /\ work = "remind") \/ job[p] \in Passing
  BY <1>1, <1>2, PlacesApart DEF At
<1>4. work = "remind"
  BY <1>3 DEF RunInv
<1>5. p \notin Endpoints
  BY <1>3, <1>4 DEF RunInv, Unused, Begun, Passing, Dealing, Starting, Adding
<1>6. job[p].at # "off"
  BY <1>3 DEF Passing, Dealing, Starting, Adding
<1>. QED BY <1>3, <1>4, <1>5, <1>6 DEF RunInv, Runners, At

LEMMA NoBlockRow == NoBlock \in BlockRows /\ ~NoBlock.applied
<1>1. 0 \in 0..LastDay + 1
  BY LastDayAssumption
<1>. QED BY <1>1 DEF NoBlock, BlockRows

\* What is on the agenda of a part, and who it goes to.
LEMMA AgendaTells ==
    ASSUME NEW stage \in 1..5, NEW now \in Nat, NEW x \in Agenda(stage, now)
    PROVE  /\ x \in Topics /\ x.kind \in NoteKinds \ Personal
           /\ x.kind = "started" <=> stage = 1
           /\ x.kind = "summary" <=> stage = 4
           /\ x.kind = "booking" <=> stage = 5
           /\ stage \in {1, 2, 5} => x.to = None
           /\ stage \in {3, 4} => x.to \in Members
           /\ stage = 1 => x.about \in Blocks
           /\ stage = 4 => x.about = now
           /\ stage = 5 => x.about \in Bookings /\ booked[x.about] = now
           /\ \A y \in Agenda(stage, now) : y.kind = x.kind /\ y.about = x.about /\ y.to = x.to => x = y
<1>. USE DEF Topics, NoteKinds, Mutable, Personal, Matters
<1>1. CASE stage = 1
  BY <1>1 DEF Agenda
<1>2. CASE stage = 2
  BY <1>2 DEF Agenda
<1>3. CASE stage = 3
  BY <1>3 DEF Agenda
<1>4. CASE stage = 4
  BY <1>4 DEF Agenda
<1>5. CASE stage = 5
  BY <1>5 DEF Agenda
<1>. QED BY <1>1, <1>2, <1>3, <1>4, <1>5

LEMMA CandidatesListed ==
    ASSUME RowsInv, NEW stage \in 1..5, NEW now \in Nat
    PROVE  Candidates(Stages[stage], now) \subseteq Agenda(stage, now)
<1>1. CASE stage = 1
  BY <1>1 DEF Agenda, Candidates, Stages, Topic
<1>2. CASE stage = 2
  BY <1>2 DEF Agenda, Candidates, Stages, Topic
<1>3. CASE stage = 3
  <2>1. \A c \in Chores : chore[c].who \in Members
    BY DEF RowsInv, ChoreRows
  <2>. QED BY <1>3, <2>1 DEF Agenda, Candidates, Stages, Topic, DueNow
<1>4. CASE stage = 4
  BY <1>4 DEF Agenda, Candidates, Stages, Topic
<1>5. CASE stage = 5
  BY <1>5 DEF Agenda, Candidates, Stages, Topic
<1>. QED BY <1>1, <1>2, <1>3, <1>4, <1>5

\* A pass that is under way, at its place.
Underway(p) ==
    /\ p \in Callers /\ p = active /\ work = "remind"
    /\ job[p] \in Passing /\ InOrder(job[p])

\* The next place of a pass of the reminders.
GetsPlace(p) == job'[p] = Ended \/ (job'[p] \in Passing /\ InOrder(job[p])')

LEMMA PlanPlace ==
    ASSUME RowsInv, RunInv, NEW p \in Runners, Plan(p)
    PROVE  job'[p] \in Passing /\ InOrder(job[p])' /\ UNCHANGED <<rows, holidays, booked>>
<1>1. PICK ok \in BOOLEAN : Goes(p, Pass(ok))
  BY DEF Plan
<1>2. job'[p] = Pass(ok) /\ UNCHANGED <<rows, holidays, booked>>
  BY <1>1, PassGoes DEF Plan, PassOnly
<1>3. NothingSeen \in [Blocks -> BlockRows]
  BY NoBlockRow DEF NothingSeen
<1>4. NoTopic \in Topics
  BY DEF NoTopic, Topic, Topics, Matters
<1>5. today \in Nat /\ today' = today
  BY <1>2, LastDayAssumption DEF RowsInv, rows
<1>6. Pass(ok) \in Passing
  BY <1>3, <1>4, <1>5 DEF Pass, Passing, MailStates
<1>7. InOrder(job[p])'
  <2>1. /\ job'[p].at = "list" /\ job'[p].now = today /\ job'[p].todo = {}
    BY <1>2 DEF Pass
  <2>. QED BY <2>1, <1>5 DEF InOrder, Dealing, Starting, Adding
<1>. QED BY <1>2, <1>6, <1>7

LEMMA ListPartPlace ==
    ASSUME RowsInv, RunInv, NEW p \in Runners, Underway(p), ListPart(p)
    PROVE  GetsPlace(p) /\ UNCHANGED <<rows, holidays, booked>>
<1>. DEFINE j == job[p]
<1>1. /\ j.at = "list" /\ j \in Passing /\ InOrder(j)
      /\ UNCHANGED <<rows, holidays, booked>>
  BY DEF ListPart, At, PassOnly, Underway
<1>2. CASE Goes(p, Ended)
  BY <1>1, <1>2, PassGoes DEF GetsPlace
<1>3. ASSUME NEW s, s \in {Candidates(Stages[j.stage], j.now)} \cup {{}},
             NEW seen \in {block, NothingSeen},
             Goes(p, [j EXCEPT !.at = "pick", !.todo = s, !.seen = seen])
      PROVE  GetsPlace(p)
  <2>1. j.stage \in 1..5 /\ j.now \in Nat
    BY <1>1 DEF Passing
  <2>2. s \subseteq Agenda(j.stage, j.now)
    BY <1>3, <2>1, CandidatesListed
  <2>3. s \subseteq Topics
    BY <2>1, <2>2, AgendaTells
  <2>4. seen \in [Blocks -> BlockRows]
    BY NoBlockRow DEF RowsInv, NothingSeen
  <2>5. job'[p] = [j EXCEPT !.at = "pick", !.todo = s, !.seen = seen]
    BY <1>3, PassGoes
  <2>6. job'[p] \in Passing /\ job'[p].at = "pick" /\ job'[p].todo = s
        /\ job'[p].now = j.now /\ job'[p].stage = j.stage
    BY <1>1, <2>3, <2>4, <2>5 DEF Passing
  <2>7. InOrder(job[p])'
    <3>1. today' = today /\ booked' = booked /\ j.now <= today
      BY <1>1 DEF rows, InOrder
    <3>. QED BY <2>2, <2>6, <3>1 DEF InOrder, Dealing, Starting, Adding, Agenda
  <2>. QED BY <2>6, <2>7 DEF GetsPlace
<1>. QED BY <1>1, <1>2, <1>3 DEF ListPart

LEMMA PartOverPlace ==
    ASSUME RowsInv, RunInv, NEW p \in Runners, Underway(p), PartOver(p)
    PROVE  GetsPlace(p) /\ UNCHANGED <<rows, holidays, booked>>
<1>. DEFINE j == job[p]
<1>1. /\ j.todo = {} /\ j \in Passing /\ InOrder(j)
      /\ UNCHANGED <<rows, holidays, booked>>
  BY DEF PartOver, PassOnly, Underway
<1>2. CASE j.stage = 5
  BY <1>1, <1>2, PassGoes DEF GetsPlace, PartOver, Stages
<1>3. CASE j.stage # 5
  <2>1. job'[p] = [j EXCEPT !.at = "list", !.stage = j.stage + 1]
    BY <1>1, <1>3, PassGoes DEF PartOver, Stages
  <2>0. j.stage \in 1..5 /\ j.stage + 1 \in 1..5
    BY <1>1, <1>3 DEF Passing
  <2> DEFINE n == j.stage + 1
  <2> HIDE DEF n
  <2>2. job'[p] \in Passing /\ job'[p].at = "list" /\ job'[p].todo = {} /\ job'[p].now = j.now
    <3>1. n \in 1..5 /\ job'[p] = [j EXCEPT !.at = "list", !.stage = n]
      BY <2>0, <2>1 DEF n
    <3>. QED BY <1>1, <3>1 DEF Passing
  <2>3. InOrder(job[p])'
    <3>1. today' = today /\ j.now <= today
      BY <1>1 DEF rows, InOrder
    <3>. QED BY <2>2, <3>1 DEF InOrder, Dealing, Starting, Adding
  <2>. QED BY <1>1, <2>2, <2>3 DEF GetsPlace
<1>. QED BY <1>1, <1>2, <1>3

LEMMA PickPlace ==
    ASSUME RowsInv, RunInv, NEW p \in Runners, Underway(p), NEW x, Pick(p, x)
    PROVE  GetsPlace(p) /\ UNCHANGED <<rows, holidays, booked>>
<1>. DEFINE j == job[p]
<1>1. /\ j.at = "pick" /\ x \in j.todo /\ j \in Passing /\ InOrder(j)
      /\ UNCHANGED <<rows, holidays, booked>>
      /\ today' = today /\ booked' = booked
  BY DEF Pick, At, PassOnly, Underway, rows
<1>2. /\ j.stage \in 1..5 /\ j.now \in Nat /\ j.now <= today
      /\ x \in Agenda(j.stage, j.now) /\ j.todo \subseteq Agenda(j.stage, j.now) /\ x \in Topics
  BY <1>1, AgendaTells DEF Passing, InOrder
<1>3. ASSUME Goes(p, Skip(p, x)) PROVE GetsPlace(p)
  <2>1. job'[p] = [j EXCEPT !.todo = j.todo \ {x}]
    BY <1>3, PassGoes DEF Skip
  <2>2. job'[p] \in Passing /\ job'[p].at = "pick" /\ job'[p].todo = j.todo \ {x}
        /\ job'[p].now = j.now /\ job'[p].stage = j.stage
    BY <1>1, <2>1 DEF Passing
  <2>3. InOrder(job[p])'
    BY <1>1, <1>2, <2>2 DEF InOrder, Dealing, Starting, Adding, Agenda
  <2>. QED BY <2>2, <2>3 DEF GetsPlace
<1>4. ASSUME NEW place \in Starting \cup {"members", "weigh"}, Goes(p, Deal(p, x, place)),
             place \in Starting => x.kind = "started", place = "weigh" => x.to # None,
             place = "members" => x.to = None
      PROVE  GetsPlace(p)
  <2>1. job'[p] = [[j EXCEPT !.todo = j.todo \ {x}] EXCEPT !.at = place, !.cur = x]
    BY <1>4, PassGoes DEF Deal, Skip
  <2>2. /\ job'[p] \in Passing /\ job'[p].at = place /\ job'[p].todo = j.todo \ {x}
        /\ job'[p].now = j.now /\ job'[p].stage = j.stage /\ job'[p].cur = x
    BY <1>1, <1>2, <1>4, <2>1 DEF Passing, Dealing
  <2>3. place \in Starting => j.stage = 1
    BY <1>2, <1>4, AgendaTells
  <2>4. InOrder(job[p])'
    <3>1. place \notin Adding /\ place # "list"
      BY DEF Starting, Adding
    <3>2. Agenda(job[p].stage, job[p].now)' = Agenda(j.stage, j.now)
      BY <1>1, <2>2 DEF Agenda
    <3>. QED BY <1>1, <1>2, <1>4, <2>2, <2>3, <3>1, <3>2 DEF InOrder
  <2>. QED BY <2>2, <2>4 DEF GetsPlace
<1>5. CASE x.kind = "started"
  <2>1. Goes(p, Deal(p, x, "defer")) \/ Goes(p, Deal(p, x, "apply"))
    BY <1>5 DEF Pick
  <2>. QED BY <1>1, <1>4, <1>5, <2>1 DEF Starting
<1>6. CASE x.kind # "started"
  BY <1>1, <1>3, <1>4, <1>6 DEF Pick, Starting
<1>. QED BY <1>5, <1>6

\* A pass that has dealt with a topic goes on with its list.
LEMMA DealtPlace ==
    ASSUME RunInv, NEW p \in Runners, Underway(p), job'[p] = Dealt(p),
           UNCHANGED <<today, booked>>
    PROVE  /\ GetsPlace(p) /\ job'[p] \in Passing
           /\ job'[p].at = "pick" /\ job'[p].todo = job[p].todo
           /\ job'[p].now = job[p].now /\ job'[p].stage = job[p].stage /\ job'[p].seen = job[p].seen
<1>. DEFINE j == job[p]
<1>1. j \in Passing /\ InOrder(j)
  BY DEF Underway
<1>2. NoTopic \in Topics /\ "SKIPPED" \in MailStates /\ 0 \in Nat
  BY DEF NoTopic, Topic, Topics, Matters, MailStates
<1>3. /\ job'[p] \in Passing /\ job'[p].at = "pick" /\ job'[p].todo = j.todo
      /\ job'[p].now = j.now /\ job'[p].stage = j.stage /\ job'[p].seen = j.seen
  BY <1>1, <1>2 DEF Dealt, Passing
<1>4. InOrder(job[p])'
  BY <1>1, <1>3 DEF InOrder, Dealing, Starting, Adding, Agenda
<1>. QED BY <1>3, <1>4 DEF GetsPlace

\* A pass goes on with what it deals with.
LEMMA StillDealing ==
    ASSUME RunInv, NEW p \in Runners, Underway(p), UNCHANGED <<today, booked>>,
           job[p].at \in Dealing, job'[p] \in Passing,
           job'[p].at \in Dealing \ {"weigh"}, job'[p].at = "members" => job[p].cur.to = None, job'[p].at \in Starting => job[p].at \in Starting,
           job'[p].todo = job[p].todo, job'[p].cur = job[p].cur, job'[p].now = job[p].now,
           job'[p].stage = job[p].stage,
           job'[p].at \in Adding /\ job[p].cur.to # None => job'[p].to \subseteq {job[p].cur.to}
    PROVE  GetsPlace(p)
<1>1. Agenda(job[p].stage, job[p].now)' = Agenda(job[p].stage, job[p].now)
  BY DEF Agenda
<1>2. job'[p].at # "list" /\ job'[p].at # "weigh"
  BY DEF Dealing, Starting, Adding
<1>3. today' = today /\ InOrder(job[p])
  BY DEF Underway
<1>4. InOrder(job[p])'
  BY <1>1, <1>2, <1>3 DEF InOrder
<1>. QED BY <1>4 DEF GetsPlace

LEMMA DeferPlace ==
    ASSUME RowsInv, RunInv, NEW p \in Runners, Underway(p), Defer(p)
    PROVE  /\ GetsPlace(p) /\ UNCHANGED <<rows, block, ask, booked>>
           /\ job'[p] = [job[p] EXCEPT !.at = "apply"] /\ chore' \in [Chores -> ChoreRows]
<1>. DEFINE j == job[p]
<1>1. /\ j.at = "defer" /\ j \in Passing /\ InOrder(j)
      /\ DueAfter(j.now, j.seen[j.cur.about])
      /\ UNCHANGED <<rows, block, ask, booked>>
      /\ job'[p] = [j EXCEPT !.at = "apply"]
  BY PassGoes DEF Defer, At, Underway
<1>2. /\ job'[p] \in Passing /\ job'[p].at = "apply" /\ job'[p].todo = j.todo
      /\ job'[p].now = j.now /\ job'[p].stage = j.stage /\ job'[p].cur = j.cur
  BY <1>1 DEF Passing, Dealing, Starting
<1>3. GetsPlace(p)
  BY <1>1, <1>2, StillDealing DEF Dealing, Starting, Adding, rows
<1>4. chore' \in [Chores -> ChoreRows]
  <2>1. j.cur.about \in Blocks /\ j.stage \in 1..5 /\ j.now \in Nat
    <3>1. /\ j.stage \in 1..5 /\ j.now \in Nat /\ j.cur \in Agenda(j.stage, j.now)
          /\ j.stage = 1
      BY <1>1 DEF Passing, InOrder, Dealing, Starting
    <3>. QED BY <3>1, AgendaTells
  <2> DEFINE row == j.seen[j.cur.about]
  <2>2. row.end \in 0..LastDay + 1
    BY <1>1, <2>1 DEF Passing, BlockRows
  <2>3. row.end + 1 \in 0..LastDay + 2
    BY <2>2, LastDayAssumption
  <2> HIDE DEF row
  <2>4. ASSUME NEW c \in Chores
        PROVE  [chore[c] EXCEPT !.due = row.end + 1] \in ChoreRows
    <3> DEFINE e == row.end + 1
    <3> HIDE DEF e
    <3>1. e \in 0..LastDay + 2
      BY <2>3 DEF e
    <3>2. [chore[c] EXCEPT !.due = e] \in ChoreRows
      BY <3>1 DEF RowsInv, ChoreRows
    <3>. QED BY <3>2 DEF e
  <2>5. chore' = [c \in Chores |->
                IF Deferrable(c) /\ chore[c].due \in j.now..row.end
                THEN [chore[c] EXCEPT !.due = row.end + 1] ELSE chore[c]]
    BY <1>1 DEF DueAfter, row
  <2>. QED BY <2>4, <2>5 DEF RowsInv
<1>. QED BY <1>1, <1>3, <1>4

LEMMA ApplyPlace ==
    ASSUME RowsInv, RunInv, NEW p \in Runners, Underway(p), Apply(p)
    PROVE  /\ GetsPlace(p) /\ UNCHANGED <<rows, chore, ask, booked>>
           /\ block' \in [Blocks -> BlockRows]
           /\ job[p].cur.about \in Blocks
<1>. DEFINE j == job[p]
            b == j.cur.about
<1>1. /\ j.at = "apply" /\ j \in Passing /\ InOrder(j)
      /\ UNCHANGED <<rows, chore, ask, booked>>
  BY DEF Apply, At, Underway
<1>2. b \in Blocks
  <2>1. /\ j.stage \in 1..5 /\ j.now \in Nat /\ j.cur \in Agenda(j.stage, j.now)
        /\ j.stage = 1
    BY <1>1 DEF Passing, InOrder, Dealing, Starting
  <2>. QED BY <2>1, AgendaTells
<1>3. CASE ~Exists(b)
  BY <1>1, <1>2, <1>3, PassGoes DEF Apply, GetsPlace, RowsInv
<1>4. CASE Exists(b)
  <2>1. block' \in [Blocks -> BlockRows]
    <3>1. block' = [block EXCEPT ![b] = [block[b] EXCEPT !.applied = TRUE]]
      BY <1>4 DEF Apply
    <3>2. [block[b] EXCEPT !.applied = TRUE] \in BlockRows
      BY <1>2 DEF RowsInv, BlockRows
    <3>. QED BY <1>2, <3>1, <3>2 DEF RowsInv
  <2>2. CASE j.allowed
    <3>1. job'[p] = [j EXCEPT !.at = "members"]
      BY <1>4, <2>2, PassGoes DEF Apply
    <3>2. /\ job'[p] \in Passing /\ job'[p].at = "members" /\ job'[p].todo = j.todo
          /\ job'[p].now = j.now /\ job'[p].stage = j.stage /\ job'[p].cur = j.cur
      BY <1>1, <3>1 DEF Passing, Dealing, Starting
    <3>4. j.cur.to = None
      <4>1. /\ j.stage \in 1..5 /\ j.now \in Nat /\ j.cur \in Agenda(j.stage, j.now)
            /\ j.stage = 1
        BY <1>1 DEF Passing, InOrder, Dealing, Starting
      <4>. QED BY <4>1, AgendaTells
    <3>3. GetsPlace(p)
      BY <1>1, <3>2, <3>4, StillDealing DEF Dealing, Starting, Adding, rows
    <3>. QED BY <1>1, <1>2, <2>1, <3>3
  <2>3. CASE ~j.allowed
    <3>1. job'[p] = Dealt(p)
      BY <1>4, <2>3, PassGoes DEF Apply
    <3>2. GetsPlace(p)
      BY <1>1, <3>1, DealtPlace DEF rows
    <3>. QED BY <1>1, <1>2, <2>1, <3>2
  <2>. QED BY <2>2, <2>3
<1>. QED BY <1>3, <1>4

LEMMA WeighPlace ==
    ASSUME RowsInv, RunInv, NEW p \in Runners, Underway(p), Weigh(p)
    PROVE  /\ GetsPlace(p) /\ UNCHANGED <<rows, holidays, booked>>
           /\ \/ job'[p] = Ended
              \/ /\ job'[p] \in Passing /\ job'[p].at \in {"pick", "insert"}
                 /\ job'[p].todo = job[p].todo /\ job'[p].now = job[p].now
                 /\ job'[p].stage = job[p].stage /\ job'[p].seen = job[p].seen
                 /\ job'[p].at = "insert" => job'[p].cur = job[p].cur /\ job'[p].to = {job[p].cur.to}
<1>. DEFINE j == job[p]
<1>1. /\ j.at = "weigh" /\ j \in Passing /\ InOrder(j)
      /\ UNCHANGED <<rows, holidays, booked>> /\ UNCHANGED <<today, booked>>
  BY DEF Weigh, At, Underway, PassOnly, rows
<1>2. CASE job'[p] = Dealt(p)
  BY <1>1, <1>2, DealtPlace
<1>3. CASE job'[p] = Ended
  BY <1>1, <1>3 DEF GetsPlace
<1>4. CASE job'[p] = [j EXCEPT !.at = "insert", !.to = {j.cur.to}, !.email = FallbackFor(j.cur.to)]
  <2>1. j.cur \in Topics /\ j.cur.to # None
    BY <1>1 DEF Passing, InOrder
  <2>2. j.cur.to \in Members /\ FallbackFor(j.cur.to) \in MailStates
    BY <2>1 DEF Topics, FallbackFor, MailStates
  <2> DEFINE m == j.cur.to
             e == FallbackFor(m)
             M == {m}
  <2> HIDE DEF m, e, M
  <2>3. /\ M \subseteq Members /\ e \in MailStates
        /\ job'[p] = [j EXCEPT !.at = "insert", !.to = M, !.email = e]
    BY <1>4, <2>2 DEF m, e, M
  <2>4. /\ job'[p] \in Passing /\ job'[p].at = "insert" /\ job'[p].todo = j.todo
        /\ job'[p].now = j.now /\ job'[p].stage = j.stage /\ job'[p].cur = j.cur
        /\ job'[p].to = M /\ job'[p].seen = j.seen
    BY <1>1, <2>3 DEF Passing, Dealing, Adding
  <2>5. GetsPlace(p)
    BY <1>1, <2>4, StillDealing DEF Dealing, Starting, Adding, m, M
  <2>. QED BY <1>1, <2>4, <2>5 DEF m, M
<1>. QED BY <1>2, <1>3, <1>4, PassGoes DEF Weigh

LEMMA ListMembersPlace ==
    ASSUME RowsInv, RunInv, NEW p \in Runners, Underway(p), ListMembers(p)
    PROVE  /\ GetsPlace(p) /\ UNCHANGED <<rows, holidays, booked>>
           /\ job'[p] = [job[p] EXCEPT !.at = "insert", !.to = Members]
<1>. DEFINE j == job[p]
<1>1. /\ j.at = "members" /\ j \in Passing /\ InOrder(j)
      /\ UNCHANGED <<rows, holidays, booked>> /\ UNCHANGED <<today, booked>>
      /\ job'[p] = [j EXCEPT !.at = "insert", !.to = Members]
  BY PassGoes DEF ListMembers, At, Underway, PassOnly, rows
<1>2. /\ job'[p] \in Passing /\ job'[p].at = "insert" /\ job'[p].todo = j.todo
      /\ job'[p].now = j.now /\ job'[p].stage = j.stage /\ job'[p].cur = j.cur
      /\ job'[p].to = Members
  BY <1>1 DEF Passing, Dealing, Adding
<1>3. j.cur.to = None
  BY <1>1 DEF InOrder
<1>. QED BY <1>1, <1>2, <1>3, StillDealing DEF Dealing, Starting, Adding

LEMMA InsertPlace ==
    ASSUME RowsInv, RunInv, NEW p \in Runners, Underway(p), NEW m \in Members, Insert(p, m)
    PROVE  /\ GetsPlace(p)
           /\ UNCHANGED <<today, device, muted, flight, work, faults, holidays, booked>>
           /\ \E note : /\ Added(note) /\ note.kind = job[p].cur.kind
                        /\ note.about = job[p].cur.about /\ note.to = m /\ note.day = today
           /\ m \in job[p].to /\ job[p].at = "insert"
           /\ job'[p] \in Passing /\ job'[p].at = "aim" /\ job'[p].to = job[p].to \ {m}
           /\ job'[p].todo = job[p].todo /\ job'[p].now = job[p].now
           /\ job'[p].stage = job[p].stage /\ job'[p].cur = job[p].cur /\ job'[p].seen = job[p].seen
<1>. DEFINE j == job[p]
            n == Len(notes) + 1
            note == [kind |-> j.cur.kind, about |-> j.cur.about, to |-> m, email |-> j.email,
                     day |-> today, push |-> [d \in Devices |-> "NONE"]]
<1>1. /\ j.at = "insert" /\ m \in j.to /\ j \in Passing /\ InOrder(j)
      /\ UNCHANGED <<today, device, muted, flight, work, faults, holidays, booked>>
      /\ job'[p] = [j EXCEPT !.at = "aim", !.to = j.to \ {m}, !.note = n]
      /\ notes' = Append(notes, note)
  BY PassGoes DEF Insert, At, Underway, Inserted, Note
<1>2. n \in Nat
  BY LenProperties DEF RowsInv
<1>. HIDE DEF n
<1>3. /\ job'[p] \in Passing /\ job'[p].at = "aim" /\ job'[p].todo = j.todo
      /\ job'[p].now = j.now /\ job'[p].stage = j.stage /\ job'[p].cur = j.cur
      /\ job'[p].to = j.to \ {m} /\ job'[p].seen = j.seen
  BY <1>1, <1>2 DEF Passing, Dealing, Adding
<1>4. GetsPlace(p)
  <2>1. j.cur.to # None => j.to \subseteq {j.cur.to}
    BY <1>1 DEF InOrder, Adding
  <2>. QED BY <1>1, <1>3, <2>1, StillDealing DEF Dealing, Starting, Adding
<1>5. note \in NoticeRows
  <2>1. /\ j.stage \in 1..5 /\ j.now \in Nat /\ j.cur \in Agenda(j.stage, j.now)
        /\ j.email \in MailStates
    BY <1>1 DEF Passing, InOrder, Dealing, Adding
  <2>2. j.cur.kind \in NoteKinds /\ j.cur.about \in Matters
    BY <2>1, AgendaTells DEF Topics
  <2>3. today \in Nat
    BY LastDayAssumption DEF RowsInv
  <2> DEFINE push == [d \in Devices |-> "NONE"]
  <2>4. push \in [Devices -> PushStates]
    BY DEF PushStates
  <2> HIDE DEF push
  <2>5. [kind |-> j.cur.kind, about |-> j.cur.about, to |-> m, email |-> j.email,
         day |-> today, push |-> push] \in NoticeRows
    BY <2>1, <2>2, <2>3, <2>4 DEF NoticeRows
  <2>. QED BY <2>5 DEF push
<1>6. Added(note)
  BY <1>1, <1>5, AddedNote DEF RowsInv
<1>7. note.kind = j.cur.kind /\ note.about = j.cur.about /\ note.to = m /\ note.day = today
  OBVIOUS
<1>. HIDE DEF note
<1>. QED BY <1>1, <1>3, <1>4, <1>6, <1>7

\* The pass goes on with the next member, or has dealt with its topic.
LEMMA NextPlace ==
    ASSUME RunInv, NEW p \in Runners, Underway(p), job[p].at \in Adding,
           job'[p] = NextMember(p), UNCHANGED <<today, booked>>
    PROVE  /\ GetsPlace(p) /\ job'[p] \in Passing
           /\ \/ job'[p].at = "pick"
              \/ job'[p].at = "insert" /\ job'[p].cur = job[p].cur /\ job'[p].to = job[p].to
           /\ job'[p].todo = job[p].todo
           /\ job'[p].now = job[p].now /\ job'[p].stage = job[p].stage /\ job'[p].seen = job[p].seen
<1>1. CASE job[p].to = {}
  BY <1>1, DealtPlace DEF NextMember
<1>2. CASE job[p].to # {}
  <2>1. job[p] \in Passing /\ InOrder(job[p]) /\ job'[p] = [job[p] EXCEPT !.at = "insert"]
    BY <1>2 DEF NextMember, Underway
  <2>2. /\ job'[p] \in Passing /\ job'[p].at = "insert" /\ job'[p].todo = job[p].todo
        /\ job'[p].now = job[p].now /\ job'[p].stage = job[p].stage /\ job'[p].cur = job[p].cur
        /\ job'[p].to = job[p].to /\ job'[p].seen = job[p].seen
    BY <2>1 DEF Passing, Dealing, Adding
  <2>3. job[p].cur.to # None => job[p].to \subseteq {job[p].cur.to}
    BY <2>1 DEF InOrder
  <2>4. GetsPlace(p)
    BY <2>1, <2>2, <2>3, StillDealing DEF Dealing, Starting, Adding
  <2>. QED BY <2>2, <2>4
<1>. QED BY <1>1, <1>2

\* The recipient's devices are read, and written: the notices stay what they are.
LEMMA AimPlace ==
    ASSUME RowsInv, RunInv, NEW p \in Runners, Underway(p), Aim(p)
    PROVE  /\ GetsPlace(p) /\ UNCHANGED <<rows, holidays, booked>>
           /\ job[p].at \in Adding /\ job'[p] \in Passing
           /\ \/ job'[p].at = "pick"
              \/ job'[p].at \in Adding /\ job'[p].cur = job[p].cur /\ job'[p].to = job[p].to
           /\ job'[p].todo = job[p].todo
           /\ job'[p].now = job[p].now /\ job'[p].stage = job[p].stage /\ job'[p].seen = job[p].seen
<1>. DEFINE j == job[p]
            aims == Deliverable(notes[j.note].to)
<1>1. /\ j.at = "aim" /\ j.at \in Adding /\ j \in Passing /\ InOrder(j)
      /\ UNCHANGED <<rows, holidays, booked>> /\ UNCHANGED <<today, booked>>
  BY DEF Aim, At, Underway, PassOnly, rows, Adding
<1>2. CASE job'[p] = NextMember(p)
  BY <1>1, <1>2, NextPlace DEF Adding
<1>3. CASE job'[p] = [j EXCEPT !.at = "queue", !.aims = aims]
  <2>1. aims \subseteq Devices
    BY DEF Deliverable
  <2> HIDE DEF aims
  <2>2. /\ job'[p] \in Passing /\ job'[p].at = "queue" /\ job'[p].todo = j.todo
        /\ job'[p].now = j.now /\ job'[p].stage = j.stage /\ job'[p].cur = j.cur
        /\ job'[p].to = j.to /\ job'[p].seen = j.seen
    BY <1>1, <1>3, <2>1 DEF Passing, Dealing, Adding
  <2>3. j.cur.to # None => j.to \subseteq {j.cur.to}
    BY <1>1 DEF InOrder
  <2>4. GetsPlace(p)
    BY <1>1, <2>2, <2>3, StillDealing DEF Dealing, Starting, Adding
  <2>. QED BY <1>1, <2>2, <2>4 DEF Adding
<1>. QED BY <1>2, <1>3, PassGoes DEF Aim

LEMMA QueuePlace ==
    ASSUME RowsInv, RunInv, NEW p \in Runners, Underway(p), Queue(p)
    PROVE  /\ GetsPlace(p) /\ SameTold
           /\ UNCHANGED <<today, device, muted, holidays, booked>>
           /\ job[p].at \in Adding
           /\ \/ job'[p] = Ended
              \/ /\ job'[p] \in Passing
                 /\ \/ job'[p].at = "pick"
                    \/ job'[p].at = "insert" /\ job'[p].cur = job[p].cur /\ job'[p].to = job[p].to
                 /\ job'[p].todo = job[p].todo
                 /\ job'[p].now = job[p].now /\ job'[p].stage = job[p].stage
                 /\ job'[p].seen = job[p].seen
<1>1. job[p].at \in Adding /\ UNCHANGED <<today, device, muted, holidays, booked>>
  BY DEF Queue, At, Adding
<1>2. CASE job'[p] = Ended /\ UNCHANGED notes
  BY <1>1, <1>2, SameSame DEF GetsPlace, RowsInv
<1>3. CASE Aimed(job[p].note, job[p].aims) /\ job'[p] = NextMember(p)
  <2>1. SameTold
    BY <1>3, AimedSame DEF RowsInv
  <2>. QED BY <1>1, <1>3, <2>1, NextPlace
<1>. QED BY <1>2, <1>3, PassGoes DEF Queue

\* A step of a pass leaves the rows in order and goes on with the pass.
LEMMA ReminderBase ==
    ASSUME RowsInv, RunInv, OrderInv, NEW p \in Runners, ReminderStep(p)
    PROVE  /\ RowsInv' /\ GetsPlace(p)
           /\ p \in Callers /\ p = active /\ work = "remind"
           /\ UNCHANGED <<today, flight, work, faults, booked>>
           /\ \A q \in Runners \ {p} : job'[q] = job[q]
<1>1. p \in Callers /\ p = active /\ work = "remind" /\ UNCHANGED <<flight, work>>
  BY OnlyActive, ReminderKeepsFlight
<1>2. CASE Plan(p)
  <2>1. UNCHANGED <<rows, holidays, booked>> /\ GetsPlace(p)
    BY <1>2, PlanPlace DEF GetsPlace
  <2>2. UNCHANGED faults /\ \A q \in Runners \ {p} : job'[q] = job[q]
    BY <1>2, PassGoes DEF Plan, PassOnly
  <2>. QED BY <1>1, <2>1, <2>2 DEF rows, holidays, RowsInv
<1>3. CASE ~Plan(p)
  <2>. USE <1>3
  <2>1. job[p] # Begun
    <3>1. ASSUME job[p] = Begun PROVE FALSE
      <4>1. job[p].at = "begin"
        BY <3>1 DEF Begun
      <4>2. ASSUME NEW m \in Members, Insert(p, m) PROVE FALSE
        BY <4>1, <4>2 DEF Insert, At
      <4>3. ASSUME NEW x, Pick(p, x) PROVE FALSE
        BY <4>1, <4>3 DEF Pick, At
      <4>4. CASE ListPart(p) \/ PartOver(p) \/ Defer(p) \/ Apply(p) \/ Weigh(p) \/ ListMembers(p)
                 \/ Aim(p) \/ Queue(p)
        BY <4>1, <4>4 DEF ListPart, PartOver, Defer, Apply, Weigh, ListMembers, Aim, Queue, At
      <4>. QED BY <4>2, <4>3, <4>4 DEF ReminderStep
    <3>. QED BY <3>1
  <2>2. Underway(p)
    BY <1>1, <2>1, OnlyActive DEF Underway, OrderInv
  <2>3. CASE ListPart(p) \/ PartOver(p) \/ Weigh(p) \/ ListMembers(p) \/ Aim(p)
    <3>1. UNCHANGED <<rows, holidays, booked>> /\ GetsPlace(p)
      BY <2>2, <2>3, ListPartPlace, PartOverPlace, WeighPlace, ListMembersPlace, AimPlace
    <3>2. UNCHANGED faults /\ \A q \in Runners \ {p} : job'[q] = job[q]
      BY <2>3, PassGoes DEF ListPart, PartOver, Weigh, ListMembers, Aim, PassOnly
    <3>. QED BY <1>1, <3>1, <3>2 DEF rows, holidays, RowsInv
  <2>4. ASSUME NEW x, Pick(p, x)
        PROVE  /\ RowsInv' /\ GetsPlace(p) /\ UNCHANGED <<today, faults, booked>>
               /\ \A q \in Runners \ {p} : job'[q] = job[q]
    <3>1. UNCHANGED <<rows, holidays, booked>> /\ GetsPlace(p)
      BY <2>2, <2>4, PickPlace
    <3>2. UNCHANGED faults /\ \A q \in Runners \ {p} : job'[q] = job[q]
      BY <2>4, PassGoes DEF Pick, PassOnly
    <3>. QED BY <3>1, <3>2 DEF rows, holidays, RowsInv
  <2>5. ASSUME NEW m \in Members, Insert(p, m)
        PROVE  /\ RowsInv' /\ GetsPlace(p) /\ UNCHANGED <<today, faults, booked>>
               /\ \A q \in Runners \ {p} : job'[q] = job[q]
    <3>1. /\ UNCHANGED <<today, device, muted, faults, holidays, booked>> /\ GetsPlace(p)
          /\ \E note : Added(note)
      BY <2>2, <2>5, InsertPlace
    <3>2. \A q \in Runners \ {p} : job'[q] = job[q]
      BY <2>5, PassGoes DEF Insert
    <3>. QED BY <3>1, <3>2 DEF holidays, RowsInv, Added
  <2>6. CASE Queue(p)
    <3>1. /\ UNCHANGED <<today, device, muted, holidays, booked>> /\ GetsPlace(p) /\ SameTold
      BY <2>2, <2>6, QueuePlace
    <3>2. UNCHANGED faults /\ \A q \in Runners \ {p} : job'[q] = job[q]
      BY <2>6, PassGoes DEF Queue
    <3>. QED BY <1>1, <3>1, <3>2 DEF holidays, RowsInv, SameTold
  <2>7. CASE Defer(p)
    <3>1. UNCHANGED <<rows, block, ask, booked>> /\ GetsPlace(p) /\ chore' \in [Chores -> ChoreRows]
      BY <2>2, <2>7, DeferPlace
    <3>2. UNCHANGED faults /\ \A q \in Runners \ {p} : job'[q] = job[q]
      BY <2>7, PassGoes DEF Defer
    <3>. QED BY <1>1, <3>1, <3>2 DEF rows, RowsInv
  <2>8. CASE Apply(p)
    <3>1. UNCHANGED <<rows, chore, ask, booked>> /\ GetsPlace(p) /\ block' \in [Blocks -> BlockRows]
      BY <2>2, <2>8, ApplyPlace
    <3>2. UNCHANGED faults
      BY <2>8 DEF Apply
    <3>3. \A q \in Runners \ {p} : job'[q] = job[q]
      BY <2>8, PassGoes DEF Apply
    <3>. QED BY <1>1, <3>1, <3>2, <3>3 DEF rows, RowsInv
  <2>. QED BY <1>1, <2>3, <2>4, <2>5, <2>6, <2>7, <2>8 DEF ReminderStep
<1>. QED BY <1>2, <1>3

\* How the passes move: one of them at a time, and the change of runner.
\* Two ways to be in order still.
LEMMA StaysInOrder ==
    ASSUME NEW c \in Callers, job'[c] = job[c], InOrder(job[c]), booked' = booked,
           today \in Nat, today' \in Nat, today <= today', job[c] \in Passing
    PROVE  InOrder(job[c])'
<1>1. Agenda(job[c].stage, job[c].now)' = Agenda(job[c].stage, job[c].now)
  BY DEF Agenda
<1>2. job[c].now <= today'
  BY DEF InOrder, Passing
<1>. QED BY <1>1, <1>2 DEF InOrder

\* A pass moves and leaves the flight alone.
LEMMA OneMoves ==
    ASSUME RunInv, FlightInv', UNCHANGED <<work, faults, active>>, NEW p \in Runners, NEW next,
           Goes(p, next), next \in Places, next.at # "off" /\ next.at # "unused",
           p \in Callers => p = active,
           work = "remind" => p \in Callers /\ next \in Idling \cup Passing,
           work # "remind" => next \notin Passing
    PROVE  RunInv'
<1>1. job'[p] = next /\ \A q \in Runners \ {p} : job'[q] = job[q]
  BY PassGoes
<1>2. job' \in [Runners -> Places]
  BY DEF Goes, RunInv
<1>3. \A c \in Callers : (At(c, "off")' <=> active' # c) /\ ~At(c, "unused")'
  BY <1>1 DEF RunInv, At, Runners
<1>4. work' = "remind" =>
        /\ \A c \in Callers : job'[c] \in Idling \cup Passing
        /\ \A e \in Endpoints : job'[e] = Unused
  BY <1>1, EndpointsAssumption DEF RunInv, Runners
<1>5. work' # "remind" => \A q \in Runners : job'[q] \notin Passing
  BY <1>1 DEF RunInv
<1>. QED BY <1>2, <1>3, <1>4, <1>5 DEF RunInv

LEMMA OffPlaces ==
    /\ Off \in Places /\ Begun \in Places /\ Ended \in Places /\ Unused \in Places
    /\ Off.at = "off" /\ Begun.at = "begin" /\ Ended.at = "over" /\ Unused.at = "unused"
    /\ Off \notin Passing /\ Begun \notin Passing /\ Ended \notin Passing /\ Unused \notin Passing
BY DEF Places, Idling, Off, Begun, Ended, Unused, Passing, Dealing, Starting, Adding

LEMMA RunOnceRuns ==
    ASSUME RunInv, FlightInv', NEW c \in Callers, RunOnce(c)
    PROVE  RunInv' /\ \A q \in Callers : job'[q] = job[q] \/ job'[q] \notin Passing
<1>1. CASE StartLoop(c) /\ Goes(c, Begun)
  <2>1. c \in Runners /\ active = NoOne /\ active' = c /\ UNCHANGED <<work, faults>> /\ c # NoOne
    BY <1>1, NoOneAssumption DEF StartLoop, RunOnce, Runners
  <2>2. job'[c] = Begun /\ \A q \in Runners \ {c} : job'[q] = job[q]
    BY <1>1, <2>1, PassGoes
  <2>3. job' \in [Runners -> Places]
    BY <1>1, OffPlaces DEF Goes, RunInv
  <2>4. \A q \in Callers : active # q
    BY <2>1, NoOneAssumption
  <2>5. \A q \in Callers : (At(q, "off")' <=> active' # q) /\ ~At(q, "unused")'
    BY <2>1, <2>2, <2>4, OffPlaces DEF RunInv, At, Runners
  <2>6. work' = "remind" =>
        /\ \A q \in Callers : job'[q] \in Idling \cup Passing
        /\ \A e \in Endpoints : job'[e] = Unused
    BY <2>1, <2>2, EndpointsAssumption DEF RunInv, Runners, Idling
  <2>7. work' # "remind" => \A q \in Runners : job'[q] \notin Passing
    BY <2>1, <2>2, OffPlaces DEF RunInv
  <2>. QED BY <2>1, <2>2, <2>3, <2>5, <2>6, <2>7, OffPlaces DEF RunInv, Runners
<1>2. CASE QueueUp(c) /\ UNCHANGED job
  BY <1>2 DEF QueueUp, RunOnce, RunInv, At
<1>. QED BY <1>1, <1>2 DEF RunOnce

LEMMA PassOverRuns ==
    ASSUME RunInv, FlightInv', PassOver
    PROVE  RunInv' /\ \A q \in Callers : job'[q] = job[q] \/ job'[q] \notin Passing
<1>1. /\ active \in Callers /\ active' \in Callers \cup {NoOne} /\ UNCHANGED <<work, faults>>
      /\ NoOne \notin Runners /\ Callers \subseteq Runners /\ Endpoints \cap Callers = {}
  BY NoOneAssumption, EndpointsAssumption DEF PassOver, RunInv, FlightInv, FlightTypeOK, Runners
<1>2. /\ job' = [p \in Runners |-> job'[p]]
      /\ \A p \in Runners : job'[p] = IF p = active' THEN Begun
                                     ELSE IF p = active THEN Off ELSE job[p]
  BY DEF PassOver
<1>3. job' \in [Runners -> Places]
  BY <1>2, OffPlaces DEF RunInv
<1>4. \A q \in Callers : (At(q, "off")' <=> active' # q) /\ ~At(q, "unused")'
  BY <1>1, <1>2, OffPlaces DEF RunInv, At
<1>5. work' = "remind" =>
        /\ \A q \in Callers : job'[q] \in Idling \cup Passing
        /\ \A e \in Endpoints : job'[e] = Unused
  BY <1>1, <1>2 DEF RunInv, Runners, Idling
<1>6. work' # "remind" => \A q \in Runners : job'[q] \notin Passing
  BY <1>1, <1>2, OffPlaces DEF RunInv
<1>. QED BY <1>1, <1>2, <1>3, <1>4, <1>5, <1>6, OffPlaces DEF RunInv

LEMMA CrashRuns ==
    ASSUME RunInv, FlightInv', Crash
    PROVE  RunInv' /\ \A q \in Callers : job'[q] = job[q] \/ job'[q] \notin Passing
<1>1. /\ active' = NoOne /\ work' = work /\ faults' \in Nat
      /\ Callers \subseteq Runners /\ Endpoints \subseteq Runners /\ Endpoints \cap Callers = {}
      /\ \A q \in Callers : q # NoOne
  BY NoOneAssumption, EndpointsAssumption DEF Crash, ThrowAll, flight, RunInv, Runners
<1>2. /\ job' = [p \in Runners |-> job'[p]]
      /\ \A p \in Runners : job'[p] = IF At(p, "unused") THEN Unused ELSE Off
  BY DEF Crash
<1>3. job' \in [Runners -> Places]
  BY <1>2, OffPlaces
<1>4. \A q \in Callers : job'[q] = Off
  BY <1>1, <1>2 DEF RunInv
<1>5. \A q \in Callers : (At(q, "off")' <=> active' # q) /\ ~At(q, "unused")'
  BY <1>1, <1>4, OffPlaces DEF At
<1>6. work' = "remind" =>
        /\ \A q \in Callers : job'[q] \in Idling \cup Passing
        /\ \A e \in Endpoints : job'[e] = Unused
  BY <1>1, <1>2, <1>4, OffPlaces DEF RunInv, Idling, At
<1>7. work' # "remind" => \A q \in Runners : job'[q] \notin Passing
  BY <1>2, OffPlaces
<1>. QED BY <1>1, <1>3, <1>4, <1>5, <1>6, <1>7, OffPlaces DEF RunInv

\* The pass of an endpoint begins, ends, or is over with an error.
LEMMA EndpointMoves ==
    ASSUME RunInv, FlightInv', UNCHANGED <<work, faults, active>>, NEW e \in Endpoints, NEW next \in Places,
           Goes(e, next), work # "remind", next \notin Passing
    PROVE  RunInv'
<1>1. e \in Runners /\ e \notin Callers /\ Callers \subseteq Runners
  BY EndpointsAssumption DEF Runners
<1>2. job'[e] = next /\ \A q \in Runners \ {e} : job'[q] = job[q]
  BY <1>1, PassGoes
<1>3. job' \in [Runners -> Places]
  BY DEF Goes, RunInv
<1>4. \A q \in Callers : job'[q] = job[q]
  BY <1>1, <1>2
<1>5. \A q \in Callers : (At(q, "off")' <=> active' # q) /\ ~At(q, "unused")'
  BY <1>4 DEF RunInv, At
<1>6. \A q \in Runners : job'[q] \notin Passing
  BY <1>2 DEF RunInv
<1>. QED BY <1>3, <1>5, <1>6 DEF RunInv

LEMMA TenantRuns ==
    ASSUME RunInv, FlightInv', NEW e \in Endpoints, RunForTenant(e) \/ TenantPassOver(e)
    PROVE  RunInv' /\ \A q \in Callers : job'[q] = job[q]
<1>1. UNCHANGED <<work, faults, active>>
  BY DEF RunForTenant, TenantPassOver, flight
<1>2. work # "remind"
  BY OffPlaces DEF RunForTenant, TenantPassOver, RunInv, At
<1>3. PICK next \in {Begun, Off} : Goes(e, next)
  BY DEF RunForTenant, TenantPassOver
<1>4. RunInv'
  BY <1>1, <1>2, <1>3, EndpointMoves, OffPlaces
<1>5. \A q \in Callers : job'[q] = job[q]
  BY <1>3, EndpointsAssumption, PassGoes DEF Runners
<1>. QED BY <1>4, <1>5

\* A pass of the deliveries.
LEMMA DeliveryRuns ==
    ASSUME RunInv, FlightInv', NEW p \in Runners, DeliveryStep(p)
    PROVE  RunInv' /\ work # "remind"
<1>1. /\ job[p].at \in {"begin", "send", "mark"} /\ UNCHANGED <<work, faults>>
      /\ work # "remind"
  <2>1. CASE List(p)
    BY <2>1 DEF List, At
  <2>2. CASE Mark(p) \/ \E x \in Deliveries : Refuse(p, x) \/ Send(p, x)
    <3>1. job[p].at \in {"send", "mark"} /\ UNCHANGED <<work, faults>>
      BY <2>2 DEF Mark, Refuse, Send, At, Throws
    <3>2. work # "remind"
      BY <3>1, OffPlaces DEF RunInv, Runners, Idling, Passing, Dealing, Starting, Adding
    <3>. QED BY <3>1, <3>2
  <2>. QED BY <2>1, <2>2 DEF DeliveryStep
<1>2. p \in Callers => p = active
  BY <1>1 DEF RunInv, At
<1>3. job[p] \in Places
  BY DEF RunInv
<1>4. ASSUME NEW next \in Sending \cup {Ended}, Goes(p, next), UNCHANGED active
      PROVE  RunInv'
  <2>1. /\ next \in Places /\ next.at # "off" /\ next.at # "unused" /\ next \notin Passing
    BY OffPlaces DEF Places, Sending, Marking, Passing, Dealing, Starting, Adding
  <2>. QED BY <1>1, <1>2, <1>4, <2>1, OneMoves
<1>5. CASE List(p)
  <2>1. UNCHANGED active
    BY <1>5 DEF List, flight
  <2>2. ASSUME NEW s \in SUBSET Deliveries PROVE [at |-> "send", todo |-> s] \in Sending
    BY DEF Sending
  <2>3. PICK s \in Listed \cup (IF p \in Endpoints THEN {{x} : x \in Pending} ELSE {}) :
           Goes(p, IF s = {} THEN [at |-> "over"] ELSE [at |-> "send", todo |-> s])
    BY <1>5 DEF List
  <2>4. s \in SUBSET Deliveries
    <3>1. Pending \subseteq Deliveries
      BY DEF Pending
    <3>. QED BY <2>3, <3>1 DEF Listed
  <2>. QED BY <1>1, <1>4, <2>1, <2>2, <2>3, <2>4 DEF Ended
<1>6. ASSUME NEW x \in Deliveries, Refuse(p, x) \/ Send(p, x)
      PROVE  RunInv'
  <2>1. UNCHANGED active /\ job[p].at = "send"
    BY <1>6 DEF Refuse, Send, flight, At
  <2>2. job[p].todo \in SUBSET Deliveries
    BY <1>3, <2>1, PlacesApart
  <2>3. PICK got \in Results : To(p, x, got) /\ (got = "SKIPPED" => x[2] = None)
    BY <1>6 DEF Refuse, Send, Results
  <2>4. [at |-> "mark", todo |-> job[p].todo, item |-> x, got |-> got] \in Sending
    BY <2>2, <2>3 DEF Sending, Marking
  <2>. QED BY <1>4, <2>1, <2>3, <2>4 DEF To
<1>7. CASE Mark(p)
  <2> DEFINE rest == job[p].todo \ {job[p].item}
  <2>1. job[p].at = "mark"
    BY <1>7 DEF Mark, At
  <2>2. rest \in SUBSET Deliveries
    BY <1>3, <2>1, PlacesApart DEF Marking
  <2> HIDE DEF rest
  <2>3. CASE Throws(p)
    <3>1. Goes(p, Off)
      BY <2>3 DEF Throws
    <3>2. CASE p \in Callers
      <4>1. p = active /\ active' = NoOne
        BY <1>2, <2>3, <3>2 DEF Throws, ThrowAll
      <4>2. job'[p] = Off /\ \A q \in Runners \ {p} : job'[q] = job[q]
        BY <3>1, PassGoes
      <4>3. job' \in [Runners -> Places]
        BY <3>1, OffPlaces DEF Goes, RunInv
      <4>4. \A q \in Callers : (At(q, "off")' <=> active' # q) /\ ~At(q, "unused")'
        BY <4>1, <4>2, OffPlaces, NoOneAssumption DEF RunInv, At, Runners
      <4>5. \A q \in Runners : job'[q] \notin Passing
        BY <1>1, <4>2, OffPlaces DEF RunInv
      <4>. QED BY <1>1, <4>3, <4>4, <4>5 DEF RunInv
    <3>3. CASE p \notin Callers
      <4>1. p \in Endpoints /\ p # active
        BY <3>3, EndpointsAssumption DEF Runners, RunInv, FlightInv, FlightTypeOK
      <4>2. UNCHANGED active
        BY <2>3, <4>1 DEF Throws, flight
      <4>. QED BY <1>1, <3>1, <4>1, <4>2, EndpointMoves, OffPlaces
    <3>. QED BY <3>2, <3>3
  <2>4. CASE ~Throws(p)
    <3>1. UNCHANGED flight /\ Goes(p, IF rest = {} THEN [at |-> "over"] ELSE [at |-> "send", todo |-> rest])
      BY <1>7, <2>4 DEF Mark, rest
    <3>2. [at |-> "send", todo |-> rest] \in Sending
      BY <2>2 DEF Sending
    <3>. QED BY <1>1, <1>4, <3>1, <3>2 DEF Ended, flight
  <2>. QED BY <2>3, <2>4
<1>. QED BY <1>1, <1>5, <1>6, <1>7 DEF DeliveryStep

BaseInv == RowsInv /\ RunInv /\ OrderInv

LEMMA BaseStarts == Init => BaseInv
<1>. SUFFICES ASSUME Init PROVE BaseInv
  OBVIOUS
<1>1. Sound(scene)
  BY ScenesAssumption DEF Init
<1>2. RowsInv
  <2>1. 1 \in 1..LastDay
    BY LastDayAssumption
  <2>2. ask \in [Askers -> HolidayCalls]
    BY DEF Init, HolidayCalls
  <2>. QED BY <1>1, <2>1, <2>2 DEF Init, Sound, RowsInv
<1>3. RunInv
  <2>1. FlightInv /\ active = NoOne /\ faults = 0
    BY InitFlight DEF Init, PassesInit, FlightInit
  <2>2. \A c \in Callers : c \in Runners /\ c \notin Endpoints /\ c # NoOne
    BY NoOneAssumption, EndpointsAssumption DEF Runners
  <2>3. \A p \in Runners : job[p] = IF p \in Endpoints THEN Unused ELSE Off
    BY DEF Init, PassesInit
  <2>4. job \in [Runners -> Places]
    BY OffPlaces DEF Init, PassesInit
  <2>5. \A c \in Callers : job[c] = Off
    BY <2>2, <2>3
  <2>6. \A c \in Callers : (At(c, "off") <=> active # c) /\ ~At(c, "unused")
    BY <2>1, <2>2, <2>5, OffPlaces DEF At
  <2>7. work = "remind" => /\ \A c \in Callers : job[c] \in Idling \cup Passing
                           /\ \A e \in Endpoints : job[e] = Unused
    BY <2>3, <2>5 DEF Idling, Runners
  <2>8. \A p \in Runners : job[p] \notin Passing
    BY <2>3, OffPlaces
  <2>. QED BY <2>1, <2>4, <2>6, <2>7, <2>8 DEF RunInv
<1>4. OrderInv
  BY <1>3, OffPlaces DEF OrderInv, RunInv, Init, PassesInit, Runners
<1>. QED BY <1>2, <1>3, <1>4 DEF BaseInv

\* What an end of a pass, a runner's change or an end of the process leaves of the
\* passes of the reminders.
Fewer == \A c \in Callers : job'[c] = job[c] \/ job'[c] \notin Passing

LEMMA FewerInOrder ==
    ASSUME RowsInv, RowsInv', OrderInv, Fewer, UNCHANGED <<work, booked>>, today <= today'
    PROVE  OrderInv'
<1>1. today \in Nat /\ today' \in Nat
  BY LastDayAssumption DEF RowsInv
<1>. QED BY <1>1, StaysInOrder DEF OrderInv, Fewer

\* The runs of the workers: what starts and ends passes, beside what they do.
Running ==
    \/ \E c \in scene.callers : RunOnce(c)
    \/ PassOver
    \/ Crash
    \/ \E e \in Endpoints : RunForTenant(e) \/ TenantPassOver(e)

LEMMA RunningKeeps ==
    ASSUME FromScene, work \in Workers, RunInv, FlightInv', Running
    PROVE  RunInv' /\ Fewer /\ UNCHANGED <<rows, work>>
<1>1. ASSUME NEW c \in scene.callers, RunOnce(c) PROVE RunInv' /\ Fewer
  <2>1. c \in Callers
    BY ScenesAssumption DEF FromScene
  <2>. QED BY <1>1, <2>1, RunOnceRuns DEF Fewer
<1>2. ASSUME PassOver PROVE RunInv' /\ Fewer
  BY <1>2, PassOverRuns DEF Fewer
<1>3. ASSUME Crash PROVE RunInv' /\ Fewer
  BY <1>3, CrashRuns DEF Fewer
<1>4. ASSUME NEW e \in Endpoints, RunForTenant(e) \/ TenantPassOver(e) PROVE RunInv' /\ Fewer
  BY <1>4, TenantRuns DEF Fewer
<1>5. UNCHANGED <<rows, work>>
  BY DEF Running, RunOnce, PassOver, Crash, RunForTenant, TenantPassOver
<1>. QED BY <1>1, <1>2, <1>3, <1>4, <1>5 DEF Running

LEMMA BaseStep ==
    ASSUME FromScene, BaseInv, [Next]_vars
    PROVE  BaseInv'
<1>. USE DEF BaseInv
<1>1. FlightInv'
  BY StepParts, FlightStep DEF RunInv
<1>2. ASSUME UNCHANGED <<passes, booked>>, RowsInv', today <= today' PROVE BaseInv'
  <2>1. RunInv'
    BY <1>1, <1>2 DEF RunInv, passes, flight, At
  <2>2. Fewer
    BY <1>2 DEF Fewer, passes
  <2>. QED BY <1>2, <2>1, <2>2, FewerInOrder DEF passes
<1>3. today \in Int
  BY LastDayAssumption DEF RowsInv
<1>4. CASE Running /\ work \in Workers /\ UNCHANGED <<holidays, booked>>
  <2>1. RunInv' /\ Fewer /\ UNCHANGED <<rows, work>>
    BY <1>1, <1>4, RunningKeeps
  <2>2. RowsInv'
    BY <1>4, <2>1 DEF RowsInv, rows, holidays
  <2>3. OrderInv'
    BY <1>3, <1>4, <2>1, <2>2, FewerInOrder DEF rows
  <2>. QED BY <2>1, <2>2, <2>3
<1>5. ASSUME NEW p \in Runners, DeliveryStep(p), UNCHANGED <<holidays, booked>> PROVE BaseInv'
  <2>1. RunInv' /\ work # "remind" /\ RowsInv'
    BY <1>1, <1>5, DeliveryRuns, DeliveryRows
  <2>2. work' = work
    BY <1>5, DeliveryKeepsFlight
  <2>. QED BY <2>1, <2>2 DEF OrderInv
<1>6. ASSUME NEW p \in Runners, ReminderStep(p) PROVE BaseInv'
  <2>1. /\ RowsInv' /\ GetsPlace(p)
        /\ p \in Callers /\ p = active /\ work = "remind"
        /\ UNCHANGED <<today, flight, work, faults, booked>>
        /\ \A q \in Runners \ {p} : job'[q] = job[q]
    BY <1>6, ReminderBase
  <2>2. job'[p] \in {Ended} \cup Passing
    BY <2>1 DEF GetsPlace
  <2>3. job' \in [Runners -> Places]
    <3>1. \E next : Goes(p, next)
      <4>1. ASSUME NEW m \in Members, Insert(p, m) PROVE \E next : Goes(p, next)
        BY <4>1 DEF Insert
      <4>2. ASSUME NEW x, Pick(p, x) PROVE \E next : Goes(p, next)
        BY <4>2 DEF Pick
      <4>3. CASE Plan(p) \/ ListPart(p) \/ PartOver(p) \/ Defer(p) \/ Apply(p) \/ Weigh(p)
                 \/ ListMembers(p) \/ Aim(p) \/ Queue(p)
        BY <4>3 DEF Plan, ListPart, PartOver, Defer, Apply, Weigh, ListMembers, Aim, Queue
      <4>. QED BY <1>6, <4>1, <4>2, <4>3 DEF ReminderStep
    <3>2. PICK next : Goes(p, next)
      BY <3>1
    <3>3. job' = [job EXCEPT ![p] = next] /\ job'[p] = next
      BY <3>2, PassGoes DEF Goes
    <3>. QED BY <2>2, <3>3, OffPlaces DEF RunInv, Places
  <2>4. RunInv'
    <3>1. \A c \in Callers : (At(c, "off")' <=> active' # c) /\ ~At(c, "unused")'
      <4>1. job'[p].at # "off" /\ job'[p].at # "unused"
        BY <2>2, OffPlaces DEF Passing, Dealing, Starting, Adding
      <4>2. active' = active
        BY <2>1 DEF flight
      <4>. QED BY <2>1, <4>1, <4>2 DEF RunInv, At, Runners
    <3>2. /\ \A c \in Callers : job'[c] \in Idling \cup Passing
          /\ \A e \in Endpoints : job'[e] = Unused
      BY <2>1, <2>2, EndpointsAssumption DEF RunInv, Runners, Idling
    <3>. QED BY <1>1, <2>1, <2>3, <3>1, <3>2 DEF RunInv
  <2>5. OrderInv'
    <3>1. today \in Nat /\ today <= today'
      BY <2>1, LastDayAssumption DEF RowsInv
    <3>2. ASSUME NEW c \in Callers, job'[c] \in Passing PROVE InOrder(job[c])'
      <4>1. CASE c = p
        BY <2>1, <3>2, <4>1, OffPlaces DEF GetsPlace
      <4>2. CASE c # p
        BY <2>1, <3>1, <3>2, <4>2, StaysInOrder DEF OrderInv, Runners
      <4>. QED BY <4>1, <4>2
    <3>. QED BY <3>2 DEF OrderInv
  <2>. QED BY <2>1, <2>4, <2>5
<1>7. CASE Requests
  <2>1. UNCHANGED <<passes, booked>>
    BY <1>7 DEF Requests
  <2>2. RowsInv' /\ today <= today'
    <3>1. CASE Settings
      BY <1>3, <2>1, <3>1, SettingsRows
    <3>2. CASE Home
      <4>1. today' = today \/ today' = today + 1
        BY <3>2 DEF Home, Midnight, ChoreGoesOn, HolidayCall, CreateRead, CreateWrite, DeleteRead,
           DeleteWrite, EndRead, EndWrite, rows
      <4>. QED BY <1>3, <2>1, <3>2, <4>1, HomeRows
    <3>3. ASSUME NEW i \in 1..MaxNotes, Retry(i), UNCHANGED holidays PROVE RowsInv' /\ today <= today'
      <4>1. RowsInv'
        BY <2>1, <3>3, RetryRows
      <4>2. today' = today
        BY <3>3 DEF Retry, RetryPush, RetryEmail
      <4>. QED BY <1>3, <4>1, <4>2
    <3>. QED BY <1>7, <3>1, <3>2, <3>3 DEF Requests
  <2>. QED BY <1>2, <2>1, <2>2
<1>8. CASE Board \/ UNCHANGED vars
  BY <1>2, <1>3, <1>8 DEF Board, vars, rows, holidays, RowsInv
<1>. QED BY <1>4, <1>5, <1>6, <1>7, <1>8 DEF Next, Worker, Running

LEMMA BaseKept == Spec => []BaseInv
BY BaseStarts, BaseStep, SceneStays, PTL DEF Spec

\* The rows, the passes and the board have their types, and it is the caller whose loop
\* runs that is not at rest.
THEOREM BackgroundTyped == Spec => []BackgroundTypeOK
<1>1. ASSUME BaseInv, BoardInv PROVE BackgroundTypeOK
  <2>1. FlightTypeOK /\ HolidaysTypeOK
    BY <1>1 DEF BaseInv, RunInv, FlightInv, RowsInv, HolidaysTypeOK
  <2>2. NoticesTypeOK
    <3>1. Absent \in [owner : Members \cup {None}, ready : BOOLEAN]
      BY DEF Absent
    <3>2. \A i \in 1..Len(notes) : notes[i] \in NoticeRows
      BY <1>1 DEF BaseInv, RowsInv
    <3>. QED BY <1>1, <3>1, <3>2 DEF BaseInv, RowsInv, NoticesTypeOK, NoticeRows
  <2>3. LeaderboardTypeOK
    BY <1>1, LeaderboardAssumption DEF BoardInv, LeaderboardTypeOK, Periods
  <2>4. \A p \in Callers : At(p, "off") <=> active # p
    BY <1>1 DEF BaseInv, RunInv
  <2>. QED BY <2>1, <2>2, <2>3, <2>4 DEF BackgroundTypeOK
<1>2. Init => BoardInv
  BY BoardStarts DEF Init
<1>3. BoardInv /\ FromScene /\ [Next]_vars => BoardInv'
  BY StepParts, BoardStep
<1>. QED BY <1>1, <1>2, <1>3, BaseKept, SceneStays, PTL DEF Spec

\* Holiday calls only end blocks earlier, insert new ones and delete them.
LEMMA DeletedIs == ~Deleted.applied /\ Deleted # NoBlock
BY DeletedRow

\* What a step leaves of a block, and of the days on which it may end.
Lasts(b) ==
    /\ block'[b].applied => /\ block[b].applied /\ block'[b].start = block[b].start
                            /\ block'[b].defer = block[b].defer
    /\ Past(b) => Past(b)'
    /\ block[b] # NoBlock /\ ~block[b].applied => block'[b] \in {block[b], Deleted}
EndsEarlier(b) ==
    \/ ~block'[b].applied
    \/ Ends(b)' \subseteq Ends(b)
    \/ /\ block[b].applied /\ today \in block[b].start..block[b].end
       /\ Ends(b)' \subseteq Ends(b) \cup {today}

LEMMA CallBlocks ==
    ASSUME RowsInv, EndsPast, NEW a \in Askers, HolidayCall(a)
    PROVE  /\ UNCHANGED <<today, chore>>
           /\ \A b \in Blocks : Lasts(b) /\ EndsEarlier(b)
           /\ EndsPast'
<1>1. /\ UNCHANGED <<today, chore>>
      /\ block \in [Blocks -> BlockRows] /\ ask \in [Askers -> HolidayCalls]
  BY DEF HolidayCall, CreateRead, CreateWrite, DeleteRead, DeleteWrite, EndRead, EndWrite, rows, RowsInv
<1>2. \A x \in Askers : ask[x].at = "end" => ask[x].id \in Blocks
  BY <1>1 DEF HolidayCalls, Quiet
<1>3. \A x \in Askers : ask[x].at = "end" => Past(ask[x].id)
  BY DEF EndsPast
<1>15. ASSUME NEW b \in Blocks, block'[b] = block[b] PROVE Lasts(b)
  BY <1>15 DEF Lasts, Past
<1>4. ASSUME NEW next, Asks(a, next)
      PROVE  ask'[a] = next /\ \A x \in Askers \ {a} : ask'[x] = ask[x]
  BY <1>1, <1>4 DEF Asks
<1>5. ASSUME NEW next, Asks(a, next), next.at # "end", block' = block
      PROVE  /\ \A b \in Blocks : Ends(b)' \subseteq Ends(b)
             /\ EndsPast'
  BY <1>3, <1>4, <1>5 DEF Ends, EndsPast, Past
<1>6. ASSUME NEW from \in 1..LastDay, NEW until \in 1..LastDay + 1, NEW mode \in BOOLEAN,
             CreateRead(a, from, until, mode)
      PROVE  /\ block' = block /\ \A b \in Blocks : Ends(b)' \subseteq Ends(b)
             /\ EndsPast'
  BY <1>5, <1>6 DEF CreateRead
<1>7. ASSUME NEW b \in Blocks, DeleteRead(a, b)
      PROVE  /\ block' = block /\ \A c \in Blocks : Ends(c)' \subseteq Ends(c)
             /\ EndsPast'
  BY <1>5, <1>7 DEF DeleteRead
<1>8. ASSUME NEW b \in Blocks, EndRead(a, b)
      PROVE  /\ block' = block
             /\ \A c \in Blocks : \/ Ends(c)' \subseteq Ends(c)
                                  \/ /\ block[c].applied /\ today \in block[c].start..block[c].end
                                     /\ Ends(c)' \subseteq Ends(c) \cup {today}
             /\ EndsPast'
  <2>1. /\ block' = block /\ block[b].applied /\ today \in block[b].start..block[b].end
        /\ ask'[a] = [at |-> "end", id |-> b, day |-> today]
        /\ \A x \in Askers \ {a} : ask'[x] = ask[x]
    BY <1>4, <1>8 DEF EndRead
  <2>2. \A c \in Blocks : c # b => Ends(c)' \subseteq Ends(c)
    BY <2>1 DEF Ends
  <2>3. Ends(b)' \subseteq Ends(b) \cup {today}
    BY <2>1 DEF Ends
  <2>4. EndsPast'
    BY <1>3, <2>1 DEF EndsPast, Past
  <2>. QED BY <2>1, <2>2, <2>3, <2>4
<1>9. ASSUME NEW b \in Blocks, CreateWrite(a, b)
      PROVE  (\A c \in Blocks : Lasts(c) /\ EndsEarlier(c)) /\ EndsPast'
  <2>1. /\ block' = [block EXCEPT ![b] = ask[a].row] /\ block[b] = NoBlock
        /\ ask'[a] = [at |-> "done"] /\ ask[a].at = "create"
        /\ \A x \in Askers \ {a} : ask'[x] = ask[x]
    BY <1>4, <1>9 DEF CreateWrite
  <2>2. ~ask[a].row.applied
    BY <1>1, <2>1 DEF HolidayCalls, Quiet
  <2>3. block'[b] = ask[a].row /\ \A c \in Blocks \ {b} : block'[c] = block[c]
    BY <1>1, <2>1
  <2>4. \A x \in Askers : ask'[x].at = "end" => x # a /\ ask[x].at = "end" /\ ask'[x] = ask[x]
    BY <2>1
  <2>5. \A c \in Blocks \ {b} : Ends(c)' \subseteq Ends(c)
    BY <2>3, <2>4 DEF Ends
  <2>6. ~Past(b)
    BY <2>1, NoBlockRow, DeletedIs DEF Past
  <2>7. Lasts(b) /\ EndsEarlier(b)
    BY <2>1, <2>2, <2>3, <2>6 DEF Lasts, EndsEarlier
  <2>8. \A c \in Blocks \ {b} : Lasts(c) /\ EndsEarlier(c)
    BY <1>15, <2>3, <2>5 DEF EndsEarlier
  <2>9. EndsPast'
    <3>1. ASSUME NEW x \in Askers, ask'[x].at = "end" PROVE Past(ask[x].id)'
      <4>1. ask'[x] = ask[x] /\ ask[x].id \in Blocks /\ Past(ask[x].id)
        BY <1>2, <1>3, <2>4, <3>1
      <4>2. ask[x].id # b
        BY <2>6, <4>1
      <4>. QED BY <2>3, <4>1, <4>2 DEF Past
    <3>. QED BY <3>1 DEF EndsPast
  <2>. QED BY <2>7, <2>8, <2>9
<1>10. ASSUME DeleteWrite(a)
       PROVE  (\A c \in Blocks : Lasts(c) /\ EndsEarlier(c)) /\ EndsPast'
  <2>2. PICK id \in Blocks : id = ask[a].id
    BY <1>1, <1>10 DEF HolidayCalls, Quiet, DeleteWrite
  <2>1. /\ ask[a].at = "delete" /\ block' = [block EXCEPT ![id] = Deleted]
        /\ ask'[a] = [at |-> "done"] /\ \A x \in Askers \ {a} : ask'[x] = ask[x]
    BY <1>4, <1>10, <2>2 DEF DeleteWrite
  <2>3. block'[id] = Deleted /\ \A c \in Blocks \ {id} : block'[c] = block[c]
    BY <1>1, <2>1, <2>2
  <2>4. \A x \in Askers : ask'[x].at = "end" => x # a /\ ask[x].at = "end" /\ ask'[x] = ask[x]
    BY <2>1
  <2>5. \A c \in Blocks \ {id} : Ends(c)' \subseteq Ends(c)
    BY <2>3, <2>4 DEF Ends
  <2>6. ~block'[id].applied
    BY <2>3, DeletedIs
  <2>11. Past(id)'
    BY <2>3 DEF Past
  <2>7. Lasts(id) /\ EndsEarlier(id)
    BY <2>3, <2>6, <2>11 DEF Lasts, EndsEarlier
  <2>8. \A c \in Blocks \ {id} : Lasts(c) /\ EndsEarlier(c)
    BY <1>15, <2>3, <2>5 DEF EndsEarlier
  <2>9. EndsPast'
    <3>1. ASSUME NEW x \in Askers, ask'[x].at = "end" PROVE Past(ask[x].id)'
      <4>1. ask'[x] = ask[x] /\ ask[x].id \in Blocks /\ Past(ask[x].id)
        BY <1>2, <1>3, <2>4, <3>1
      <4>. QED BY <2>3, <4>1 DEF Past
    <3>. QED BY <3>1 DEF EndsPast
  <2>. QED BY <2>7, <2>8, <2>9
<1>11. ASSUME EndWrite(a)
       PROVE  (\A c \in Blocks : Lasts(c) /\ EndsEarlier(c)) /\ EndsPast'
  <2>5. PICK id \in Blocks : id = ask[a].id
    BY <1>2, <1>11 DEF EndWrite
  <2>1. /\ ask[a].at = "end" /\ ask'[a] = [at |-> "done"]
        /\ \A x \in Askers \ {a} : ask'[x] = ask[x]
    BY <1>4, <1>11 DEF EndWrite
  <2>2. \A x \in Askers : ask'[x].at = "end" => x # a /\ ask[x].at = "end" /\ ask'[x] = ask[x]
    BY <2>1
  <2>3. CASE ~Exists(id)
    <3>1. block' = block
      BY <1>11, <2>3, <2>5 DEF EndWrite
    <3>2. \A c \in Blocks : Ends(c)' \subseteq Ends(c)
      BY <2>2, <3>1 DEF Ends
    <3>3. EndsPast'
      BY <1>3, <2>2, <3>1 DEF EndsPast, Past
    <3>. QED BY <1>15, <3>1, <3>2, <3>3 DEF EndsEarlier
  <2>4. CASE Exists(id)
    <3>1. /\ block' = [block EXCEPT ![id] = [block[id] EXCEPT !.end = ask[a].day]]
          /\ block[id].applied
      BY <1>3, <1>11, <2>1, <2>4, <2>5 DEF EndWrite, Exists, Past
    <3>2. /\ \A c \in Blocks \ {id} : block'[c] = block[c]
          /\ block'[id].applied /\ block'[id].start = block[id].start
          /\ block'[id].defer = block[id].defer /\ block'[id].end = ask[a].day
      BY <1>1, <2>1, <3>1 DEF BlockRows
    <3>3. \A c \in Blocks \ {id} : Ends(c)' \subseteq Ends(c)
      BY <2>2, <3>2 DEF Ends
    <3>4. Ends(id)' \subseteq Ends(id)
      BY <2>1, <2>2, <2>5, <3>2 DEF Ends
    <3>5. EndsPast'
      <4>1. ASSUME NEW x \in Askers, ask'[x].at = "end" PROVE Past(ask[x].id)'
        <5>1. ask'[x] = ask[x] /\ ask[x].id \in Blocks /\ Past(ask[x].id)
          BY <1>2, <1>3, <2>2, <4>1
        <5>. QED BY <3>2, <5>1 DEF Past
      <4>. QED BY <4>1 DEF EndsPast
    <3>9. block[id].applied
      BY <3>1
    <3>10. Past(id)'
      BY <3>2 DEF Past
    <3>6. Lasts(id)
      BY <3>2, <3>9, <3>10 DEF Lasts
    <3>7. \A c \in Blocks \ {id} : Lasts(c) /\ EndsEarlier(c)
      BY <1>15, <3>2, <3>3 DEF EndsEarlier
    <3>8. EndsEarlier(id)
      BY <3>4 DEF EndsEarlier
    <3>. QED BY <3>5, <3>6, <3>7, <3>8
  <2>. QED BY <2>3, <2>4
<1>14. ASSUME \/ \E from \in 1..LastDay, until \in 1..LastDay + 1, mode \in BOOLEAN :
                     CreateRead(a, from, until, mode)
              \/ \E b \in Blocks : DeleteRead(a, b) \/ EndRead(a, b)
       PROVE  (\A c \in Blocks : Lasts(c) /\ EndsEarlier(c)) /\ EndsPast'
  <2>1. /\ block' = block
        /\ \A c \in Blocks : \/ Ends(c)' \subseteq Ends(c)
                             \/ /\ block[c].applied /\ today \in block[c].start..block[c].end
                                /\ Ends(c)' \subseteq Ends(c) \cup {today}
        /\ EndsPast'
    BY <1>6, <1>7, <1>8, <1>14
  <2>. QED BY <1>15, <2>1 DEF EndsEarlier
<1>. QED BY <1>1, <1>9, <1>10, <1>11, <1>14 DEF HolidayCall

\* What midnight, the calls and the household's life leave of the blocks and chores.
LessOpen == \A c \in Chores : Deferrable(c)' => Deferrable(c) /\ chore'[c].due = chore[c].due

LEMMA HomeStored ==
    ASSUME RowsInv, StoredInv, Home
    PROVE  StoredInv' /\ LessOpen /\ \A b \in Blocks : Lasts(b)
<1>1. CASE Midnight
  <2>1. UNCHANGED <<block, chore, ask>> /\ today <= today'
    BY <1>1, LastDayAssumption DEF Midnight, RowsInv
  <2>2. StoredInv'
    <3>1. EndsPast'
      BY <2>1 DEF StoredInv, EndsPast, Past
    <3>2. \A b \in Blocks : Ends(b)' = Ends(b)
      BY <2>1 DEF Ends
    <3>3. ASSUME NEW b \in Blocks, block[b].applied PROVE block[b].start <= today'
      <4>1. block[b].start \in Int /\ today \in Int /\ today' \in Int
        BY <1>1, LastDayAssumption DEF RowsInv, BlockRows, Midnight
      <4>. QED BY <2>1, <3>3, <4>1 DEF StoredInv
    <3>. QED BY <2>1, <3>1, <3>2, <3>3 DEF StoredInv, Deferrable
  <2>. QED BY <2>1, <2>2 DEF LessOpen, Lasts, Past, Deferrable
<1>2. ASSUME NEW c \in Chores, ChoreGoesOn(c) PROVE StoredInv' /\ LessOpen /\ \A b \in Blocks : Lasts(b)
  <2>1. UNCHANGED <<today, block, ask>>
    BY <1>2 DEF ChoreGoesOn, rows
  <2>2. LessOpen
    <3>1. /\ chore'[c].due = chore[c].due /\ (chore'[c].state = "open" => chore[c].state = "open")
          /\ \A d \in Chores \ {c} : chore'[d] = chore[d]
      <4>1. CASE chore' = [chore EXCEPT ![c].state = "done"]
        BY <4>1 DEF RowsInv, ChoreRows
      <4>2. CASE chore' = [chore EXCEPT ![c].state = "pending"]
        BY <4>2 DEF RowsInv, ChoreRows
      <4>3. ASSUME NEW m \in Members, chore' = [chore EXCEPT ![c].who = m]
            PROVE  /\ chore'[c].due = chore[c].due
                   /\ (chore'[c].state = "open" => chore[c].state = "open")
                   /\ \A d \in Chores \ {c} : chore'[d] = chore[d]
        BY <4>3 DEF RowsInv, ChoreRows
      <4>. QED BY <1>2, <4>1, <4>2, <4>3 DEF ChoreGoesOn
    <3>. QED BY <3>1 DEF LessOpen, Deferrable
  <2>3. StoredInv'
    <3>1. EndsPast' /\ \A b \in Blocks : Ends(b)' = Ends(b)
      BY <2>1 DEF StoredInv, EndsPast, Past, Ends
    <3>. QED BY <2>1, <2>2, <3>1 DEF StoredInv, LessOpen
  <2>. QED BY <2>1, <2>2, <2>3 DEF Lasts, Past
<1>3. ASSUME NEW a \in Askers, HolidayCall(a) PROVE StoredInv' /\ LessOpen /\ \A b \in Blocks : Lasts(b)
  <2>1. /\ UNCHANGED <<today, chore>>
        /\ \A b \in Blocks : Lasts(b) /\ EndsEarlier(b)
        /\ EndsPast'
    BY <1>3, CallBlocks DEF StoredInv
  <2>2. ASSUME NEW b \in Blocks, block'[b].applied
        PROVE  /\ block[b].applied /\ block'[b].start = block[b].start /\ block'[b].defer = block[b].defer
               /\ block[b].start <= today
    BY <2>1, <2>2 DEF Lasts, StoredInv
  <2>3. ASSUME NEW b \in Blocks, NEW c \in Chores, block'[b].applied, block'[b].defer, Deferrable(c),
               NEW e \in Ends(b)'
        PROVE  chore[c].due \notin block[b].start..e
    <3>1. block[b].applied /\ block[b].defer
      BY <2>2, <2>3
    <3>2. CASE e \in Ends(b)
      BY <2>3, <3>1, <3>2 DEF StoredInv
    <3>3. CASE e = today /\ today \in block[b].start..block[b].end
      <4>1. chore[c].due \notin block[b].start..block[b].end
        BY <2>3, <3>1 DEF StoredInv, Ends
      <4>2. block[b].start \in Int /\ block[b].end \in Int /\ today \in Int /\ chore[c].due \in Int
        BY LastDayAssumption DEF RowsInv, BlockRows, ChoreRows
      <4>. QED BY <3>3, <4>1, <4>2
    <3>. QED BY <2>1, <2>3, <3>2, <3>3 DEF EndsEarlier
  <2>4. \A c \in Chores : Deferrable(c)' = Deferrable(c)
    BY <2>1 DEF Deferrable
  <2>5. LessOpen
    BY <2>1 DEF LessOpen, Deferrable
  <2>6. StoredInv'
    <3>1. \A b \in Blocks : block'[b].applied => block'[b].start <= today'
      BY <2>1, <2>2
    <3>2. \A b \in Blocks, c \in Chores : block'[b].applied /\ block'[b].defer /\ Deferrable(c)' =>
              \A e \in Ends(b)' : chore'[c].due \notin block'[b].start..e
      BY <2>1, <2>2, <2>3, <2>4
    <3>. QED BY <2>1, <3>1, <3>2 DEF StoredInv
  <2>. QED BY <2>1, <2>5, <2>6
<1>. QED BY <1>1, <1>2, <1>3 DEF Home

\* A pass that does not move keeps what it relies on.
LEMMA ClearingStays ==
    ASSUME RowsInv, NEW p \in Callers, job[p] \in Passing, InOrder(job[p]), Clearing(job[p]),
           job'[p] = job[p], LessOpen, \A b \in Blocks : Lasts(b)
    PROVE  Clearing(job[p])'
<1>. DEFINE j == job[p]
<1>1. j.stage \in 1..5 /\ j.now \in Nat /\ j.seen \in [Blocks -> BlockRows]
  BY DEF Passing
<1>2. ASSUME NEW b \in Blocks, AsRead(j, b) PROVE AsRead(job[p], b)'
  <2>1. block[b] # NoBlock /\ ~block[b].applied
    BY <1>2, DeletedRow DEF AsRead
  <2>2. block'[b] \in {block[b], Deleted}
    BY <2>1 DEF Lasts
  <2>. QED BY <1>2, <2>2 DEF AsRead
<1>3. \A b \in Blocks : block'[b].applied => block'[b].start <= j.now
  BY DEF Clearing, Lasts
<1>4. j.stage = 1 => \A x \in j.todo : x.about \in Blocks /\ AsRead(job[p], x.about)'
  <2>1. ASSUME j.stage = 1, NEW x \in j.todo PROVE x.about \in Blocks /\ AsRead(j, x.about)
    <3>1. x \in Agenda(j.stage, j.now)
      BY DEF InOrder
    <3>. QED BY <1>1, <2>1, <3>1, AgendaTells DEF Clearing
  <2>. QED BY <1>2, <2>1
<1>5. j.at \in Starting => j.cur.about \in Blocks /\ AsRead(j, j.cur.about)
  <2>1. ASSUME j.at \in Starting PROVE j.cur.about \in Blocks /\ AsRead(j, j.cur.about)
    <3>1. j.cur \in Agenda(j.stage, j.now) /\ j.stage = 1
      BY <2>1 DEF InOrder, Dealing
    <3>. QED BY <1>1, <2>1, <3>1, AgendaTells DEF Clearing
  <2>. QED BY <2>1
<1>6. PICK k : k = job[p] /\ k = job'[p]
  OBVIOUS
<1>7. k.at \in Starting => AsRead(k, k.cur.about)'
  BY <1>2, <1>5, <1>6
<1>8. k.at = "apply" /\ k.seen[k.cur.about].defer =>
        \A c \in Chores : Deferrable(c)' => chore'[c].due \notin k.now..k.seen[k.cur.about].end
  BY <1>6 DEF Clearing, LessOpen
<1>9. k.stage = 1 => \A x \in k.todo : AsRead(k, x.about)'
  BY <1>4, <1>6
<1>10. Clearing(k)'
  BY <1>3, <1>6, <1>7, <1>8, <1>9 DEF Clearing
<1>. QED BY <1>6, <1>10

\* A pass that goes on with its part, with no block to start.
LEMMA ClearingKept ==
    ASSUME NEW p \in Callers, Clearing(job[p]), UNCHANGED <<block, chore>>,
           job'[p].now = job[p].now, job'[p].stage = job[p].stage, job'[p].seen = job[p].seen,
           job'[p].todo \subseteq job[p].todo, job'[p].at \notin Starting
    PROVE  Clearing(job[p])'
<1>1. \A b \in Blocks : block'[b].applied => block'[b].start <= job'[p].now
  BY DEF Clearing
<1>2. job'[p].stage = 1 => \A x \in job'[p].todo : AsRead(job[p], x.about)'
  BY DEF Clearing, AsRead
<1>3. job'[p].at # "apply"
  BY DEF Starting
<1>. QED BY <1>1, <1>2, <1>3 DEF Clearing

LEMMA PickClearing ==
    ASSUME RowsInv, RunInv, NEW p \in Runners, Underway(p), Clearing(job[p]), NEW x, Pick(p, x)
    PROVE  Clearing(job[p])'
<1>. DEFINE j == job[p]
<1>1. /\ j.at = "pick" /\ x \in j.todo /\ j \in Passing /\ InOrder(j) /\ p \in Callers
      /\ UNCHANGED <<block, chore>>
  BY DEF Pick, At, PassOnly, Underway, holidays
<1>2. j.stage \in 1..5 /\ j.now \in Nat /\ x \in Agenda(j.stage, j.now) /\ x \in Topics
  BY <1>1, AgendaTells DEF Passing, InOrder
<1>3. ASSUME NEW k, Goes(p, k), k.now = j.now, k.stage = j.stage, k.seen = j.seen,
             k.todo \subseteq j.todo, k.at \notin Starting
      PROVE  Clearing(job[p])'
  BY <1>1, <1>3, PassGoes, ClearingKept
<1>4. CASE Goes(p, Skip(p, x))
  <2>1. PICK k : k = [j EXCEPT !.todo = j.todo \ {x}] /\ Goes(p, k)
    BY <1>4 DEF Skip
  <2>2. k.now = j.now /\ k.stage = j.stage /\ k.seen = j.seen /\ k.todo = j.todo \ {x} /\ k.at = "pick"
    BY <1>1, <2>1 DEF Passing
  <2>. QED BY <1>3, <2>1, <2>2 DEF Starting
<1>5. ASSUME NEW place \in {"members", "weigh", "defer", "apply"}, Goes(p, Deal(p, x, place)),
             place \in Starting => x.kind = "started",
             place = "apply" => ~j.seen[x.about].defer
      PROVE  Clearing(job[p])'
  <2>1. PICK k : k = [[j EXCEPT !.todo = j.todo \ {x}] EXCEPT !.at = place, !.cur = x] /\ Goes(p, k)
    BY <1>5 DEF Deal, Skip
  <2>2. /\ k.now = j.now /\ k.stage = j.stage /\ k.seen = j.seen /\ k.todo = j.todo \ {x}
        /\ k.at = place /\ k.cur = x
    BY <1>1, <2>1 DEF Passing
  <2>3. CASE place \notin Starting
    BY <1>3, <2>1, <2>2, <2>3
  <2>4. CASE place \in Starting
    <3>1. j.stage = 1
      BY <1>2, <1>5, <2>4, AgendaTells
    <3>2. job'[p] = k
      BY <2>1, PassGoes
    <3>3. \A y \in k.todo \cup {x} : AsRead(k, y.about)'
      BY <1>1, <2>2, <3>1 DEF Clearing, AsRead
    <3>4. Clearing(k)'
      BY <1>1, <1>5, <2>2, <3>3 DEF Clearing
    <3>. QED BY <3>2, <3>4
  <2>. QED BY <2>3, <2>4
<1>6. CASE x.kind = "started"
  <2>1. \/ Goes(p, Deal(p, x, "defer"))
        \/ Goes(p, Deal(p, x, "apply")) /\ ~j.seen[x.about].defer
    BY <1>6 DEF Pick
  <2>. QED BY <1>5, <1>6, <2>1
<1>7. CASE x.kind # "started"
  <2>1. Goes(p, Skip(p, x)) \/ Goes(p, Deal(p, x, "members")) \/ Goes(p, Deal(p, x, "weigh"))
    BY <1>7 DEF Pick
  <2>. QED BY <1>4, <1>5, <2>1 DEF Starting
<1>. QED BY <1>6, <1>7

LEMMA ListPartClearing ==
    ASSUME RowsInv, RunInv, NEW p \in Runners, Underway(p), Clearing(job[p]), ListPart(p)
    PROVE  job'[p] \in Passing => Clearing(job[p])'
<1>. DEFINE j == job[p]
<1>1. /\ j.at = "list" /\ j \in Passing /\ UNCHANGED <<block, chore>>
      /\ j.stage \in 1..5 /\ j.now \in Nat
  BY DEF ListPart, At, PassOnly, Underway, holidays, Passing
<1>2. CASE Goes(p, Ended)
  BY <1>2, PassGoes, OffPlaces
<1>3. ASSUME NEW s, Goes(p, [j EXCEPT !.at = "pick", !.todo = s,
                               !.seen = IF Stages[j.stage] = "started" THEN block ELSE NothingSeen]),
             j.stage = 1 => s = Candidates("started", j.now)
      PROVE  Clearing(job[p])'
  <2>1. PICK seen : seen = IF Stages[j.stage] = "started" THEN block ELSE NothingSeen
    OBVIOUS
  <2>2. PICK k : k = [j EXCEPT !.at = "pick", !.todo = s, !.seen = seen] /\ Goes(p, k)
    BY <1>3, <2>1
  <2>3. k.at = "pick" /\ k.todo = s /\ k.seen = seen /\ k.stage = j.stage /\ k.now = j.now
    BY <1>1, <2>2 DEF Passing
  <2>4. ASSUME j.stage = 1, NEW x \in s PROVE AsRead(k, x.about)'
    <3>1. PICK b \in Blocks : Exists(b) /\ ~block[b].applied /\ block[b].start = j.now /\ x.about = b
      BY <1>3, <2>4 DEF Candidates, Topic
    <3>2. seen = block
      BY <2>1, <2>4 DEF Stages
    <3>. QED BY <1>1, <2>3, <3>1, <3>2 DEF AsRead, Exists
  <2>5. Clearing(k)'
    BY <1>1, <2>3, <2>4 DEF Clearing, Starting
  <2>. QED BY <2>2, <2>5, PassGoes
<1>4. j.stage = 1 <=> Stages[j.stage] = "started"
  BY <1>1 DEF Stages
<1>5. ASSUME j.stage = 1, NEW s \in {Candidates(Stages[j.stage], j.now)} \cup
                                    (IF Stages[j.stage] = "summary" THEN {{}} ELSE {})
      PROVE  s = Candidates("started", j.now)
  BY <1>4, <1>5
<1>. QED BY <1>2, <1>3, <1>5 DEF ListPart

\* The chores are moved behind the block that starts, and out of every other one.
LEMMA DeferClears ==
    ASSUME RowsInv, RunInv, StoredInv, NEW p \in Runners, Underway(p), Clearing(job[p]), Defer(p)
    PROVE  StoredInv' /\ Clearing(job[p])'
<1>. DEFINE j == job[p]
<1>1. /\ j.at = "defer" /\ j \in Passing /\ InOrder(j)
      /\ j.stage = 1 /\ j.now \in Nat /\ j.seen \in [Blocks -> BlockRows]
      /\ j.cur \in Agenda(j.stage, j.now)
  BY DEF Defer, At, Underway, Passing, InOrder, Starting, Dealing
<1>2. j.cur.about \in Blocks
  BY <1>1, AgendaTells
<1>3. PICK row : row = j.seen[j.cur.about]
  OBVIOUS
<1>4. row.end \in Nat
  BY <1>1, <1>2, <1>3, LastDayAssumption DEF BlockRows
<1>5. /\ UNCHANGED <<today, block, ask>>
      /\ job'[p] = [j EXCEPT !.at = "apply"] /\ chore' \in [Chores -> ChoreRows]
  BY DeferPlace DEF rows
<1>6. chore' = [c \in Chores |->
                  IF Deferrable(c) /\ chore[c].due \in j.now..row.end
                  THEN [chore[c] EXCEPT !.due = row.end + 1] ELSE chore[c]]
  BY <1>3 DEF Defer, DueAfter
<1>7. ASSUME NEW c \in Chores
      PROVE  /\ Deferrable(c)' = Deferrable(c)
             /\ Deferrable(c) => \/ chore[c].due \in j.now..row.end /\ chore'[c].due = row.end + 1
                                 \/ chore[c].due \notin j.now..row.end /\ chore'[c].due = chore[c].due
  <2>1. CASE Deferrable(c) /\ chore[c].due \in j.now..row.end
    <3>1. PICK e : e = row.end + 1
      OBVIOUS
    <3>2. chore'[c] = [chore[c] EXCEPT !.due = e]
      BY <1>6, <2>1, <3>1
    <3>3. chore'[c].due = e /\ chore'[c].state = chore[c].state
      BY <3>2 DEF RowsInv, ChoreRows
    <3>. QED BY <2>1, <3>1, <3>3 DEF Deferrable
  <2>2. CASE ~(Deferrable(c) /\ chore[c].due \in j.now..row.end)
    BY <1>6, <2>2 DEF Deferrable
  <2>. QED BY <2>1, <2>2
<1>8. StoredInv'
  <2>1. EndsPast' /\ \A b \in Blocks : Ends(b)' = Ends(b)
    BY <1>5 DEF StoredInv, EndsPast, Past, Ends
  <2>2. ASSUME NEW b \in Blocks, NEW c \in Chores, block[b].applied, block[b].defer, Deferrable(c),
               NEW e \in Ends(b)
        PROVE  chore'[c].due \notin block[b].start..e
    <3>1. chore[c].due \notin block[b].start..e /\ block[b].start <= j.now
      BY <2>2 DEF StoredInv, Clearing
    <3>2. e \in Nat
      <4>1. block[b].end \in Nat
        BY LastDayAssumption DEF RowsInv, BlockRows
      <4>2. \A a \in Askers : ask[a].at = "end" => ask[a].day \in Nat
        BY LastDayAssumption DEF RowsInv, HolidayCalls, Quiet
      <4>. QED BY <4>1, <4>2 DEF Ends
    <3>3. block[b].start \in Nat /\ chore[c].due \in Nat
      BY LastDayAssumption DEF RowsInv, BlockRows, ChoreRows
    <3>. QED BY <1>1, <1>4, <1>7, <2>2, <3>1, <3>2, <3>3
  <2>. QED BY <1>5, <1>7, <2>1, <2>2 DEF StoredInv
<1>9. Clearing(job[p])'
  <2>1. PICK k : k = [j EXCEPT !.at = "apply"] /\ k = job'[p]
    BY <1>5
  <2>2. k.at = "apply" /\ k.now = j.now /\ k.stage = j.stage /\ k.seen = j.seen
        /\ k.todo = j.todo /\ k.cur = j.cur
    BY <1>1, <2>1 DEF Passing
  <2>3. \A x \in k.todo \cup {k.cur} : AsRead(k, x.about)'
    BY <1>1, <1>5, <2>2 DEF Clearing, AsRead, Starting
  <2>4. \A c \in Chores : Deferrable(c)' => chore'[c].due \notin k.now..k.seen[k.cur.about].end
    BY <1>1, <1>3, <1>4, <1>7, <2>2
  <2>5. Clearing(k)'
    BY <1>5, <2>2, <2>3, <2>4 DEF Clearing
  <2>. QED BY <2>1, <2>5
<1>. QED BY <1>8, <1>9

\* The block that is marked has no chore left in it, and no call has ended it.
LEMMA ApplyClears ==
    ASSUME RowsInv, RunInv, StoredInv, NEW p \in Runners, Underway(p), Clearing(job[p]), Apply(p)
    PROVE  StoredInv' /\ (job'[p] \in Passing => Clearing(job[p])')
<1>. DEFINE j == job[p]
<1>1. /\ j.at = "apply" /\ j \in Passing /\ InOrder(j) /\ p \in Callers
      /\ UNCHANGED <<today, chore, ask>>
      /\ j.stage = 1 /\ j.now \in Nat /\ j.seen \in [Blocks -> BlockRows]
      /\ j.cur \in Agenda(j.stage, j.now) \ j.todo /\ j.todo \subseteq Agenda(j.stage, j.now)
      /\ j.now <= today
  BY ApplyPlace DEF Apply, At, Underway, Passing, InOrder, Starting, Dealing, rows
<1>2. PICK b \in Blocks : b = j.cur.about
  BY <1>1, AgendaTells
<1>3. AsRead(j, b)
  BY <1>1, <1>2 DEF Clearing, Starting
<1>4. CASE ~Exists(b)
  <2>1. block' = block /\ job'[p] = Ended
    BY <1>2, <1>4, PassGoes DEF Apply
  <2>2. StoredInv'
    BY <1>1, <2>1 DEF StoredInv, EndsPast, Past, Ends, Deferrable
  <2>. QED BY <2>1, <2>2, OffPlaces
<1>5. CASE Exists(b)
  <2>1. block[b] = j.seen[b] /\ block[b].start = j.now /\ ~Past(b)
    BY <1>3, <1>5 DEF AsRead, Exists, Past
  <2>2. /\ block'[b] = [block[b] EXCEPT !.applied = TRUE]
        /\ \A d \in Blocks \ {b} : block'[d] = block[d]
    BY <1>2, <1>5 DEF Apply, RowsInv
  <2>3. /\ block'[b].applied /\ block'[b].start = j.now /\ block'[b].end = j.seen[b].end
        /\ block'[b].defer = j.seen[b].defer
    BY <2>1, <2>2 DEF RowsInv, BlockRows
  <2>4. Ends(b)' = {j.seen[b].end}
    BY <1>1, <2>1, <2>3 DEF Ends, StoredInv, EndsPast
  <2>5. \A d \in Blocks \ {b} : Ends(d)' = Ends(d)
    BY <1>1, <2>2 DEF Ends
  <2>6. \A c \in Chores : Deferrable(c)' = Deferrable(c)
    BY <1>1 DEF Deferrable
  <2>7. EndsPast'
    <3>1. ASSUME NEW a \in Askers, ask[a].at = "end" PROVE ask[a].id \in Blocks /\ Past(ask[a].id)
      BY <3>1 DEF RowsInv, HolidayCalls, Quiet, StoredInv, EndsPast
    <3>2. \A d \in Blocks : Past(d) => Past(d)'
      BY <2>2, <2>3 DEF Past
    <3>3. ASSUME NEW a \in Askers, ask'[a].at = "end" PROVE Past(ask[a].id)'
      <4>1. PICK d : d = ask[a].id /\ d = ask'[a].id
        BY <1>1
      <4>2. Past(d)'
        BY <1>1, <3>1, <3>2, <3>3, <4>1
      <4>. QED BY <4>1, <4>2
    <3>. QED BY <3>3 DEF EndsPast
  <2>8. StoredInv'
    <3>1. \A d \in Blocks : block'[d].applied => block'[d].start <= today'
      BY <1>1, <2>2, <2>3 DEF StoredInv
    <3>2. ASSUME NEW c \in Chores, block'[b].defer, Deferrable(c)
          PROVE  \A e \in Ends(b)' : chore'[c].due \notin block'[b].start..e
      BY <1>1, <1>2, <2>3, <2>4, <3>2 DEF Clearing
    <3>3. ASSUME NEW d \in Blocks \ {b}, NEW c \in Chores, block'[d].applied, block'[d].defer,
                 Deferrable(c), NEW e \in Ends(d)'
          PROVE  chore'[c].due \notin block'[d].start..e
      BY <1>1, <2>2, <2>5, <3>3 DEF StoredInv
    <3>. QED BY <2>6, <2>7, <3>1, <3>2, <3>3 DEF StoredInv
  <2>9. job'[p] \in Passing => Clearing(job[p])'
    <3>1. PICK k : k = job'[p]
      OBVIOUS
    <3>2. k.now = j.now /\ k.stage = j.stage /\ k.seen = j.seen /\ k.todo = j.todo /\ k.at \notin Starting
      <4>1. CASE j.allowed
        <5>1. k = [j EXCEPT !.at = "members"]
          BY <1>2, <1>5, <3>1, <4>1, PassGoes DEF Apply
        <5>. QED BY <1>1, <5>1 DEF Passing, Starting
      <4>2. CASE ~j.allowed
        <5>1. k = Dealt(p)
          BY <1>2, <1>5, <3>1, <4>2, PassGoes DEF Apply
        <5>2. k = [j EXCEPT !.at = "pick", !.cur = NoTopic, !.email = "SKIPPED", !.note = 0, !.aims = {}]
          BY <5>1 DEF Dealt
        <5>. QED BY <1>1, <5>2 DEF Passing, Starting
      <4>. QED BY <4>1, <4>2
    <3>3. ASSUME NEW x \in j.todo PROVE AsRead(k, x.about)'
      <4>1. x \in Agenda(1, j.now) /\ j.cur \in Agenda(1, j.now) /\ x # j.cur
        BY <1>1
      <4>2. x.kind = "started" /\ j.cur.kind = "started" /\ x.to = None /\ j.cur.to = None
            /\ x.about \in Blocks
        BY <1>1, <4>1, AgendaTells
      <4>3. x.about # b
        BY <1>1, <1>2, <4>1, <4>2, AgendaTells
      <4>4. AsRead(j, x.about)
        BY <1>1 DEF Clearing
      <4>. QED BY <2>2, <3>2, <4>2, <4>3, <4>4 DEF AsRead
    <3>4. \A d \in Blocks : block'[d].applied => block'[d].start <= k.now
      <4>1. block'[b].start <= k.now
        BY <1>1, <2>3, <3>2
      <4>2. ASSUME NEW d \in Blocks \ {b}, block'[d].applied PROVE block'[d].start <= k.now
        <5>1. block[d].applied => block[d].start <= j.now
          BY DEF Clearing
        <5>. QED BY <2>2, <3>2, <4>2, <5>1
      <4>. QED BY <4>1, <4>2
    <3>5. Clearing(k)'
      BY <3>2, <3>3, <3>4 DEF Clearing, Starting
    <3>. QED BY <3>1, <3>5
  <2>. QED BY <2>8, <2>9
<1>. QED BY <1>4, <1>5

LEMMA RestClears ==
    ASSUME RowsInv, RunInv, OrderInv, StoredInv, ClearInv, NEW p \in Runners, ReminderStep(p)
    PROVE  StoredInv' /\ (job'[p] \in Passing => Clearing(job[p])')
<1>1. p \in Callers /\ p = active /\ work = "remind" /\ (job[p] = Begun \/ job[p] \in Passing)
  BY OnlyActive
<1>2. job[p] \in Passing => Underway(p) /\ Clearing(job[p])
  BY <1>1 DEF Underway, OrderInv, ClearInv
<1>3. ASSUME UNCHANGED <<today, block, chore, ask>> PROVE StoredInv'
  BY <1>3 DEF StoredInv, EndsPast, Past, Ends, Deferrable
<1>4. ASSUME NEW place, At(p, place), place # "begin" PROVE Underway(p) /\ Clearing(job[p])
  BY <1>1, <1>2, <1>4 DEF At, Begun
<1>5. CASE Plan(p)
  <2>1. job'[p].todo = {} /\ job'[p].now = today /\ job'[p].at = "list"
        /\ UNCHANGED <<today, block, chore, ask>>
    <3>1. PICK ok \in BOOLEAN : Goes(p, Pass(ok))
      BY <1>5 DEF Plan
    <3>2. job'[p] = Pass(ok)
      BY <3>1, PassGoes
    <3>. QED BY <1>5, <3>2 DEF Plan, PassOnly, rows, holidays, Pass
  <2>2. Clearing(job[p])'
    BY <2>1 DEF Clearing, Starting, StoredInv
  <2>. QED BY <1>3, <2>1, <2>2
<1>6. CASE ListPart(p)
  <2>1. Underway(p) /\ Clearing(job[p]) /\ UNCHANGED <<today, block, chore, ask>>
    BY <1>4, <1>6 DEF ListPart, PassOnly, rows, holidays
  <2>. QED BY <1>3, <1>6, <2>1, ListPartClearing
<1>7. CASE PartOver(p)
  <2>1. /\ Underway(p) /\ Clearing(job[p]) /\ UNCHANGED <<today, block, chore, ask>>
    BY <1>4, <1>7 DEF PartOver, PassOnly, rows, holidays
  <2>2. CASE Goes(p, Ended)
    BY <1>3, <2>1, <2>2, PassGoes, OffPlaces
  <2>3. CASE Goes(p, [job[p] EXCEPT !.at = "list", !.stage = @ + 1])
    <3>1. job[p] \in Passing /\ job[p].stage \in 1..5
      BY <2>1 DEF Underway, Passing
    <3>2. PICK n : n = job[p].stage + 1
      OBVIOUS
    <3>3. job'[p] = [job[p] EXCEPT !.at = "list", !.stage = n]
      BY <2>3, <3>2, PassGoes
    <3>4. job'[p].at = "list" /\ job'[p].stage = n /\ n # 1 /\ job'[p].now = job[p].now
      BY <3>1, <3>2, <3>3 DEF Passing
    <3>5. Clearing(job[p])'
      BY <2>1, <3>4 DEF Clearing, Starting
    <3>. QED BY <1>3, <2>1, <3>5
  <2>. QED BY <1>7, <2>2, <2>3 DEF PartOver
<1>8. ASSUME NEW x, Pick(p, x) PROVE StoredInv' /\ (job'[p] \in Passing => Clearing(job[p])')
  <2>1. /\ Underway(p) /\ Clearing(job[p]) /\ UNCHANGED <<today, block, chore, ask>>
    BY <1>4, <1>8 DEF Pick, PassOnly, rows, holidays
  <2>. QED BY <1>3, <1>8, <2>1, PickClearing
<1>9. CASE Defer(p)
  <2>1. Underway(p) /\ Clearing(job[p])
    BY <1>4, <1>9 DEF Defer
  <2>. QED BY <1>9, <2>1, DeferClears
<1>10. CASE Apply(p)
  <2>1. Underway(p) /\ Clearing(job[p])
    BY <1>4, <1>10 DEF Apply
  <2>. QED BY <1>10, <2>1, ApplyClears
<1>11. ASSUME Underway(p), Clearing(job[p]), UNCHANGED <<today, block, chore, ask>>,
              \/ job'[p] = Ended
              \/ /\ job'[p].now = job[p].now /\ job'[p].stage = job[p].stage
                 /\ job'[p].seen = job[p].seen /\ job'[p].todo = job[p].todo
                 /\ job'[p].at \in {"pick"} \cup Adding
       PROVE StoredInv' /\ (job'[p] \in Passing => Clearing(job[p])')
  <2>1. job'[p].at \in {"pick"} \cup Adding => job'[p].at \notin Starting
    BY DEF Adding, Starting
  <2>. QED BY <1>1, <1>3, <1>11, <2>1, OffPlaces, ClearingKept
<1>12. CASE Weigh(p)
  BY <1>4, <1>11, <1>12, WeighPlace DEF Weigh, rows, holidays, Adding
<1>13. CASE ListMembers(p)
  <2>1. Underway(p) /\ Clearing(job[p]) /\ UNCHANGED <<today, block, chore, ask>>
    BY <1>4, <1>13 DEF ListMembers, PassOnly, rows, holidays
  <2>2. job'[p] = [job[p] EXCEPT !.at = "insert", !.to = Members] /\ job[p] \in Passing
    BY <1>13, <2>1, ListMembersPlace DEF Underway
  <2>3. /\ job'[p].now = job[p].now /\ job'[p].stage = job[p].stage
        /\ job'[p].seen = job[p].seen /\ job'[p].todo = job[p].todo
        /\ job'[p].at = "insert"
    BY <2>2 DEF Passing
  <2>. QED BY <1>11, <2>1, <2>3 DEF Adding
<1>14. ASSUME NEW m \in Members, Insert(p, m) PROVE StoredInv' /\ (job'[p] \in Passing => Clearing(job[p])')
  <2>1. Underway(p) /\ Clearing(job[p]) /\ UNCHANGED <<today, block, chore, ask>>
    BY <1>4, <1>14 DEF Insert, holidays
  <2>. QED BY <1>11, <1>14, <2>1, InsertPlace DEF Adding
<1>15. CASE Aim(p)
  <2>1. Underway(p) /\ Clearing(job[p]) /\ UNCHANGED <<today, block, chore, ask>>
    BY <1>4, <1>15 DEF Aim, PassOnly, rows, holidays
  <2>. QED BY <1>11, <1>15, <2>1, AimPlace
<1>16. CASE Queue(p)
  <2>1. Underway(p) /\ Clearing(job[p]) /\ UNCHANGED <<today, block, chore, ask>>
    BY <1>4, <1>16 DEF Queue, holidays
  <2>. QED BY <1>11, <1>16, <2>1, QueuePlace DEF Adding
<1>. QED BY <1>5, <1>6, <1>7, <1>8, <1>9, <1>10, <1>12, <1>13, <1>14, <1>15, <1>16 DEF ReminderStep

LEMMA DeliveryDay == ASSUME NEW p \in Runners, DeliveryStep(p) PROVE today' = today
<1>1. ASSUME NEW x \in Deliveries, Refuse(p, x) \/ Send(p, x) PROVE today' = today
  BY <1>1 DEF Refuse, Send, rows
<1>. QED BY <1>1 DEF DeliveryStep, List, Mark, rows

DeferralInv == BaseInv /\ StoredInv /\ ClearInv

LEMMA DeferralStarts == Init => StoredInv /\ ClearInv
<1>. SUFFICES ASSUME Init PROVE StoredInv /\ ClearInv
  OBVIOUS
<1>1. Sound(scene)
  BY ScenesAssumption DEF Init
<1>2. \A a \in Askers : ask[a].at # "end"
  BY DEF Init, Quiet
<1>3. \A b \in Blocks : Ends(b) = {block[b].end}
  BY <1>2 DEF Ends
<1>4. StoredInv
  BY <1>1, <1>2, <1>3 DEF Init, Sound, StoredInv, EndsPast, Deferrable
<1>5. \A c \in Callers : job[c] \notin Passing
  BY OffPlaces DEF Init, PassesInit, Runners
<1>. QED BY <1>4, <1>5 DEF ClearInv

LEMMA DeferralStep ==
    ASSUME FromScene, DeferralInv, BaseInv', [Next]_vars
    PROVE  StoredInv' /\ ClearInv'
<1>. USE DEF DeferralInv, BaseInv
<1>1. ASSUME UNCHANGED <<today, block, chore, ask>> PROVE StoredInv' /\ LessOpen /\ \A b \in Blocks : Lasts(b)
  BY <1>1 DEF StoredInv, EndsPast, Past, Ends, Deferrable, LessOpen, Lasts
<1>2. ASSUME NEW q \in Callers, job'[q] = job[q], job'[q] \in Passing, work = "remind",
             LessOpen, \A b \in Blocks : Lasts(b)
      PROVE  Clearing(job[q])'
  BY <1>2, ClearingStays DEF ClearInv, OrderInv
<1>3. ASSUME Fewer, UNCHANGED work, LessOpen, \A b \in Blocks : Lasts(b) PROVE ClearInv'
  BY <1>2, <1>3 DEF ClearInv, Fewer
<1>4. CASE Running /\ work \in Workers /\ UNCHANGED <<holidays, booked>>
  <2>1. Fewer /\ UNCHANGED <<rows, work>>
    BY <1>4, StepParts, FlightStep, RunningKeeps DEF RunInv
  <2>. QED BY <1>1, <1>3, <1>4, <2>1 DEF rows, holidays
<1>5. ASSUME NEW p \in Runners, DeliveryStep(p), UNCHANGED <<holidays, booked>> PROVE StoredInv' /\ ClearInv'
  <2>1. work # "remind" /\ UNCHANGED <<today, work>>
    BY <1>5, DeliveryRuns, DeliveryKeepsFlight, StepParts, FlightStep, DeliveryDay DEF RunInv
  <2>. QED BY <1>1, <1>5, <2>1 DEF ClearInv, holidays
<1>6. ASSUME NEW p \in Runners, ReminderStep(p) PROVE StoredInv' /\ ClearInv'
  <2>1. /\ StoredInv' /\ (job'[p] \in Passing => Clearing(job[p])')
        /\ p = active /\ p \in Callers /\ work = "remind" /\ work' = work
    BY <1>6, RestClears, ReminderBase
  <2>2. \A q \in Callers \ {p} : job'[q] \notin Passing
    <3>1. \A q \in Callers \ {p} : At(q, "off")'
      BY <1>6, <2>1, ReminderBase DEF RunInv, flight
    <3>. QED BY <3>1 DEF At, Passing, Dealing, Starting, Adding
  <2>. QED BY <2>1, <2>2 DEF ClearInv
<1>7. CASE Requests
  <2>1. Fewer /\ UNCHANGED work
    BY <1>7 DEF Requests, Fewer, passes
  <2>2. CASE Home
    BY <1>3, <2>1, <2>2, HomeStored
  <2>3. CASE ~Home
    <3>1. UNCHANGED <<today, block, chore, ask>>
      BY <1>7, <2>3 DEF Requests, Settings, DeleteDevice, RegisterDevice, Mute, SendTest, SendTargetedTest,
         Retry, RetryPush, RetryEmail, holidays
    <3>. QED BY <1>1, <1>3, <2>1, <3>1
  <2>. QED BY <2>2, <2>3
<1>8. CASE Board \/ UNCHANGED vars
  <2>1. UNCHANGED <<today, block, chore, ask, work, job>>
    BY <1>8 DEF Board, vars, rows, holidays, passes
  <2>. QED BY <1>1, <1>3, <2>1 DEF Fewer
<1>. QED BY <1>4, <1>5, <1>6, <1>7, <1>8 DEF Next, Worker, Running

\* However the worker's passes, the calls that create, end and delete blocks, the
\* chores' own life and the ends of the process are interleaved: once a block that
\* defers has been applied, no open chore is due inside it, nor in the days that a
\* call which is still to be written gives it.
THEOREM DeferralsClear == Spec => []DeferralClears
<1>1. Init => DeferralInv
  BY BaseStarts, DeferralStarts DEF DeferralInv
<1>2. FromScene /\ DeferralInv /\ [Next]_vars => DeferralInv'
  BY BaseStep, DeferralStep DEF DeferralInv
<1>3. DeferralInv => DeferralClears
  BY DEF DeferralInv, StoredInv, DeferralClears, Inside, Ends
<1>. QED BY <1>1, <1>2, <1>3, SceneStays, PTL DEF Spec

\* What the people's own notes leave of those the reminders look for.
LEMMA HeardNotes ==
    ASSUME RowsInv, Heard, NEW i \in 1..Len(notes')
    PROVE  \/ /\ i \in 1..Len(notes)
              /\ notes'[i].kind = notes[i].kind /\ notes'[i].about = notes[i].about
              /\ notes'[i].to = notes[i].to /\ notes'[i].day = notes[i].day
           \/ notes'[i].kind \in Personal /\ notes'[i].day = today
<1>1. CASE SameTold
  BY <1>1 DEF SameTold
<1>2. ASSUME NEW note, Added(note), note.kind \in Personal, note.day = today
      PROVE  \/ i \in 1..Len(notes) /\ notes'[i] = notes[i]
             \/ notes'[i].kind \in Personal /\ notes'[i].day = today
  <2>1. Len(notes) \in Nat
    BY LenProperties DEF RowsInv
  <2>. QED BY <1>2, <2>1 DEF Added
<1>. QED BY <1>1, <1>2 DEF Heard

LEMMA CredibleStays ==
    ASSUME RowsInv, RowsInv', Heard, booked' = booked, today <= today',
           \A b \in Blocks : Past(b) => Past(b)',
           \A i \in 1..Len(notes) : Credible(i), OneNoticePerTopic
    PROVE  (\A i \in 1..Len(notes') : Credible(i)') /\ OneNoticePerTopic'
<1>1. today \in Nat /\ today' \in Nat
  BY LastDayAssumption DEF RowsInv
<1>2. ASSUME NEW i \in 1..Len(notes') PROVE Credible(i)'
  <2>1. CASE notes'[i].kind \in Personal /\ notes'[i].day = today
    BY <1>1, <2>1 DEF Credible, Personal
  <2>2. CASE /\ i \in 1..Len(notes)
             /\ notes'[i].kind = notes[i].kind /\ notes'[i].about = notes[i].about
             /\ notes'[i].to = notes[i].to /\ notes'[i].day = notes[i].day
    <3>1. notes[i].day \in Nat
      BY <2>2, NoteTyped DEF RowsInv
    <3>2. PICK b : b = notes[i].about /\ b = notes'[i].about
      BY <2>2
    <3>3. notes[i].kind = "started" => b \in Blocks /\ Past(b)'
      BY <2>2, <3>2 DEF Credible
    <3>4. notes[i].kind = "started" => notes'[i].about \in Blocks /\ Past(notes[i].about)'
      BY <3>2, <3>3
    <3>. QED BY <1>1, <2>2, <3>1, <3>4 DEF Credible
  <2>. QED BY <2>1, <2>2, HeardNotes
<1>3. OneNoticePerTopic'
  <2>1. ASSUME NEW i \in 1..Len(notes'), NEW j \in 1..Len(notes'),
               notes'[i].kind = notes'[j].kind, notes'[i].about = notes'[j].about,
               notes'[i].to = notes'[j].to, notes'[i].kind \notin Personal
        PROVE  i = j
    <3>1. /\ i \in 1..Len(notes)
          /\ notes'[i].kind = notes[i].kind /\ notes'[i].about = notes[i].about
          /\ notes'[i].to = notes[i].to
      BY <2>1, HeardNotes
    <3>2. /\ j \in 1..Len(notes)
          /\ notes'[j].kind = notes[j].kind /\ notes'[j].about = notes[j].about
          /\ notes'[j].to = notes[j].to
      BY <2>1, HeardNotes
    <3>. QED BY <2>1, <3>1, <3>2 DEF OneNoticePerTopic, Personal
  <2>. QED BY <2>1 DEF OneNoticePerTopic, Personal
<1>. QED BY <1>2, <1>3

\* A pass whose next place looks for no more than this one.
LEMMA TellingKept ==
    ASSUME RowsInv, Heard, booked' = booked,
           NEW j, NEW k, j \in Passing, InOrder(j), Telling(j),
           k.now = j.now, k.todo \subseteq j.todo,
           Before(k, 4) => Before(j, 4), Before(k, 5) => Before(j, 5),
           k.at \in Starting \cup {"members", "weigh"} =>
               k.cur = j.cur /\ j.at \in Starting \cup {"members", "weigh"},
           k.at \in Adding =>
               /\ k.cur = j.cur
               /\ \/ j.at \in {"members", "weigh"}
                  \/ j.at \in Adding /\ k.to = j.to,
           k.at \in {"members"} \cup Adding /\ k.stage = 1 => Past(k.cur.about)'
    PROVE  Telling(k)'
<1>1. j.stage \in 1..5 /\ j.now \in Nat
  BY DEF Passing
<1>2. \A x \in j.todo : x.kind \notin Personal
  <2>1. ASSUME NEW x \in j.todo PROVE x.kind \notin Personal
    <3>1. x \in Agenda(j.stage, j.now)
      BY DEF InOrder
    <3>. QED BY <1>1, <3>1, AgendaTells
  <2>. QED BY <2>1
<1>3. j.at \in Dealing => j.cur.kind \notin Personal
  <2>1. ASSUME j.at \in Dealing PROVE j.cur.kind \notin Personal
    <3>1. j.cur \in Agenda(j.stage, j.now)
      BY <2>1 DEF InOrder
    <3>. QED BY <1>1, <3>1, AgendaTells
  <2>. QED BY <2>1
<1>4. ASSUME NEW i \in 1..Len(notes')
      PROVE  /\ Before(k, 4) /\ notes'[i].kind = "summary" /\ notes'[i].about = k.now => notes'[i].day = k.now
             /\ Before(k, 5) /\ notes'[i].kind = "booking" /\ booked[notes'[i].about] = k.now
                    => notes'[i].day = k.now
             /\ \A x \in k.todo : Untold(x, i, k.now)'
             /\ k.at \in Starting \cup {"members", "weigh"} => ~Covers(k.cur, i)'
             /\ k.at \in Adding /\ notes'[i].to \in k.to => ~Covers(k.cur, i)'
  <2>1. CASE notes'[i].kind \in Personal
    <3>1. \A x \in k.todo : ~Covers(x, i)'
      BY <1>2, <2>1 DEF Covers
    <3>2. j.at \in Dealing => ~Covers(j.cur, i)'
      BY <1>3, <2>1 DEF Covers
    <3>. QED BY <2>1, <3>1, <3>2 DEF Personal, Untold, Dealing
  <2>2. CASE /\ i \in 1..Len(notes)
             /\ notes'[i].kind = notes[i].kind /\ notes'[i].about = notes[i].about
             /\ notes'[i].to = notes[i].to /\ notes'[i].day = notes[i].day
    <3>1. \A x : Covers(x, i)' = Covers(x, i)
      BY <2>2 DEF Covers
    <3>2. /\ Before(j, 4) /\ notes[i].kind = "summary" /\ notes[i].about = j.now => notes[i].day = j.now
          /\ Before(j, 5) /\ notes[i].kind = "booking" /\ booked[notes[i].about] = j.now => notes[i].day = j.now
          /\ \A x \in j.todo : Untold(x, i, j.now)
          /\ j.at \in Starting \cup {"members", "weigh"} => ~Covers(j.cur, i)
          /\ j.at \in Adding /\ notes[i].to \in j.to => ~Covers(j.cur, i)
      BY <2>2 DEF Telling
    <3>3. \A x \in k.todo : Untold(x, i, k.now)'
      BY <2>2, <3>1, <3>2 DEF Untold
    <3>4. k.at \in Starting \cup {"members", "weigh"} => ~Covers(k.cur, i)'
      BY <3>1, <3>2
    <3>5. k.at \in Adding /\ notes'[i].to \in k.to => ~Covers(k.cur, i)'
      BY <2>2, <3>1, <3>2
    <3>. QED BY <2>2, <3>2, <3>3, <3>4, <3>5
  <2>. QED BY <2>1, <2>2, HeardNotes
<1>. QED BY <1>4 DEF Telling

\* A pass that does not move.
LEMMA TellingStays ==
    ASSUME RowsInv, Heard, booked' = booked, \A b \in Blocks : Past(b) => Past(b)',
           NEW j, j \in Passing, InOrder(j), Telling(j)
    PROVE  Telling(j)'
<1>1. ASSUME j.at \in {"members"} \cup Adding, j.stage = 1 PROVE Past(j.cur.about)'
  <2>1. j.cur \in Agenda(j.stage, j.now) /\ j.stage \in 1..5 /\ j.now \in Nat
    BY <1>1 DEF InOrder, Dealing, Passing
  <2>2. j.cur.about \in Blocks
    BY <1>1, <2>1, AgendaTells
  <2>. QED BY <1>1, <2>2 DEF Telling
<1>. QED BY <1>1, TellingKept, Zenon

LEMMA PlanTelling ==
    ASSUME RowsInv, RunInv, NEW p \in Runners, Plan(p), \A i \in 1..Len(notes) : Credible(i)
    PROVE  Telling(job[p])'
<1>1. PICK k : k.todo = {} /\ k.now = today /\ k.at = "list" /\ k = job'[p]
  <2>1. PICK ok \in BOOLEAN : Goes(p, Pass(ok))
    BY DEF Plan
  <2>2. job'[p] = Pass(ok)
    BY <2>1, PassGoes
  <2>. QED BY <2>2 DEF Pass
<1>2. UNCHANGED <<today, notes, booked>> /\ today \in Nat
  BY LastDayAssumption DEF Plan, PassOnly, rows, RowsInv
<1>3. ASSUME NEW i \in 1..Len(notes)
      PROVE  /\ notes[i].kind = "summary" /\ notes[i].about = today => notes[i].day = today
             /\ notes[i].kind = "booking" /\ booked[notes[i].about] = today => notes[i].day = today
  <2>1. notes[i].day \in Nat
    BY NoteTyped DEF RowsInv
  <2>. QED BY <1>2, <2>1 DEF Credible
<1>4. Telling(k)'
  BY <1>1, <1>2, <1>3 DEF Telling, Starting, Adding
<1>. QED BY <1>1, <1>4

LEMMA ListPartTelling ==
    ASSUME RowsInv, RunInv, NEW p \in Runners, Underway(p), Telling(job[p]), ListPart(p),
           \A i \in 1..Len(notes) : Credible(i)
    PROVE  job'[p] \in Passing => Telling(job[p])'
<1>. DEFINE j == job[p]
<1>1. /\ j.at = "list" /\ j \in Passing /\ UNCHANGED <<notes, booked>>
      /\ j.stage \in 1..5 /\ j.now \in Nat
  BY DEF ListPart, At, PassOnly, Underway, rows, Passing
<1>2. CASE Goes(p, Ended)
  BY <1>2, PassGoes, OffPlaces
<1>3. ASSUME NEW s, NEW seen, Goes(p, [j EXCEPT !.at = "pick", !.todo = s, !.seen = seen]),
             s = Candidates(Stages[j.stage], j.now) \/ s = {}
      PROVE  Telling(job[p])'
  <2>1. PICK k : k = [j EXCEPT !.at = "pick", !.todo = s, !.seen = seen] /\ k = job'[p]
    BY <1>3, PassGoes
  <2>2. k.at = "pick" /\ k.todo = s /\ k.stage = j.stage /\ k.now = j.now
    BY <1>1, <2>1 DEF Passing
  <2>3. ASSUME NEW x \in s, NEW i \in 1..Len(notes), Covers(x, i)
        PROVE  x.kind # "started" /\ (x.kind \in {"summary", "booking"} => notes[i].day = j.now)
    <3>1. x \in Candidates(Stages[j.stage], j.now)
      BY <1>3, <2>3
    <3>2. x \in Agenda(j.stage, j.now)
      BY <1>1, <3>1, CandidatesListed
    <3>3. x.kind # "started"
      <4>1. SUFFICES ASSUME x.kind = "started" PROVE FALSE
        OBVIOUS
      <4>2. j.stage = 1
        BY <1>1, <3>2, <4>1, AgendaTells
      <4>3. PICK b \in Blocks : Exists(b) /\ ~block[b].applied /\ x.about = b
        BY <3>1, <4>2 DEF Stages, Candidates, Topic
      <4>4. Past(b)
        BY <2>3, <4>1, <4>3 DEF Covers, Credible
      <4>. QED BY <4>3, <4>4 DEF Past, Exists
    <3>4. x.kind = "summary" => notes[i].day = j.now
      <4>1. SUFFICES ASSUME x.kind = "summary" PROVE notes[i].day = j.now
        OBVIOUS
      <4>2. j.stage = 4 /\ x.about = j.now
        BY <1>1, <3>2, <4>1, AgendaTells
      <4>. QED BY <1>1, <2>3, <4>1, <4>2 DEF Telling, Before, Covers
    <3>5. x.kind = "booking" => notes[i].day = j.now
      <4>1. SUFFICES ASSUME x.kind = "booking" PROVE notes[i].day = j.now
        OBVIOUS
      <4>2. j.stage = 5 /\ booked[x.about] = j.now
        BY <1>1, <3>2, <4>1, AgendaTells
      <4>. QED BY <1>1, <2>3, <4>1, <4>2 DEF Telling, Before, Covers
    <3>. QED BY <3>3, <3>4, <3>5
  <2>4. /\ Before(k, 4) => Before(j, 4)
        /\ Before(k, 5) => Before(j, 5)
    BY <1>1, <2>2 DEF Before
  <2>5. \A x \in s, i \in 1..Len(notes) : Untold(x, i, k.now)'
    BY <1>1, <2>2, <2>3 DEF Untold, Covers
  <2>6. \A i \in 1..Len(notes) :
        /\ Before(j, 4) /\ notes[i].kind = "summary" /\ notes[i].about = j.now => notes[i].day = j.now
        /\ Before(j, 5) /\ notes[i].kind = "booking" /\ booked[notes[i].about] = j.now => notes[i].day = j.now
    BY DEF Telling
  <2>7. k.at \notin Starting \cup {"members", "weigh"} \cup Adding
    BY <2>2 DEF Starting, Adding
  <2>8. ASSUME NEW i \in 1..Len(notes)
        PROVE  /\ Before(k, 4) /\ notes[i].kind = "summary" /\ notes[i].about = k.now => notes[i].day = k.now
               /\ Before(k, 5) /\ notes[i].kind = "booking" /\ booked[notes[i].about] = k.now
                      => notes[i].day = k.now
    BY <2>2, <2>4, <2>6
  <2>9. Telling(k)'
    BY <1>1, <2>2, <2>5, <2>7, <2>8 DEF Telling
  <2>. QED BY <2>1, <2>9
<1>. QED BY <1>2, <1>3 DEF ListPart

LEMMA PartOverTelling ==
    ASSUME RowsInv, RunInv, NEW p \in Runners, Underway(p), Telling(job[p]), PartOver(p)
    PROVE  job'[p] \in Passing => Telling(job[p])'
<1>. DEFINE j == job[p]
<1>1. /\ j \in Passing /\ InOrder(j) /\ UNCHANGED <<notes, booked>> /\ Heard
      /\ j.stage \in 1..5 /\ j.now \in Nat /\ j.todo = {}
  <2>1. SameTold
    BY SameSame DEF PartOver, PassOnly, rows, RowsInv
  <2>. QED BY <2>1 DEF PartOver, PassOnly, Underway, rows, Passing, Heard
<1>2. CASE Goes(p, Ended)
  BY <1>2, PassGoes, OffPlaces
<1>3. CASE Goes(p, [job[p] EXCEPT !.at = "list", !.stage = @ + 1])
  <2>1. PICK n : n = j.stage + 1
    OBVIOUS
  <2>2. PICK k : k = [j EXCEPT !.at = "list", !.stage = n] /\ k = job'[p]
    BY <1>3, <2>1, PassGoes
  <2>3. k.at = "list" /\ k.todo = {} /\ k.stage = n /\ k.now = j.now
    BY <1>1, <2>2 DEF Passing
  <2>4. (Before(k, 4) => Before(j, 4)) /\ (Before(k, 5) => Before(j, 5))
    BY <1>1, <2>1, <2>3 DEF Before
  <2>5. Telling(k)'
    BY <1>1, <2>3, <2>4, TellingKept DEF Starting, Adding
  <2>. QED BY <2>2, <2>5
<1>. QED BY <1>2, <1>3 DEF PartOver

LEMMA PickTelling ==
    ASSUME RowsInv, RunInv, NEW p \in Runners, Underway(p), Telling(job[p]), NEW x, Pick(p, x)
    PROVE  Telling(job[p])'
<1>. DEFINE j == job[p]
<1>1. /\ j \in Passing /\ InOrder(j) /\ UNCHANGED <<notes, booked>> /\ Heard
      /\ j.stage \in 1..5 /\ j.now \in Nat /\ x \in j.todo /\ j.at = "pick"
  <2>1. SameTold
    BY SameSame DEF Pick, PassOnly, rows, RowsInv
  <2>. QED BY <2>1 DEF Pick, PassOnly, Underway, rows, Passing, Heard, At
<1>2. x \in Agenda(j.stage, j.now)
  BY <1>1 DEF InOrder
<1>3. CASE Goes(p, Skip(p, x))
  <2>1. PICK k : k = [j EXCEPT !.todo = j.todo \ {x}] /\ k = job'[p]
    BY <1>3, PassGoes DEF Skip
  <2>2. k.now = j.now /\ k.stage = j.stage /\ k.todo = j.todo \ {x} /\ k.at = "pick"
    BY <1>1, <2>1 DEF Passing
  <2>3. (Before(k, 4) => Before(j, 4)) /\ (Before(k, 5) => Before(j, 5))
    BY <1>1, <2>2 DEF Before
  <2>4. Telling(k)'
    BY <1>1, <2>2, <2>3, TellingKept DEF Starting, Adding
  <2>. QED BY <2>1, <2>4
<1>4. ASSUME NEW place \in Starting \cup {"members", "weigh"}, Goes(p, Deal(p, x, place)),
             \A i \in 1..Len(notes) : ~Covers(x, i),
             place = "members" => x.kind # "started"
      PROVE  Telling(job[p])'
  <2>1. PICK k : k = [[j EXCEPT !.todo = j.todo \ {x}] EXCEPT !.at = place, !.cur = x] /\ k = job'[p]
    BY <1>4, PassGoes DEF Deal, Skip
  <2>2. /\ k.now = j.now /\ k.stage = j.stage /\ k.todo = j.todo \ {x}
        /\ k.at = place /\ k.cur = x
    BY <1>1, <2>1 DEF Passing
  <2>3. (Before(k, 4) => Before(j, 4)) /\ (Before(k, 5) => Before(j, 5))
    BY <1>1, <2>2 DEF Before, Starting
  <2>4. \A i \in 1..Len(notes) : ~Covers(x, i)'
    BY <1>1, <1>4 DEF Covers
  <2>5. \A y \in k.todo, i \in 1..Len(notes) : Untold(y, i, k.now)'
    BY <1>1, <2>2 DEF Telling, Untold, Covers
  <2>6. \A i \in 1..Len(notes) :
        /\ Before(k, 4) /\ notes[i].kind = "summary" /\ notes[i].about = k.now => notes[i].day = k.now
        /\ Before(k, 5) /\ notes[i].kind = "booking" /\ booked[notes[i].about] = k.now => notes[i].day = k.now
    BY <2>2, <2>3 DEF Telling
  <2>7. k.at \notin Adding
    BY <2>2 DEF Starting, Adding
  <2>8. k.at = "members" => k.stage # 1
    BY <1>1, <1>2, <1>4, <2>2, AgendaTells
  <2>9. Telling(k)'
    BY <1>1, <2>2, <2>4, <2>5, <2>6, <2>7, <2>8 DEF Telling
  <2>. QED BY <2>1, <2>9
<1>5. ASSUME NEW i \in 1..Len(notes), Covers(x, i)
      PROVE  x.kind # "started" /\ Told(x, j.now)
  <2>1. x.kind # "started" /\ (x.kind \in {"summary", "booking"} => notes[i].day = j.now)
    BY <1>1, <1>5 DEF Telling, Untold
  <2>. QED BY <1>5, <2>1 DEF Covers, Told
<1>6. CASE x.kind = "started"
  <2>1. Goes(p, Deal(p, x, "defer")) \/ Goes(p, Deal(p, x, "apply"))
    BY <1>6 DEF Pick
  <2>. QED BY <1>4, <1>5, <1>6, <2>1 DEF Starting
<1>7. CASE x.kind # "started"
  BY <1>3, <1>4, <1>5, <1>7 DEF Pick
<1>. QED BY <1>6, <1>7

\* Nothing that a pass does makes a started block one that is still to come.
LEMMA PastStays ==
    ASSUME RowsInv, RunInv, NEW p \in Runners, ReminderStep(p)
    PROVE  \A b \in Blocks : Past(b) => Past(b)'
<1>1. ASSUME NEW x, Pick(p, x) PROVE block' = block
  BY <1>1 DEF Pick, PassOnly, holidays
<1>2. ASSUME NEW m \in Members, Insert(p, m) PROVE block' = block
  BY <1>2 DEF Insert, holidays
<1>3. ASSUME Plan(p) \/ ListPart(p) \/ PartOver(p) \/ Weigh(p) \/ ListMembers(p) \/ Aim(p) \/ Defer(p) \/ Queue(p)
      PROVE  block' = block
  BY <1>3 DEF Plan, ListPart, PartOver, Weigh, ListMembers, Aim, Defer, Queue, PassOnly, holidays
<1>4. CASE Apply(p)
  <2>1. PICK b : b = job[p].cur.about
    OBVIOUS
  <2>2. CASE Exists(b)
    <3>1. block' = [block EXCEPT ![b].applied = TRUE]
      BY <1>4, <2>1, <2>2 DEF Apply
    <3>2. ASSUME NEW d \in Blocks, Past(d) PROVE Past(d)'
      <4>1. CASE d = b
        <5>1. block'[d].applied
          BY <3>1, <4>1 DEF RowsInv, BlockRows
        <5>. QED BY <5>1 DEF Past
      <4>2. CASE d # b
        <5>1. block'[d] = block[d]
          BY <3>1, <4>2 DEF RowsInv
        <5>. QED BY <3>2, <5>1 DEF Past
      <4>. QED BY <4>1, <4>2
    <3>. QED BY <3>2
  <2>3. CASE ~Exists(b)
    BY <1>4, <2>1, <2>3 DEF Apply, Past
  <2>. QED BY <2>2, <2>3
<1>. QED BY <1>1, <1>2, <1>3, <1>4 DEF ReminderStep, Past

\* A pass that goes on with what it deals with, or with its list.
LEMMA TellingOn ==
    ASSUME RowsInv, RunInv, NEW p \in Runners, Underway(p), Telling(job[p]), SameTold,
           UNCHANGED booked, ReminderStep(p), NEW k, k = job'[p], job[p].at \in Dealing,
           k.now = job[p].now, k.stage = job[p].stage, k.todo = job[p].todo,
           \/ k.at = "pick"
           \/ k.at = "apply" /\ k.cur = job[p].cur /\ job[p].at = "defer"
           \/ /\ k.at \in Adding /\ k.cur = job[p].cur
              /\ \/ job[p].at \in Adding /\ k.to = job[p].to
                 \/ job[p].at = "members"
                 \/ job[p].at = "weigh"
    PROVE  Telling(k)'
<1>. DEFINE j == job[p]
<1>1. j \in Passing /\ InOrder(j) /\ Heard /\ j.stage \in 1..5 /\ j.now \in Nat
  BY DEF Underway, Heard, Passing
<1>2. j.at # "list" /\ k.at # "list"
  BY DEF Dealing, Starting, Adding
<1>3. (Before(k, 4) => Before(j, 4)) /\ (Before(k, 5) => Before(j, 5))
  BY <1>1, <1>2 DEF Before
<1>4. ASSUME k.at \in {"members"} \cup Adding, k.stage = 1 PROVE Past(k.cur.about)'
  <2>1. j.cur \in Agenda(j.stage, j.now) /\ k.cur = j.cur
    BY <1>1, <1>4 DEF InOrder, Adding
  <2>2. j.cur.about \in Blocks /\ j.cur.to = None
    BY <1>1, <1>4, <2>1, AgendaTells
  <2>3. j.at # "weigh"
    BY <1>1, <2>2 DEF InOrder
  <2>4. Past(j.cur.about)
    <3>1. j.at \in {"members"} \cup Adding
      BY <1>4, <2>3 DEF Adding
    <3>. QED BY <1>4, <3>1 DEF Telling
  <2>5. PICK b : b = k.cur.about
    OBVIOUS
  <2>6. b \in Blocks /\ Past(b)
    BY <2>1, <2>2, <2>4, <2>5
  <2>7. Past(b)'
    BY <2>6, PastStays
  <2>. QED BY <2>5, <2>7
<1>5. k.at \in Starting \cup {"members", "weigh"} => k.cur = j.cur /\ j.at \in Starting \cup {"members", "weigh"}
  BY DEF Adding, Starting
<1>6. k.at \in Adding => /\ k.cur = j.cur
                         /\ \/ j.at \in {"members", "weigh"}
                            \/ j.at \in Adding /\ k.to = j.to
  BY DEF Adding
<1>. QED BY <1>1, <1>3, <1>4, <1>5, <1>6, TellingKept, Zenon

\* A block has started once it is marked.
LEMMA ApplyTelling ==
    ASSUME RowsInv, RunInv, NEW p \in Runners, Underway(p), Telling(job[p]), Apply(p)
    PROVE  job'[p] \in Passing => Telling(job[p])'
<1>. DEFINE j == job[p]
<1>1. /\ j \in Passing /\ InOrder(j) /\ UNCHANGED <<notes, booked>> /\ Heard
      /\ j.stage \in 1..5 /\ j.now \in Nat /\ j.at = "apply" /\ j.cur.about \in Blocks
  <2>1. SameTold
    BY SameSame DEF Apply, rows, RowsInv
  <2>. QED BY <2>1, ApplyPlace DEF Apply, Underway, rows, Passing, Heard, At
<1>2. PICK k : k = job'[p]
  OBVIOUS
<1>3. CASE k = Ended
  BY <1>2, <1>3, OffPlaces
<1>4. CASE k = Dealt(p)
  <2>1. k = [j EXCEPT !.at = "pick", !.cur = NoTopic, !.email = "SKIPPED", !.note = 0, !.aims = {}]
    BY <1>4 DEF Dealt
  <2>2. k.now = j.now /\ k.stage = j.stage /\ k.todo = j.todo /\ k.at = "pick"
    BY <1>1, <2>1 DEF Passing
  <2>3. SameTold
    BY <1>1, SameSame DEF RowsInv
  <2>4. Telling(k)'
    BY <1>1, <1>2, <2>2, <2>3, TellingOn DEF Dealing, Starting, ReminderStep
  <2>. QED BY <1>2, <2>4
<1>5. CASE k = [j EXCEPT !.at = "members"] /\ Exists(j.cur.about)
  <2>1. k.now = j.now /\ k.stage = j.stage /\ k.todo = j.todo /\ k.at = "members" /\ k.cur = j.cur
    BY <1>1, <1>5 DEF Passing
  <2>2. Past(k.cur.about)'
    <3>1. PICK b \in Blocks : b = j.cur.about
      BY <1>1
    <3>2. block'[b].applied
      BY <1>5, <3>1 DEF Apply, RowsInv, BlockRows
    <3>3. b = k.cur.about
      BY <2>1, <3>1
    <3>. QED BY <3>2, <3>3 DEF Past
  <2>3. (Before(k, 4) => Before(j, 4)) /\ (Before(k, 5) => Before(j, 5))
    BY <1>1, <2>1 DEF Before
  <2>4. Telling(k)'
    BY <1>1, <2>1, <2>2, <2>3, TellingKept DEF Starting, Adding
  <2>. QED BY <1>2, <2>4
<1>. QED BY <1>2, <1>3, <1>4, <1>5, PassGoes DEF Apply

\* A notice is added for a member that has not been told.
LEMMA InsertTelling ==
    ASSUME RowsInv, RunInv, NEW p \in Runners, Underway(p), Telling(job[p]),
           NEW m \in Members, Insert(p, m),
           \A i \in 1..Len(notes) : Credible(i), OneNoticePerTopic
    PROVE  /\ Telling(job[p])'
           /\ \A i \in 1..Len(notes') : Credible(i)'
           /\ OneNoticePerTopic'
<1>. DEFINE j == job[p]
<1>12. PICK n : n = Len(notes) + 1
  OBVIOUS
<1>1. /\ j \in Passing /\ InOrder(j) /\ j.stage \in 1..5 /\ j.now \in Nat
      /\ j.cur \in Agenda(j.stage, j.now) \ j.todo /\ j.todo \subseteq Agenda(j.stage, j.now)
      /\ j.now <= today /\ today \in Nat
      /\ UNCHANGED <<today, booked, block>> /\ m \in j.to /\ j.at = "insert"
      /\ j.cur.to # None => m = j.cur.to
  BY InsertPlace, LastDayAssumption DEF Underway, Passing, InOrder, RowsInv, holidays, Dealing, Adding
<1>2. PICK note : /\ Added(note) /\ note.kind = j.cur.kind
                  /\ note.about = j.cur.about /\ note.to = m /\ note.day = today
  BY InsertPlace
<1>3. PICK k : /\ k = job'[p] /\ k.at = "aim" /\ k.to = j.to \ {m} /\ k.todo = j.todo
               /\ k.now = j.now /\ k.stage = j.stage /\ k.cur = j.cur
  BY InsertPlace
<1>4. /\ Len(notes) \in Nat /\ Len(notes') = n /\ notes'[n] = note
      /\ \A i \in 1..Len(notes) : notes'[i] = notes[i]
  BY <1>2, <1>12, LenProperties DEF Added, RowsInv
<1>5. ASSUME NEW i \in 1..n PROVE i = n \/ i \in 1..Len(notes)
  BY <1>4, <1>12
<1>6. /\ j.cur.kind \notin Personal
      /\ j.cur.kind = "started" => j.cur.about \in Blocks /\ Past(j.cur.about)
      /\ j.cur.kind = "summary" => j.cur.about = j.now /\ j.stage = 4
      /\ j.cur.kind = "booking" => j.cur.about \in Bookings /\ booked[j.cur.about] = j.now /\ j.stage = 5
  <2>1. j.stage = 1 => Past(j.cur.about)
    BY <1>1 DEF Telling, Adding
  <2>. QED BY <1>1, <2>1, AgendaTells
<1>7. \A i \in 1..Len(notes) : notes[i].to = m => ~Covers(j.cur, i)
  BY <1>1 DEF Telling, Adding
<1>8. ASSUME NEW i \in 1..Len(notes) PROVE Credible(i)'
  BY <1>1, <1>4, <1>8 DEF Credible, Past
<1>9. Credible(n)'
  <2>1. notes'[n].kind = j.cur.kind /\ notes'[n].about = j.cur.about /\ notes'[n].day = today
    BY <1>2, <1>4
  <2>2. j.cur.kind = "started" => notes'[n].about \in Blocks /\ Past(notes[n].about)'
    <3>1. PICK b : b = j.cur.about
      OBVIOUS
    <3>2. j.cur.kind = "started" => b \in Blocks /\ Past(b)'
      BY <1>1, <1>6, <3>1 DEF Past
    <3>3. b = notes'[n].about
      BY <2>1, <3>1
    <3>. QED BY <3>2, <3>3, <1>4 DEF Past
  <2>. QED BY <1>1, <1>4, <1>6, <2>1, <2>2 DEF Credible
<1>10. OneNoticePerTopic'
  <2>1. ASSUME NEW i \in 1..Len(notes), notes[i].kind = note.kind, notes[i].about = note.about,
               notes[i].to = note.to
        PROVE  FALSE
    <3>1. Covers(j.cur, i)
      BY <1>1, <1>2, <2>1 DEF Covers
    <3>. QED BY <1>2, <1>7, <2>1, <3>1
  <2>2. ASSUME NEW i \in 1..Len(notes'), NEW h \in 1..Len(notes'),
               notes'[i].kind = notes'[h].kind, notes'[i].about = notes'[h].about,
               notes'[i].to = notes'[h].to, notes'[i].kind \notin Personal
        PROVE  i = h
    <3>1. CASE i \in 1..Len(notes) /\ h \in 1..Len(notes)
      BY <1>4, <2>2, <3>1 DEF OneNoticePerTopic, Personal
    <3>2. CASE i = n /\ h \in 1..Len(notes)
      BY <1>4, <2>1, <2>2, <3>2
    <3>3. CASE h = n /\ i \in 1..Len(notes)
      BY <1>4, <2>1, <2>2, <3>3
    <3>. QED BY <1>4, <1>5, <3>1, <3>2, <3>3
  <2>. QED BY <2>2 DEF OneNoticePerTopic, Personal
<1>11. Telling(k)'
  <2>1. ASSUME NEW x \in j.todo PROVE ~(x.kind = note.kind /\ x.about = note.about /\ (x.to # None => x.to = m))
    <3>1. SUFFICES ASSUME x.kind = note.kind, x.about = note.about, x.to # None => x.to = m PROVE FALSE
      OBVIOUS
    <3>2. /\ j.stage \in {1, 2, 5} => x.to = None /\ j.cur.to = None
          /\ j.stage \in {3, 4} => x.to \in Members /\ j.cur.to \in Members
      BY <1>1, AgendaTells
    <3>3. x.to = j.cur.to
      BY <1>1, <3>1, <3>2, NoneAssumption
    <3>. QED BY <1>1, <1>2, <3>1, <3>3, AgendaTells
  <2>2. \A i \in 1..Len(notes) : \A x : Covers(x, i)' = Covers(x, i)
    BY <1>4 DEF Covers
  <2>3. ASSUME NEW i \in 1..Len(notes)
        PROVE  /\ Before(k, 4) /\ notes'[i].kind = "summary" /\ notes'[i].about = k.now => notes'[i].day = k.now
               /\ Before(k, 5) /\ notes'[i].kind = "booking" /\ booked[notes'[i].about] = k.now
                    => notes'[i].day = k.now
               /\ \A x \in k.todo : Untold(x, i, k.now)'
               /\ notes'[i].to \in k.to => ~Covers(k.cur, i)'
    <3>1. (Before(k, 4) => Before(j, 4)) /\ (Before(k, 5) => Before(j, 5))
      BY <1>1, <1>3 DEF Before
    <3>2. /\ Before(j, 4) /\ notes[i].kind = "summary" /\ notes[i].about = j.now => notes[i].day = j.now
          /\ Before(j, 5) /\ notes[i].kind = "booking" /\ booked[notes[i].about] = j.now
                    => notes[i].day = j.now
          /\ \A x \in j.todo : Untold(x, i, j.now)
          /\ notes[i].to \in j.to => ~Covers(j.cur, i)
      BY <1>1 DEF Telling, Adding
    <3>3. \A x \in k.todo : Untold(x, i, k.now)'
      BY <1>3, <1>4, <2>2, <3>2 DEF Untold
    <3>. QED BY <1>3, <1>4, <2>2, <3>1, <3>2, <3>3
  <2>4. /\ Before(k, 4) /\ notes'[n].kind = "summary" /\ notes'[n].about = k.now => notes'[n].day = k.now
        /\ Before(k, 5) /\ notes'[n].kind = "booking" /\ booked[notes'[n].about] = k.now
             => notes'[n].day = k.now
        /\ \A x \in k.todo : Untold(x, n, k.now)'
        /\ notes'[n].to \in k.to => ~Covers(k.cur, n)'
    <3>1. ~(Before(k, 4) /\ notes'[n].kind = "summary") /\ ~(Before(k, 5) /\ notes'[n].kind = "booking")
      BY <1>1, <1>2, <1>3, <1>4, <1>6 DEF Before
    <3>2. \A x \in k.todo : ~Covers(x, n)'
      BY <1>2, <1>3, <1>4, <2>1 DEF Covers
    <3>3. notes'[n].to \notin k.to
      BY <1>2, <1>3, <1>4
    <3>. QED BY <3>1, <3>2, <3>3 DEF Untold
  <2>5. k.at = "aim" /\ "aim" \notin Starting \cup {"members", "weigh"}
    BY <1>3 DEF Starting
  <2>6. k.stage = 1 => Past(k.cur.about)'
    <3>1. PICK b : b = k.cur.about
      OBVIOUS
    <3>2. k.stage = 1 => Past(b)
      BY <1>1, <1>3, <3>1 DEF Telling, Adding
    <3>3. Past(b)' = Past(b)
      BY <1>1 DEF Past
    <3>. QED BY <3>1, <3>2, <3>3
  <2>7. \A i \in 1..Len(notes') : i = n \/ i \in 1..Len(notes)
    BY <1>4, <1>5
  <2>. QED BY <1>1, <2>3, <2>4, <2>5, <2>6, <2>7 DEF Telling
<1>. QED BY <1>3, <1>4, <1>5, <1>8, <1>9, <1>10, <1>11

LEMMA ReminderTelling ==
    ASSUME RowsInv, RowsInv', RunInv, OrderInv, NoticeInv, NEW p \in Runners, ReminderStep(p)
    PROVE  /\ job'[p] \in Passing => Telling(job[p])'
           /\ \A i \in 1..Len(notes') : Credible(i)'
           /\ OneNoticePerTopic'
<1>1. p \in Callers /\ p = active /\ work = "remind" /\ (job[p] = Begun \/ job[p] \in Passing)
  BY OnlyActive
<1>2. job[p] \in Passing => Underway(p) /\ Telling(job[p])
  BY <1>1 DEF Underway, OrderInv, NoticeInv
<1>3. UNCHANGED <<today, booked>> /\ today <= today'
  BY ReminderBase, LastDayAssumption DEF RowsInv
<1>4. ASSUME SameTold PROVE (\A i \in 1..Len(notes') : Credible(i)') /\ OneNoticePerTopic'
  BY <1>3, <1>4, PastStays, CredibleStays DEF NoticeInv, Heard
<1>5. ASSUME NEW place, At(p, place), place # "begin" PROVE Underway(p) /\ Telling(job[p])
  BY <1>1, <1>2, <1>5 DEF At, Begun
<1>6. ASSUME UNCHANGED notes PROVE SameTold
  BY <1>6, SameSame DEF RowsInv
<1>7. \A i \in 1..Len(notes) : Credible(i)
  BY DEF NoticeInv
<1>8. CASE Plan(p)
  <2>1. UNCHANGED notes
    BY <1>8 DEF Plan, PassOnly, rows
  <2>. QED BY <1>4, <1>6, <1>7, <1>8, <2>1, PlanTelling
<1>9. CASE ListPart(p)
  <2>1. UNCHANGED notes /\ Underway(p) /\ Telling(job[p])
    BY <1>5, <1>9 DEF ListPart, PassOnly, rows
  <2>. QED BY <1>4, <1>6, <1>7, <1>9, <2>1, ListPartTelling
<1>10. CASE PartOver(p)
  <2>1. UNCHANGED notes /\ Underway(p) /\ Telling(job[p])
    BY <1>5, <1>10 DEF PartOver, PassOnly, rows
  <2>. QED BY <1>4, <1>6, <1>10, <2>1, PartOverTelling
<1>11. ASSUME NEW x, Pick(p, x)
       PROVE  Telling(job[p])' /\ (\A i \in 1..Len(notes') : Credible(i)') /\ OneNoticePerTopic'
  <2>1. UNCHANGED notes /\ Underway(p) /\ Telling(job[p])
    BY <1>5, <1>11 DEF Pick, PassOnly, rows
  <2>. QED BY <1>4, <1>6, <1>11, <2>1, PickTelling
<1>12. CASE Apply(p)
  <2>1. UNCHANGED notes /\ Underway(p) /\ Telling(job[p])
    BY <1>5, <1>12 DEF Apply, rows
  <2>. QED BY <1>4, <1>6, <1>12, <2>1, ApplyTelling
<1>13. ASSUME NEW m \in Members, Insert(p, m)
       PROVE  Telling(job[p])' /\ (\A i \in 1..Len(notes') : Credible(i)') /\ OneNoticePerTopic'
  <2>1. Underway(p) /\ Telling(job[p])
    BY <1>5, <1>13 DEF Insert
  <2>. QED BY <1>7, <1>13, <2>1, InsertTelling DEF NoticeInv
<1>14. ASSUME Underway(p), Telling(job[p]), SameTold, NEW k, k = job'[p], job[p].at \in Dealing,
              \/ k = Ended
              \/ /\ k.now = job[p].now /\ k.stage = job[p].stage /\ k.todo = job[p].todo
                 /\ \/ k.at = "pick"
                    \/ k.at = "apply" /\ k.cur = job[p].cur /\ job[p].at = "defer"
                    \/ /\ k.at \in Adding /\ k.cur = job[p].cur
                       /\ \/ job[p].at \in Adding /\ k.to = job[p].to
                          \/ job[p].at = "members"
                          \/ job[p].at = "weigh"
       PROVE  job'[p] \in Passing => Telling(job[p])'
  <2>1. CASE k = Ended
    BY <1>14, <2>1, OffPlaces
  <2>2. CASE k # Ended
    <3>1. Telling(k)'
      BY <1>3, <1>14, <2>2, TellingOn
    <3>. QED BY <1>14, <3>1
  <2>. QED BY <2>1, <2>2
<1>15. CASE Defer(p)
  <2>1. UNCHANGED notes /\ Underway(p) /\ Telling(job[p]) /\ job[p].at = "defer"
    BY <1>5, <1>15 DEF Defer, rows, At
  <2>2. PICK k : k = [job[p] EXCEPT !.at = "apply"] /\ k = job'[p]
    BY <1>15, <2>1, DeferPlace
  <2>3. k.now = job[p].now /\ k.stage = job[p].stage /\ k.todo = job[p].todo
        /\ k.at = "apply" /\ k.cur = job[p].cur
    BY <2>1, <2>2 DEF Underway, Passing
  <2>. QED BY <1>4, <1>6, <1>14, <2>1, <2>2, <2>3 DEF Dealing, Starting
<1>16. CASE Weigh(p)
  <2>1. UNCHANGED notes /\ Underway(p) /\ Telling(job[p]) /\ job[p].at = "weigh"
    BY <1>5, <1>16 DEF Weigh, PassOnly, rows, At
  <2>2. PICK k : k = job'[p]
    OBVIOUS
  <2>3. \/ k = Ended
        \/ /\ k.now = job[p].now /\ k.stage = job[p].stage /\ k.todo = job[p].todo
           /\ k.at \in {"pick", "insert"} /\ (k.at = "insert" => k.cur = job[p].cur)
    BY <1>16, <2>1, <2>2, WeighPlace
  <2>. QED BY <1>4, <1>6, <1>14, <2>1, <2>2, <2>3 DEF Dealing, Adding
<1>17. CASE ListMembers(p)
  <2>1. UNCHANGED notes /\ Underway(p) /\ Telling(job[p]) /\ job[p].at = "members"
    BY <1>5, <1>17 DEF ListMembers, PassOnly, rows, At
  <2>2. PICK k : k = [job[p] EXCEPT !.at = "insert", !.to = Members] /\ k = job'[p]
    BY <1>17, <2>1, ListMembersPlace
  <2>3. k.now = job[p].now /\ k.stage = job[p].stage /\ k.todo = job[p].todo
        /\ k.at = "insert" /\ k.cur = job[p].cur
    BY <2>1, <2>2 DEF Underway, Passing
  <2>. QED BY <1>4, <1>6, <1>14, <2>1, <2>2, <2>3 DEF Dealing, Adding
<1>18. CASE Aim(p)
  <2>1. UNCHANGED notes /\ Underway(p) /\ Telling(job[p])
    BY <1>5, <1>18 DEF Aim, PassOnly, rows
  <2>2. PICK k : k = job'[p]
    OBVIOUS
  <2>3. /\ k.now = job[p].now /\ k.stage = job[p].stage /\ k.todo = job[p].todo
        /\ job[p].at \in Adding
        /\ \/ k.at = "pick"
           \/ k.at \in Adding /\ k.cur = job[p].cur /\ k.to = job[p].to
    BY <1>18, <2>1, <2>2, AimPlace
  <2>. QED BY <1>4, <1>6, <1>14, <2>1, <2>2, <2>3 DEF Dealing
<1>19. CASE Queue(p)
  <2>1. Underway(p) /\ Telling(job[p])
    BY <1>5, <1>19 DEF Queue
  <2>2. PICK k : k = job'[p]
    OBVIOUS
  <2>3. /\ SameTold /\ job[p].at \in Adding
        /\ \/ k = Ended
           \/ /\ k.now = job[p].now /\ k.stage = job[p].stage /\ k.todo = job[p].todo
              /\ \/ k.at = "pick"
                 \/ k.at \in Adding /\ k.cur = job[p].cur /\ k.to = job[p].to
    BY <1>19, <2>1, <2>2, QueuePlace DEF Adding
  <2>. QED BY <1>4, <1>14, <2>1, <2>2, <2>3 DEF Dealing
<1>. QED BY <1>8, <1>9, <1>10, <1>11, <1>12, <1>13, <1>15, <1>16, <1>17, <1>18, <1>19 DEF ReminderStep

LEMMA NoticeStarts == Init => NoticeInv
<1>. SUFFICES ASSUME Init PROVE NoticeInv
  OBVIOUS
<1>1. Sound(scene)
  BY ScenesAssumption DEF Init
<1>2. (\A i \in 1..Len(notes) : Credible(i)) /\ OneNoticePerTopic
  BY <1>1 DEF Init, Sound, Credible, OneNoticePerTopic, Past
<1>3. \A c \in Callers : job[c] \notin Passing
  BY OffPlaces DEF Init, PassesInit, Runners
<1>. QED BY <1>2, <1>3 DEF NoticeInv

LEMMA NoticeStep ==
    ASSUME FromScene, BaseInv, BaseInv', StoredInv, NoticeInv, [Next]_vars
    PROVE  NoticeInv'
<1>. USE DEF BaseInv
<1>1. ASSUME UNCHANGED notes PROVE Heard
  BY <1>1, SameSame DEF Heard, RowsInv
<1>2. ASSUME Heard, UNCHANGED <<work, booked>>, today <= today', Fewer, \A b \in Blocks : Past(b) => Past(b)'
      PROVE  NoticeInv'
  <2>1. (\A i \in 1..Len(notes') : Credible(i)') /\ OneNoticePerTopic'
    BY <1>2, CredibleStays DEF NoticeInv
  <2>2. ASSUME work = "remind", NEW c \in Callers, job'[c] \in Passing PROVE Telling(job[c])'
    <3>1. PICK j : j = job[c] /\ j = job'[c]
      BY <1>2, <2>2 DEF Fewer
    <3>2. j \in Passing /\ InOrder(j) /\ Telling(j)
      BY <2>2, <3>1 DEF OrderInv, NoticeInv
    <3>3. Telling(j)'
      BY <1>2, <3>2, TellingStays
    <3>. QED BY <3>1, <3>3
  <2>. QED BY <1>2, <2>1, <2>2 DEF NoticeInv
<1>3. today \in Nat
  BY LastDayAssumption DEF RowsInv
<1>4. CASE Running /\ work \in Workers /\ UNCHANGED <<holidays, booked>>
  <2>1. Fewer /\ UNCHANGED <<rows, work>>
    BY <1>4, StepParts, FlightStep, RunningKeeps DEF RunInv
  <2>. QED BY <1>1, <1>2, <1>3, <1>4, <2>1 DEF rows, holidays, Past
<1>5. ASSUME NEW p \in Runners, DeliveryStep(p), UNCHANGED <<holidays, booked>> PROVE NoticeInv'
  <2>1. work # "remind" /\ UNCHANGED <<today, work>>
    BY <1>5, DeliveryRuns, DeliveryKeepsFlight, StepParts, FlightStep, DeliveryDay DEF RunInv
  <2>2. SameTold
    BY <1>5, DeliveryRows
  <2>3. (\A i \in 1..Len(notes') : Credible(i)') /\ OneNoticePerTopic'
    BY <1>3, <1>5, <2>1, <2>2, CredibleStays DEF NoticeInv, Heard, Past, holidays
  <2>. QED BY <2>1, <2>3 DEF NoticeInv
<1>6. ASSUME NEW p \in Runners, ReminderStep(p) PROVE NoticeInv'
  <2>1. /\ job'[p] \in Passing => Telling(job[p])'
        /\ \A i \in 1..Len(notes') : Credible(i)'
        /\ OneNoticePerTopic'
    BY <1>6, ReminderTelling
  <2>2. \A q \in Callers \ {p} : job'[q] \notin Passing
    <3>1. \A q \in Callers \ {p} : At(q, "off")'
      BY <1>6, ReminderBase DEF RunInv, flight
    <3>. QED BY <3>1 DEF At, Passing, Dealing, Starting, Adding
  <2>. QED BY <2>1, <2>2 DEF NoticeInv
<1>7. CASE Requests
  <2>1. Fewer /\ UNCHANGED <<work, booked>>
    BY <1>7 DEF Requests, Fewer, passes
  <2>2. CASE Home
    <3>1. SameTold /\ (\A b \in Blocks : Past(b) => Past(b)')
      BY <2>1, <2>2, HomeRows, HomeStored DEF Lasts
    <3>2. today <= today'
      <4>1. today' = today \/ today' = today + 1
        BY <2>2 DEF Home, Midnight, ChoreGoesOn, HolidayCall, CreateRead, CreateWrite, DeleteRead,
           DeleteWrite, EndRead, EndWrite, rows
      <4>. QED BY <1>3, <4>1
    <3>. QED BY <1>2, <2>1, <3>1, <3>2 DEF Heard
  <2>3. CASE Settings
    <3>1. UNCHANGED block
      BY <2>3 DEF Settings, holidays
    <3>. QED BY <1>2, <1>3, <2>1, <2>3, <3>1, SettingsRows DEF Past
  <2>4. ASSUME NEW i \in 1..MaxNotes, Retry(i), UNCHANGED holidays PROVE NoticeInv'
    <3>1. SameTold
      BY <2>1, <2>4, RetryRows
    <3>2. today' = today /\ UNCHANGED block
      BY <2>4 DEF Retry, RetryPush, RetryEmail, holidays
    <3>. QED BY <1>2, <1>3, <2>1, <3>1, <3>2 DEF Heard, Past
  <2>. QED BY <1>7, <2>2, <2>3, <2>4 DEF Requests
<1>8. CASE Board \/ UNCHANGED vars
  <2>1. UNCHANGED <<today, notes, block, work, job, booked>>
    BY <1>8 DEF Board, vars, rows, holidays, passes
  <2>. QED BY <1>1, <1>2, <1>3, <2>1 DEF Fewer, Past
<1>. QED BY <1>4, <1>5, <1>6, <1>7, <1>8 DEF Next, Worker, Running

\* Whatever day breaks while a pass is under way, whatever ends it half-way or reads
\* its lists again, and whoever turns what on and off meanwhile: nobody is told the
\* same thing twice.
THEOREM NobodyToldTwice == Spec => []OneNoticePerTopic
<1>1. Init => DeferralInv /\ NoticeInv
  BY BaseStarts, DeferralStarts, NoticeStarts DEF DeferralInv
<1>2. FromScene /\ DeferralInv /\ NoticeInv /\ [Next]_vars => DeferralInv' /\ NoticeInv'
  BY BaseStep, DeferralStep, NoticeStep DEF DeferralInv
<1>3. NoticeInv => OneNoticePerTopic
  BY DEF NoticeInv
<1>. QED BY <1>1, <1>2, <1>3, SceneStays, PTL DEF Spec

LEMMA Pairs ==
    ASSUME NEW x \in Deliveries, NEW y \in Deliveries
    PROVE  /\ x[1] \in Nat /\ x[1] >= 1 /\ x[2] \in Devices \cup {None}
           /\ x[1] = y[1] /\ x[2] = y[2] => x = y
BY DeliveryAssumption DEF Deliveries

\* A mark changes the status of its delivery and of no other.
LEMMA StatusMarked ==
    ASSUME RowsInv, NEW y \in Deliveries, NEW got \in MailStates, y[2] # None => got \in PushStates,
           Marked(y, got), NEW x \in Deliveries, x[1] <= Len(notes)
    PROVE  /\ Len(notes') = Len(notes)
           /\ Status(x)' = IF x = y THEN got ELSE Status(x)
<1>1. x[1] \in 1..Len(notes)
  BY Pairs, LenProperties DEF RowsInv
<1>2. notes[x[1]] \in NoticeRows /\ notes[x[1]].push \in [Devices -> PushStates]
  BY <1>1, NoteTyped DEF RowsInv
<1>3. CASE y[2] = None
  <2>3. PICK i : i = y[1]
    OBVIOUS
  <2>4. notes' = [notes EXCEPT ![i].email = got]
    BY <1>3, <2>3 DEF Marked
  <2>1. /\ Len(notes') = Len(notes)
        /\ notes'[x[1]] = IF x[1] = y[1] THEN [notes[x[1]] EXCEPT !.email = got] ELSE notes[x[1]]
    BY <1>1, <2>3, <2>4, EmailRewritten DEF RowsInv
  <2>2. /\ notes'[x[1]].email = IF x[1] = y[1] THEN got ELSE notes[x[1]].email
        /\ notes'[x[1]].push = notes[x[1]].push
    BY <1>2, <2>1 DEF NoticeRows
  <2>. QED BY <1>3, <2>1, <2>2, Pairs DEF Status
<1>4. CASE y[2] # None
  <2>1. PICK P : P = [notes[y[1]].push EXCEPT ![y[2]] = got]
    OBVIOUS
  <2>2. notes' = [notes EXCEPT ![y[1]].push = P]
    BY <1>4, <2>1 DEF Marked
  <2>3. y[1] \in 1..Len(notes) => P \in [Devices -> PushStates]
    BY <1>4, <2>1, NoteTyped DEF RowsInv
  <2>4. /\ Len(notes') = Len(notes)
        /\ notes'[x[1]] = IF x[1] = y[1] THEN [notes[x[1]] EXCEPT !.push = P] ELSE notes[x[1]]
    BY <1>1, <2>2, <2>3, PushRewritten DEF RowsInv
  <2>5. /\ notes'[x[1]].email = notes[x[1]].email
        /\ notes'[x[1]].push = IF x[1] = y[1] THEN P ELSE notes[x[1]].push
    BY <1>2, <2>4 DEF NoticeRows
  <2>7. CASE x[2] = None
    BY <1>4, <2>4, <2>5, <2>7 DEF Status
  <2>8. CASE x[2] # None
    <3>1. Status(x)' = notes'[x[1]].push[x[2]] /\ Status(x) = notes[x[1]].push[x[2]]
      BY <2>8 DEF Status
    <3>2. CASE x[1] = y[1]
      <4>1. P[x[2]] = IF x[2] = y[2] THEN got ELSE notes[x[1]].push[x[2]]
        BY <1>2, <1>4, <2>1, <2>8, <3>2, Pairs
      <4>. QED BY <2>4, <2>5, <3>1, <3>2, <4>1, Pairs
    <3>3. CASE x[1] # y[1]
      BY <2>4, <2>5, <3>1, <3>3
    <3>. QED BY <3>2, <3>3
  <2>. QED BY <2>7, <2>8
<1>. QED BY <1>3, <1>4

\* What counts of the endpoints is finite.
LEMMA SpentCounts ==
    ASSUME NEW S, NEW T, S \subseteq T, T \subseteq Endpoints
    PROVE  /\ Cardinality(S) \in Nat /\ Cardinality(T) \in Nat
           /\ Cardinality(S) <= Cardinality(T)
           /\ \A e \in T \ S : Cardinality(S) + 1 <= Cardinality(T)
<1>1. IsFiniteSet(T) /\ IsFiniteSet(S)
  BY EndpointsAssumption, FS_Subset
<1>2. ASSUME NEW e \in T \ S PROVE Cardinality(S) + 1 <= Cardinality(T)
  <2>1. IsFiniteSet(S \cup {e}) /\ Cardinality(S \cup {e}) = Cardinality(S) + 1
    BY <1>1, FS_AddElement
  <2>2. S \cup {e} \subseteq T
    OBVIOUS
  <2>. QED BY <1>1, <2>1, <2>2, FS_Subset
<1>. QED BY <1>1, <1>2, FS_Subset, FS_CardinalityType

\* The count of a delivery still holds when no more of it is sent, and nothing that
\* was past it comes to it again.
LEMMA BoundKept ==
    ASSUME NEW x, sent[x] \in Nat, faults \in Nat, Bound(x), sent'[x] = sent[x],
           \/ faults' = faults /\ (Served(x) => Served(x)')
           \/ faults' = faults + 1,
           Spent(x) \subseteq Spent(x)'
    PROVE  Bound(x)'
<1>1. Cardinality(Spent(x)) \in Nat /\ Cardinality(Spent(x)') \in Nat
      /\ Cardinality(Spent(x)) <= Cardinality(Spent(x)')
  <2>1. Spent(x)' \subseteq Endpoints
    BY DEF Spent
  <2>. QED BY <2>1, SpentCounts
<1>. QED BY <1>1 DEF Bound

\* One more is sent, by a pass that is past it then.
LEMMA BoundSent ==
    ASSUME NEW x, sent[x] \in Nat, faults \in Nat, Bound(x), sent'[x] = sent[x] + 1,
           faults' = faults,
           \/ ~Served(x) /\ Served(x)' /\ Spent(x) \subseteq Spent(x)'
           \/ /\ Served(x) => Served(x)'
              /\ \E e \in Spent(x)' : e \notin Spent(x)
              /\ Spent(x) \subseteq Spent(x)'
    PROVE  Bound(x)'
<1>1. Cardinality(Spent(x)) \in Nat /\ Cardinality(Spent(x)') \in Nat
      /\ Cardinality(Spent(x)) <= Cardinality(Spent(x)')
      /\ \A e \in Spent(x)' \ Spent(x) : Cardinality(Spent(x)) + 1 <= Cardinality(Spent(x)')
  <2>1. Spent(x)' \subseteq Endpoints
    BY DEF Spent
  <2>. QED BY <2>1, SpentCounts
<1>. QED BY <1>1 DEF Bound

LEMMA ActiveRuns ==
    ASSUME RunInv
    PROVE  /\ active # NoOne => active \in Callers /\ active \in Runners /\ active \notin Endpoints
           /\ \A p \in Runners : At(p, "send") \/ At(p, "mark") \/ At(p, "over") =>
                  p = active \/ (p \in Endpoints /\ p # active)
           /\ \A p \in Runners : p \in Callers \/ p \in Endpoints
  BY EndpointsAssumption, NoOneAssumption DEF RunInv, FlightInv, FlightTypeOK, Runners, At

\* A pass moves on: the others are where they were.
LEMMA OneSpends ==
    ASSUME RunInv, NEW p \in Runners, NEW next, Goes(p, next), NEW x,
           p \in Spent(x) => p \in Spent(x)'
    PROVE  /\ Spent(x) \subseteq Spent(x)'
           /\ \A q \in Runners \ {p} : Coming(q, x)' = Coming(q, x)
<1>1. \A q \in Runners \ {p} : job'[q] = job[q]
  BY PassGoes
<1>2. \A q \in Runners \ {p} : Coming(q, x)' = Coming(q, x)
  BY <1>1 DEF Coming, At
<1>3. \A q \in Endpoints \ {p} : q \in Spent(x) <=> q \in Spent(x)'
  BY <1>1, <1>2 DEF Spent, At, Runners
<1>4. Spent(x) \subseteq Endpoints
  BY DEF Spent
<1>. QED BY <1>2, <1>3, <1>4

LEMMA ListCounts ==
    ASSUME RowsInv, RunInv, SendInv, NEW p \in Runners, List(p)
    PROVE  SendInv'
<1>1. /\ UNCHANGED <<notes, work, faults, sent>> /\ active' = active /\ At(p, "begin")
      /\ sent \in [Deliveries -> Nat] /\ faults \in Nat
  BY DEF List, rows, flight, sends, SendInv, RunInv
<1>2. PICK s \in Listed \cup (IF p \in Endpoints THEN {{x} : x \in Pending} ELSE {}) :
         Goes(p, IF s = {} THEN [at |-> "over"] ELSE [at |-> "send", todo |-> s])
  BY DEF List
<1>3. s \subseteq Pending
  BY <1>2 DEF Listed
<1>4. PICK k : k = (IF s = {} THEN [at |-> "over"] ELSE [at |-> "send", todo |-> s]) /\ Goes(p, k)
  BY <1>2
<1>5. job'[p] = k /\ \A q \in Runners \ {p} : job'[q] = job[q]
  BY <1>4, PassGoes
<1>6. ~At(p, "unused")' /\ ~At(p, "begin")' /\ ~At(p, "mark")' /\ (At(p, "send")' => job'[p].todo = s)
  BY <1>4, <1>5 DEF At
<1>7. \A x : Coming(p, x)' => x \in s
  BY <1>6 DEF Coming
<1>8. Pending' = Pending
  BY <1>1 DEF Pending, Status
<1>9. ASSUME NEW x \in Deliveries PROVE Bound(x)'
  <2>1. p \notin Spent(x)
    BY <1>1 DEF Spent
  <2>2. /\ Spent(x) \subseteq Spent(x)'
        /\ \A q \in Runners \ {p} : Coming(q, x)' = Coming(q, x)
    BY <1>4, <2>1, OneSpends
  <2>3. Served(x) => Served(x)'
    <3>1. CASE p = active
      <4>1. ~At(active, "mark")
        BY <1>1, <3>1 DEF At
      <4>2. Served(x) => x \notin Pending
        BY <4>1 DEF Served
      <4>. QED BY <1>1, <1>3, <1>7, <1>8, <3>1, <4>2 DEF Served
    <3>2. CASE p # active
      <4>1. active # NoOne => job'[active] = job[active] /\ Coming(active, x)' = Coming(active, x)
        BY <1>1, <1>5, <2>2, <3>2, ActiveRuns
      <4>. QED BY <1>1, <1>8, <4>1 DEF Served, At
    <3>. QED BY <3>1, <3>2
  <2>. QED BY <1>1, <2>2, <2>3, BoundKept DEF SendInv
<1>10. \A q \in Runners : At(q, "send")' \/ At(q, "mark")' => \A x \in job'[q].todo : x[1] <= Len(notes')
  <2>1. \A x \in s : x[1] <= Len(notes)
    BY <1>3 DEF Pending
  <2>. QED BY <1>1, <1>5, <1>6, <2>1 DEF SendInv, At
<1>. QED BY <1>1, <1>9, <1>10 DEF SendInv

\* A pass goes over to the mark of y, which it has sent or will not send.
LEMMA ToMark ==
    ASSUME RowsInv, RunInv, SendInv, NEW p \in Runners, NEW y \in Deliveries, NEW got,
           At(p, "send"), y \in job[p].todo, To(p, y, got),
           UNCHANGED <<notes, work, faults, active>>
    PROVE  /\ \A q \in Runners : At(q, "send")' \/ At(q, "mark")' =>
                  \A x \in job'[q].todo : x[1] <= Len(notes')
           /\ Pending' = Pending
           /\ \A x \in Deliveries : Spent(x) \subseteq Spent(x)' /\ (Served(x) => Served(x)')
           /\ p = active => ~Served(y) /\ Served(y)'
           /\ p # active => p \in Spent(y)' /\ p \notin Spent(y)
           /\ y[1] <= Len(notes)
<1>1. PICK k : k = [at |-> "mark", todo |-> job[p].todo, item |-> y, got |-> got] /\ Goes(p, k)
  BY DEF To
<1>2. job'[p] = k /\ \A q \in Runners \ {p} : job'[q] = job[q]
  BY <1>1, PassGoes
<1>3. At(p, "mark")' /\ job'[p].todo = job[p].todo /\ job'[p].item = y
  BY <1>1, <1>2 DEF At
<1>4. Pending' = Pending
  BY DEF Pending, Status
<1>5. \A q \in Runners : At(q, "send")' \/ At(q, "mark")' => \A x \in job'[q].todo : x[1] <= Len(notes')
  BY <1>2, <1>3 DEF SendInv, At
<1>6. \A x : /\ Coming(p, x)' <=> x \in job[p].todo \ {y}
             /\ Coming(p, x) <=> x \in job[p].todo
  BY <1>3 DEF Coming, At
<1>7. ASSUME NEW x PROVE /\ Spent(x) \subseteq Spent(x)'
                         /\ \A q \in Runners \ {p} : Coming(q, x)' = Coming(q, x)
  <2>1. p \in Spent(x) => p \in Spent(x)'
    BY <1>3, <1>6 DEF Spent, At
  <2>. QED BY <1>1, <2>1, OneSpends
<1>8. ASSUME NEW x PROVE Served(x) => Served(x)'
  <2>1. CASE p = active
    <3>1. ~At(active, "mark") /\ active # NoOne
      BY <2>1, ActiveRuns, NoOneAssumption, EndpointsAssumption DEF At, Runners
    <3>. QED BY <1>4, <1>6, <2>1, <3>1 DEF Served
  <2>2. CASE p # active
    <3>1. active # NoOne => job'[active] = job[active] /\ Coming(active, x)' = Coming(active, x)
      BY <1>2, <1>7, <2>2, ActiveRuns
    <3>. QED BY <1>4, <3>1 DEF Served, At
  <2>. QED BY <2>1, <2>2
<1>9. ASSUME p = active PROVE ~Served(y) /\ Served(y)'
  <2>1. ~At(active, "mark") /\ active # NoOne
    BY <1>9, ActiveRuns, NoOneAssumption, EndpointsAssumption DEF At, Runners
  <2>2. Coming(active, y)
    BY <1>6, <1>9
  <2>3. At(active, "mark")' /\ job'[active].item = y
    BY <1>3, <1>9
  <2>. QED BY <2>1, <2>2, <2>3 DEF Served
<1>10. ASSUME p # active PROVE p \in Spent(y)' /\ p \notin Spent(y)
  BY <1>3, <1>6, <1>10, ActiveRuns DEF Spent, At
<1>. QED BY <1>4, <1>5, <1>7, <1>8, <1>9, <1>10 DEF SendInv

LEMMA SendCounts ==
    ASSUME RowsInv, RunInv, SendInv, work \in Workers, NEW p \in Runners, NEW y \in Deliveries,
           Refuse(p, y) \/ Send(p, y)
    PROVE  SendInv'
<1>1. /\ UNCHANGED <<notes, work, faults>> /\ active' = active /\ At(p, "send") /\ y \in job[p].todo
      /\ sent \in [Deliveries -> Nat] /\ faults \in Nat
      /\ \E got : To(p, y, got)
  BY DEF Refuse, Send, Next1, rows, flight, SendInv, RunInv
<1>2. /\ \A q \in Runners : At(q, "send")' \/ At(q, "mark")' =>
             \A x \in job'[q].todo : x[1] <= Len(notes')
      /\ Pending' = Pending
      /\ \A x \in Deliveries : Spent(x) \subseteq Spent(x)' /\ (Served(x) => Served(x)')
      /\ p = active => ~Served(y) /\ Served(y)'
      /\ p # active => p \in Spent(y)' /\ p \notin Spent(y)
      /\ y[1] <= Len(notes)
  BY <1>1, ToMark
<1>3. CASE sent' = sent
  <2>1. \A x \in Deliveries : Bound(x)'
    BY <1>1, <1>2, <1>3, BoundKept DEF SendInv
  <2>. QED BY <1>1, <1>2, <1>3, <2>1 DEF SendInv
<1>4. CASE Send(p, y)
  <2>1. sent' = [sent EXCEPT ![y] = sent[y] + 1]
    BY <1>4 DEF Send
  <2>2. /\ sent' \in [Deliveries -> Nat] /\ sent'[y] = sent[y] + 1
        /\ \A x \in Deliveries \ {y} : sent'[x] = sent[x]
    BY <1>1, <2>1
  <2>3. \A x \in Deliveries \ {y} : Bound(x)'
    BY <1>1, <1>2, <2>2, BoundKept DEF SendInv
  <2>4. Bound(y)'
    BY <1>1, <1>2, <2>2, BoundSent DEF SendInv
  <2>5. work \in {"push", "mail"}
    <3>1. job[p].at = "send" /\ work # "remind"
      BY <1>1, OffPlaces DEF At, RunInv, Runners, Idling, Passing, Dealing, Starting, Adding
    <3>. QED BY <3>1 DEF Workers
  <2>6. y[1] \in Int /\ Len(notes) \in Int /\ ~(y[1] > Len(notes))
    BY <1>2, Pairs, LenProperties DEF RowsInv
  <2>7. \A x \in Deliveries : x[1] > Len(notes') => sent'[x] = 0
    BY <1>1, <2>2, <2>6 DEF SendInv
  <2>. QED BY <1>1, <1>2, <2>2, <2>3, <2>4, <2>5, <2>7 DEF SendInv
<1>5. Refuse(p, y) => sent' = sent
  BY DEF Refuse, sends
<1>. QED BY <1>3, <1>4, <1>5

\* What the active pass is past stays so while others run.
LEMMA ServedStays ==
    ASSUME RunInv, NEW p, p # active, active' = active, \A q \in Runners \ {p} : job'[q] = job[q],
           NEW x, x \in Pending' => x \in Pending
    PROVE  Served(x) => Served(x)'
<1>1. PICK a : a = active /\ a = active'
  OBVIOUS
<1>2. a # NoOne => job'[a] = job[a]
  BY <1>1, ActiveRuns
<1>3. a # NoOne => Coming(a, x)' = Coming(a, x) /\ At(a, "mark")' = At(a, "mark")
  BY <1>2 DEF Coming, At
<1>. QED BY <1>1, <1>2, <1>3 DEF Served

\* A pass marks what it has sent, or finds its row gone.
LEMMA MarkCounts ==
    ASSUME RowsInv, RunInv, SendInv, NEW p \in Runners, Mark(p)
    PROVE  SendInv'
<1>1. PICK y : y = job[p].item
  OBVIOUS
<1>2. /\ At(p, "mark") /\ y \in Deliveries /\ job[p].got \in Results
      /\ job[p].got = "SKIPPED" => y[2] = None
      /\ UNCHANGED <<work, faults, sent>> /\ sent \in [Deliveries -> Nat] /\ faults \in Nat
      /\ job[p].todo \subseteq Deliveries
  <2>1. job[p] \in Places /\ job[p].at = "mark"
    BY DEF Mark, At, RunInv
  <2>2. UNCHANGED <<work, faults, sent>>
    BY DEF Mark, Throws, sends
  <2>. QED BY <1>1, <2>1, <2>2, PlacesApart DEF Marking, At, SendInv, RunInv
<1>3. \A x : Coming(p, x) <=> x \in job[p].todo \ {y}
  BY <1>1, <1>2 DEF Coming, At
<1>4. CASE Status(y) = "NONE"
  <2>1. notes' = notes /\ Throws(p) /\ Goes(p, Off)
    BY <1>1, <1>4 DEF Mark, Throws
  <2>2. job'[p] = Off /\ \A q \in Runners \ {p} : job'[q] = job[q]
    BY <2>1, PassGoes
  <2>3. At(p, "off")' /\ ~At(p, "send")' /\ ~At(p, "mark")' /\ ~At(p, "begin")' /\ ~At(p, "unused")'
    BY <2>2, OffPlaces DEF At
  <2>4. Pending' = Pending /\ y \notin Pending
    BY <1>2, <1>4, <2>1 DEF Pending, Status
  <2>5. ASSUME NEW x \in Deliveries PROVE Bound(x)'
    <3>1. p \in Spent(x) => p \in Spent(x)'
      BY <2>3 DEF Spent, Coming
    <3>2. /\ Spent(x) \subseteq Spent(x)'
          /\ \A q \in Runners \ {p} : Coming(q, x)' = Coming(q, x)
      BY <2>1, <3>1, OneSpends
    <3>3. Served(x) => Served(x)'
      <4>1. CASE p = active
        <5>1. active' = NoOne
          BY <2>1, <4>1 DEF Throws, ThrowAll
        <5>2. Served(x) => x \notin Pending
          BY <1>1, <2>4, <4>1 DEF Served
        <5>. QED BY <2>4, <5>1, <5>2 DEF Served
      <4>2. CASE p # active
        <5>1. active' = active
          BY <2>1, <4>2 DEF Throws, flight
        <5>. QED BY <2>2, <2>4, <4>2, <5>1, ServedStays
      <4>. QED BY <4>1, <4>2
    <3>. QED BY <1>2, <3>2, <3>3, BoundKept DEF SendInv
  <2>6. \A q \in Runners : At(q, "send")' \/ At(q, "mark")' => \A x \in job'[q].todo : x[1] <= Len(notes')
    BY <2>1, <2>2, <2>3 DEF SendInv, At
  <2>. QED BY <1>2, <2>1, <2>5, <2>6 DEF SendInv
<1>5. CASE Status(y) # "NONE"
  <2>1. PICK rest : rest = job[p].todo \ {y}
    OBVIOUS
  <2>2. PICK k : k = (IF rest = {} THEN [at |-> "over"] ELSE [at |-> "send", todo |-> rest]) /\ Goes(p, k)
    BY <1>1, <1>5, <2>1 DEF Mark
  <2>3. Marked(y, job[p].got) /\ active' = active
    BY <1>1, <1>5 DEF Mark, flight
  <2>4. PICK got : got = job[p].got /\ Marked(y, got)
    BY <2>3
  <2>5. got \in MailStates /\ (y[2] # None => got \in PushStates) /\ got # "PENDING"
    BY <1>2, <2>4 DEF Results, MailStates, PushStates
  <2>6. Len(notes') = Len(notes) /\ \A x \in Deliveries : x[1] <= Len(notes) =>
            Status(x)' = IF x = y THEN got ELSE Status(x)
    <3>1. Len(notes') = Len(notes)
      BY MarkedRows DEF SameTold
    <3>2. ASSUME NEW x \in Deliveries, x[1] <= Len(notes)
          PROVE  Len(notes') = Len(notes) /\ Status(x)' = IF x = y THEN got ELSE Status(x)
      <4>1. got \in MailStates /\ (y[2] # None => got \in PushStates)
        BY <2>5
      <4>. QED BY <1>2, <2>4, <3>2, <4>1, StatusMarked
    <3>. QED BY <3>1, <3>2
  <2>7. y \notin Pending' /\ \A x \in Deliveries : x # y => (x \in Pending' <=> x \in Pending)
    BY <1>2, <2>5, <2>6 DEF Pending
  <2>8. job'[p] = k /\ \A q \in Runners \ {p} : job'[q] = job[q]
    BY <2>2, PassGoes
  <2>9. /\ ~At(p, "mark")' /\ ~At(p, "begin")' /\ ~At(p, "unused")'
        /\ At(p, "send")' => job'[p].todo = rest
        /\ \A x : Coming(p, x)' <=> x \in rest
    BY <2>2, <2>8 DEF At, Coming
  <2>10. ASSUME NEW x \in Deliveries PROVE Bound(x)'
    <3>1. p \in Spent(x) => p \in Spent(x)'
      BY <1>3, <2>1, <2>9 DEF Spent
    <3>2. /\ Spent(x) \subseteq Spent(x)'
          /\ \A q \in Runners \ {p} : Coming(q, x)' = Coming(q, x)
      BY <2>2, <3>1, OneSpends
    <3>3. Coming(p, x)' <=> Coming(p, x)
      BY <1>3, <2>1, <2>9
    <3>4. Served(x) => Served(x)'
      <4>1. x \in Pending' => x \in Pending
        BY <2>7
      <4>2. CASE p # active
        BY <2>3, <2>8, <4>1, <4>2, ServedStays
      <4>3. CASE p = active
        <5>1. active = p /\ active' = p
          BY <2>3, <4>3
        <5>2. job[p].item = x => x = y
          BY <1>1
        <5>3. x = y => x \notin Pending' /\ ~Coming(p, x)'
          BY <2>1, <2>7, <2>9
        <5>. QED BY <3>3, <4>1, <5>1, <5>2, <5>3 DEF Served
      <4>. QED BY <4>2, <4>3
    <3>. QED BY <1>2, <3>2, <3>4, BoundKept DEF SendInv
  <2>11. \A q \in Runners : At(q, "send")' \/ At(q, "mark")' => \A x \in job'[q].todo : x[1] <= Len(notes')
    BY <1>2, <2>1, <2>6, <2>8, <2>9 DEF SendInv, At
  <2>. QED BY <1>2, <2>6, <2>10, <2>11 DEF SendInv
<1>. QED BY <1>4, <1>5

\* What starts and ends the passes.
LEMMA RunningCounts ==
    ASSUME FromScene, work \in Workers, RowsInv, RunInv, SendInv, FlightInv', Running, UNCHANGED sends
    PROVE  SendInv'
<1>1. /\ RunInv' /\ UNCHANGED <<notes, work, sent>> /\ sent \in [Deliveries -> Nat] /\ faults \in Nat
      /\ Pending' = Pending
  BY RunningKeeps DEF rows, sends, SendInv, RunInv, Pending, Status
<1>2. ASSUME \A q \in Runners : job'[q] = job[q] \/ (~At(q, "send")' /\ ~At(q, "mark")'),
             \A x \in Deliveries : /\ Spent(x) \subseteq Spent(x)'
                                   /\ faults' = faults + 1 \/ (faults' = faults /\ (Served(x) => Served(x)'))
      PROVE  SendInv'
  <2>1. \A x \in Deliveries : Bound(x)'
    BY <1>1, <1>2, BoundKept DEF SendInv
  <2>2. \A q \in Runners : At(q, "send")' \/ At(q, "mark")' => \A x \in job'[q].todo : x[1] <= Len(notes')
    BY <1>1, <1>2 DEF SendInv, At
  <2>. QED BY <1>1, <2>1, <2>2 DEF SendInv
<1>3. ASSUME \A e \in Endpoints : job'[e] = job[e], NEW x PROVE Spent(x) \subseteq Spent(x)'
  BY <1>3 DEF Spent, At, Coming
<1>4. ASSUME NEW c \in scene.callers, RunOnce(c) PROVE SendInv'
  <2>0. c \in Callers /\ c \in Runners /\ c \notin Endpoints /\ faults' = faults
    BY <1>4, ScenesAssumption, EndpointsAssumption DEF FromScene, Runners, RunOnce
  <2>1. CASE StartLoop(c) /\ Goes(c, Begun)
    <3>1. active = NoOne /\ active' = c /\ job'[c] = Begun /\ \A q \in Runners \ {c} : job'[q] = job[q]
      BY <2>0, <2>1, PassGoes DEF StartLoop
    <3>2. \A e \in Endpoints : job'[e] = job[e]
      BY <2>0, <3>1 DEF Runners
    <3>3. ~At(c, "send")' /\ ~At(c, "mark")'
      BY <3>1, OffPlaces DEF At
    <3>4. \A x \in Deliveries : Served(x) => Served(x)'
      BY <1>1, <3>1, <3>3 DEF Served, Coming
    <3>. QED BY <1>2, <1>3, <2>0, <3>1, <3>2, <3>3, <3>4
  <2>2. CASE QueueUp(c) /\ UNCHANGED job
    <3>1. active' = active /\ job' = job
      BY <2>2 DEF QueueUp
    <3>2. \A x \in Deliveries : Served(x) => Served(x)'
      BY <1>1, <3>1 DEF Served, Coming, At
    <3>. QED BY <1>2, <1>3, <2>0, <3>1, <3>2
  <2>. QED BY <1>4, <2>1, <2>2 DEF RunOnce
<1>5. CASE PassOver
  <2>1. /\ active \in Callers /\ active \notin Endpoints /\ active' \in Callers \cup {NoOne}
        /\ At(active, "over") /\ faults' = faults
        /\ \A q \in Runners : job'[q] = IF q = active' THEN Begun ELSE IF q = active THEN Off ELSE job[q]
    BY <1>1, <1>5, ActiveRuns DEF PassOver, RunInv, FlightInv, FlightTypeOK
  <2>2. \A e \in Endpoints : job'[e] = job[e]
    BY <2>1, EndpointsAssumption DEF Runners
  <2>3. \A q \in Runners : job'[q] = job[q] \/ (~At(q, "send")' /\ ~At(q, "mark")')
    BY <2>1, OffPlaces DEF At
  <2>4. PICK n : n = active'
    OBVIOUS
  <2>5. ASSUME NEW x \in Deliveries PROVE Served(x) => Served(x)'
    <3>1. n # NoOne => ~At(n, "send")' /\ ~At(n, "mark")'
      BY <2>1, <2>4, OffPlaces DEF At, Runners
    <3>2. n # NoOne => ~Coming(n, x)'
      BY <3>1 DEF Coming
    <3>3. ~At(active, "mark")
      BY <2>1 DEF At
    <3>. QED BY <1>1, <2>4, <3>2, <3>3 DEF Served
  <2>. QED BY <1>2, <1>3, <2>1, <2>2, <2>3, <2>5
<1>6. CASE Crash
  <2>1. faults' = faults + 1 /\ \A q \in Runners : job'[q] = IF At(q, "unused") THEN Unused ELSE Off
    BY <1>6 DEF Crash
  <2>2. \A q \in Runners : ~At(q, "send")' /\ ~At(q, "mark")'
    BY <2>1, OffPlaces DEF At
  <2>3. ASSUME NEW x, NEW e \in Endpoints, e \in Spent(x) PROVE e \in Spent(x)'
    <3>1. e \in Runners /\ ~At(e, "unused")
      BY <2>3 DEF Runners, Spent
    <3>2. job'[e] = Off
      BY <2>1, <3>1
    <3>. QED BY <3>2, OffPlaces DEF Spent, At, Coming
  <2>4. \A x : Spent(x) \subseteq Spent(x)'
    <3>1. ASSUME NEW x PROVE Spent(x) \subseteq Endpoints
      BY DEF Spent
    <3>. QED BY <2>3, <3>1
  <2>. QED BY <1>2, <2>1, <2>2, <2>4
<1>7. ASSUME NEW e \in Endpoints, RunForTenant(e) \/ TenantPassOver(e) PROVE SendInv'
  <2>1. PICK k \in {Begun, Off} : Goes(e, k) /\ (k = Begun => At(e, "unused"))
    <3>1. CASE RunForTenant(e)
      BY <3>1 DEF RunForTenant
    <3>2. CASE TenantPassOver(e)
      BY <3>2, OffPlaces DEF TenantPassOver
    <3>. QED BY <1>7, <3>1, <3>2
  <2>2. e \in Runners /\ active' = active /\ faults' = faults
    BY <1>7 DEF Runners, RunForTenant, TenantPassOver, flight
  <2>3. job'[e] = k /\ \A q \in Runners \ {e} : job'[q] = job[q]
    BY <2>1, <2>2, PassGoes
  <2>4. ~At(e, "send")' /\ ~At(e, "mark")' /\ (k = Off => ~At(e, "unused")' /\ ~At(e, "begin")')
    BY <2>1, <2>3, OffPlaces DEF At
  <2>5. ASSUME NEW x PROVE Spent(x) \subseteq Spent(x)' /\ (Served(x) => Served(x)')
    <3>1. e \in Spent(x) => e \in Spent(x)'
      BY <2>1, <2>4 DEF Spent, Coming
    <3>2. /\ Spent(x) \subseteq Spent(x)'
          /\ \A q \in Runners \ {e} : Coming(q, x)' = Coming(q, x)
      BY <2>1, <2>2, <3>1, OneSpends
    <3>3. e # active
      BY <1>7, <2>2, ActiveRuns, EndpointsAssumption DEF RunInv, FlightInv, FlightTypeOK
    <3>. QED BY <1>1, <2>2, <2>3, <3>2, <3>3, ServedStays
  <2>. QED BY <1>2, <2>2, <2>3, <2>4, <2>5
<1>. QED BY <1>4, <1>5, <1>6, <1>7 DEF Running

\* While no pass moves: what is queued anew has not been sent since.
LEMMA RestCounts ==
    ASSUME RowsInv, RunInv, SendInv, UNCHANGED passes, sent' \in [Deliveries -> Nat],
           Len(notes) <= Len(notes'), Len(notes') \in Nat,
           \A x \in Deliveries : \/ sent'[x] = 0
                                 \/ sent'[x] = sent[x] /\ (x \in Pending' => x \in Pending)
    PROVE  SendInv'
<1>1. UNCHANGED <<work, job, active, faults>> /\ faults \in Nat /\ Len(notes) \in Nat
  BY LenProperties DEF passes, flight, RunInv, RowsInv
<1>2. \A p, place : At(p, place)' = At(p, place)
  BY <1>1 DEF At
<1>3. \A p, x : Coming(p, x)' = Coming(p, x)
  BY <1>1, <1>2 DEF Coming
<1>4. ASSUME NEW x \in Deliveries PROVE Bound(x)'
  <2>1. Spent(x)' = Spent(x) /\ Spent(x) \subseteq Endpoints
    BY <1>2, <1>3 DEF Spent
  <2>2. Cardinality(Spent(x)') \in Nat
    BY <2>1, SpentCounts
  <2>3. CASE sent'[x] = 0
    BY <1>1, <2>2, <2>3 DEF Bound
  <2>4. CASE sent'[x] = sent[x] /\ (x \in Pending' => x \in Pending)
    <3>1. PICK a : a = active /\ a = active'
      BY <1>1
    <3>2. Coming(a, x)' = Coming(a, x) /\ At(a, "mark")' = At(a, "mark") /\ job'[a] = job[a]
      BY <1>1, <1>2, <1>3
    <3>3. Served(x) => Served(x)'
      BY <2>4, <3>1, <3>2 DEF Served
    <3>. QED BY <1>1, <2>1, <2>4, <3>3, BoundKept DEF SendInv
  <2>. QED BY <2>3, <2>4
<1>5. ASSUME NEW p \in Runners, At(p, "send")' \/ At(p, "mark")', NEW x \in job'[p].todo
      PROVE  x[1] <= Len(notes')
  <2>1. job[p] \in Places /\ job[p].at \in {"send", "mark"} /\ x \in job[p].todo
    BY <1>1, <1>5 DEF RunInv, At
  <2>2. x \in Deliveries /\ x[1] <= Len(notes)
    BY <2>1, PlacesApart DEF SendInv, Marking, At
  <2>. QED BY <1>1, <2>2, Pairs
<1>6. ASSUME NEW x \in Deliveries, x[1] > Len(notes') PROVE sent'[x] = 0
  BY <1>1, <1>6, Pairs DEF SendInv
<1>7. ASSUME NEW x \in Deliveries, work' \notin {"push", "mail"} PROVE sent'[x] = 0
  BY <1>1, <1>7 DEF SendInv
<1>. QED BY <1>4, <1>5, <1>6, <1>7 DEF SendInv

\* Settings queue new deliveries only with new notifications.
LEMMA SettingsCount ==
    ASSUME RowsInv, Settings, NEW x \in Deliveries, x[1] <= Len(notes), x \in Pending', work' = work
    PROVE  x \in Pending
<1>1. x[1] \in 1..Len(notes)
  BY Pairs, LenProperties DEF RowsInv
<1>2. PICK i : i = x[1]
  OBVIOUS
<1>3. ASSUME notes'[i] = notes[i] PROVE x \in Pending
  BY <1>1, <1>2, <1>3 DEF Pending, Status
<1>4. ASSUME NEW d \in Devices, NEW m \in Members, RegisterDevice(d, m, TRUE) PROVE x \in Pending
  BY <1>3, <1>4 DEF RegisterDevice
<1>5. ASSUME NEW m \in Members, Mute(m) PROVE x \in Pending
  BY <1>3, <1>5 DEF Mute
<1>6. CASE (\E m \in Members : SendTest(m)) \/ (\E d \in Devices : SendTargetedTest(d))
  BY <1>1, <1>2, <1>3, <1>6, DevicesSend DEF Added
<1>7. ASSUME NEW d \in Devices, DeleteDevice(d) PROVE x \in Pending
  <2>1. notes[i] \in NoticeRows /\ notes[i].push \in [Devices -> PushStates]
    BY <1>1, <1>2, NoteTyped DEF RowsInv
  <2>2. notes'[i] = [notes[i] EXCEPT !.push[d] = "NONE"]
    BY <1>1, <1>2, <1>7 DEF DeleteDevice
  <2>3. PICK P : P = [notes[i].push EXCEPT ![d] = "NONE"]
    OBVIOUS
  <2>4. notes'[i] = [notes[i] EXCEPT !.push = P]
    BY <2>2, <2>3
  <2>5. notes'[i].email = notes[i].email /\ notes'[i].push = P
    BY <2>1, <2>4 DEF NoticeRows
  <2>6. work = (IF x[2] = None THEN "mail" ELSE "push") /\ Status(x)' = "PENDING"
    BY <1>7 DEF Pending
  <2>7. Status(x)' = IF x[2] = None THEN notes'[i].email ELSE P[x[2]]
    BY <1>2, <2>5 DEF Status
  <2>8. x[2] # None => P[x[2]] = IF x[2] = d THEN "NONE" ELSE notes[i].push[x[2]]
    BY <2>1, <2>3, Pairs
  <2>9. Status(x) = "PENDING"
    BY <1>2, <2>5, <2>6, <2>7, <2>8 DEF Status
  <2>. QED BY <2>6, <2>9 DEF Pending
<1>. QED BY <1>4, <1>5, <1>6, <1>7 DEF Settings

\* What an administrator asks for again counts from then on.
LEMMA RetryCounts ==
    ASSUME RowsInv, SendInv, NEW i \in 1..MaxNotes, Retry(i)
    PROVE  /\ Len(notes') = Len(notes) /\ sent' \in [Deliveries -> Nat]
           /\ \A x \in Deliveries : \/ sent'[x] = 0
                                    \/ sent'[x] = sent[x] /\ (x \in Pending' => x \in Pending)
<1>1. PICK y \in Deliveries : Marked(y, "PENDING") /\ sent' = [sent EXCEPT ![y] = 0]
  <2>1. ASSUME NEW d \in Devices, RetryPush(i, d), sent' = [sent EXCEPT ![<<i, d>>] = 0]
        PROVE  \E y \in Deliveries : Marked(y, "PENDING") /\ sent' = [sent EXCEPT ![y] = 0]
    <3>1. PICK y : y = <<i, d>>
      OBVIOUS
    <3>2. y \in Deliveries /\ y[1] = i /\ y[2] = d /\ y[2] # None
      BY <3>1, NoneAssumption DEF Deliveries
    <3>3. Marked(y, "PENDING")
      BY <2>1, <3>2 DEF RetryPush, Marked
    <3>. QED BY <2>1, <3>1, <3>2, <3>3
  <2>2. ASSUME RetryEmail(i), sent' = [sent EXCEPT ![<<i, None>>] = 0]
        PROVE  \E y \in Deliveries : Marked(y, "PENDING") /\ sent' = [sent EXCEPT ![y] = 0]
    <3>1. PICK y : y = <<i, None>>
      OBVIOUS
    <3>2. y \in Deliveries /\ y[1] = i /\ y[2] = None
      BY <3>1 DEF Deliveries
    <3>3. Marked(y, "PENDING")
      BY <2>2, <3>2 DEF RetryEmail, Marked
    <3>. QED BY <2>2, <3>1, <3>2, <3>3
  <2>. QED BY <2>1, <2>2 DEF Retry
<1>2. sent \in [Deliveries -> Nat]
  BY DEF SendInv
<1>3. sent' \in [Deliveries -> Nat] /\ \A x \in Deliveries : sent'[x] = IF x = y THEN 0 ELSE sent[x]
  BY <1>1, <1>2
<1>4. Len(notes') = Len(notes) /\ work' = work
  <2>1. SameTold
    <3>1. ASSUME NEW d \in Devices, RetryPush(i, d) PROVE SameTold
      BY <3>1, OnePush DEF RetryPush, RowsInv, PushStates
    <3>2. CASE RetryEmail(i)
      BY <3>2, EmailSame DEF RetryEmail, RowsInv, MailStates
    <3>. QED BY <3>1, <3>2 DEF Retry
  <2>. QED BY <2>1 DEF Retry, passes, SameTold
<1>5. ASSUME NEW x \in Deliveries, x # y, x \in Pending' PROVE x \in Pending
  <2>1. x[1] <= Len(notes)
    BY <1>4, <1>5 DEF Pending
  <2>2. "PENDING" \in MailStates /\ "PENDING" \in PushStates
    BY DEF MailStates, PushStates
  <2>3. Status(x)' = Status(x)
    BY <1>1, <1>5, <2>1, <2>2, StatusMarked
  <2>. QED BY <1>4, <1>5, <2>1, <2>3 DEF Pending
<1>. QED BY <1>3, <1>4, <1>5

LEMMA SendStarts == Init => SendInv
<1>. SUFFICES ASSUME Init PROVE SendInv
  OBVIOUS
<1>1. /\ sent = [x \in Deliveries |-> 0] /\ faults = 0
      /\ job = [p \in Runners |-> IF p \in Endpoints THEN Unused ELSE Off]
  BY DEF Init, PassesInit, DeliveryInit
<1>2. \A p \in Runners : ~At(p, "send") /\ ~At(p, "mark")
  BY <1>1, OffPlaces DEF At
<1>3. ASSUME NEW x \in Deliveries PROVE Bound(x)
  <2>1. Spent(x) \subseteq Endpoints
    BY DEF Spent
  <2>2. Cardinality(Spent(x)) \in Nat
    BY <2>1, SpentCounts
  <2>. QED BY <1>1, <2>2 DEF Bound
<1>. QED BY <1>1, <1>2, <1>3 DEF SendInv

LEMMA SendStep ==
    ASSUME FromScene, BaseInv, BaseInv', SendInv, [Next]_vars
    PROVE  SendInv'
<1>. USE DEF BaseInv
<1>1. sent \in [Deliveries -> Nat] /\ Len(notes) \in Nat /\ Len(notes') \in Nat
  BY LenProperties DEF SendInv, RowsInv
<1>2. CASE Running /\ work \in Workers /\ UNCHANGED sends
  BY <1>2, RunningCounts DEF RunInv
<1>3. ASSUME NEW p \in Runners, DeliveryStep(p), work \in Workers PROVE SendInv'
  BY <1>3, ListCounts, MarkCounts, SendCounts DEF DeliveryStep
<1>4. ASSUME NEW p \in Runners, ReminderStep(p), UNCHANGED sends PROVE SendInv'
  <2>1. work = "remind" /\ UNCHANGED <<work, faults>> /\ faults \in Nat
    BY <1>4, ReminderBase DEF RunInv
  <2>2. \A x \in Deliveries : sent'[x] = 0
    BY <1>4, <2>1 DEF SendInv, sends
  <2>3. \A q \in Runners : ~At(q, "send")' /\ ~At(q, "mark")'
    <3>1. \A q \in Runners : job'[q] \in Idling \cup Passing \cup {Unused}
      BY <2>1 DEF RunInv, Runners
    <3>. QED BY <3>1, OffPlaces DEF At, Idling, Passing, Dealing, Starting, Adding
  <2>4. ASSUME NEW x \in Deliveries PROVE Bound(x)'
    <3>1. Spent(x)' \subseteq Endpoints
      BY DEF Spent
    <3>2. Cardinality(Spent(x)') \in Nat
      BY <3>1, SpentCounts
    <3>. QED BY <2>1, <2>2, <3>2 DEF Bound
  <2>. QED BY <1>1, <1>4, <2>2, <2>3, <2>4 DEF SendInv, sends
<1>5. CASE Requests
  <2>1. UNCHANGED passes /\ UNCHANGED <<work, booked>>
    BY <1>5 DEF Requests, passes
  <2>2. CASE Settings
    <3>1. sent' = sent /\ Heard
      BY <2>1, <2>2, SettingsRows DEF Settings, sends
    <3>2. Len(notes) <= Len(notes')
      BY <1>1, <3>1 DEF Heard, SameTold, Added
    <3>3. ASSUME NEW x \in Deliveries
          PROVE  sent'[x] = 0 \/ (sent'[x] = sent[x] /\ (x \in Pending' => x \in Pending))
      <4>1. CASE x[1] <= Len(notes)
        BY <2>1, <2>2, <3>1, <4>1, SettingsCount
      <4>2. CASE x[1] > Len(notes)
        BY <3>1, <4>2 DEF SendInv
      <4>. QED BY <1>1, <4>1, <4>2, Pairs
    <3>. QED BY <1>1, <2>1, <3>1, <3>2, <3>3, RestCounts
  <2>3. CASE Home
    <3>1. UNCHANGED <<notes, sent>>
      BY <2>3 DEF Home, Midnight, ChoreGoesOn, HolidayCall, CreateRead, CreateWrite, DeleteRead,
         DeleteWrite, EndRead, EndWrite, rows, sends
    <3>2. Pending' = Pending
      BY <2>1, <3>1 DEF Pending, Status
    <3>. QED BY <1>1, <2>1, <3>1, <3>2, RestCounts
  <2>4. ASSUME NEW i \in 1..MaxNotes, Retry(i) PROVE SendInv'
    BY <1>1, <2>1, <2>4, RetryCounts, RestCounts
  <2>. QED BY <1>5, <2>2, <2>3, <2>4 DEF Requests
<1>6. CASE Board \/ UNCHANGED vars
  <2>1. UNCHANGED passes /\ UNCHANGED <<notes, sent>> /\ work' = work
    BY <1>6 DEF Board, vars, rows, passes, sends
  <2>2. Pending' = Pending
    BY <2>1 DEF Pending, Status
  <2>. QED BY <1>1, <2>1, <2>2, RestCounts
<1>. QED BY <1>2, <1>3, <1>4, <1>5, <1>6 DEF Next, Worker, Running

\* Whatever passes overlap and whatever ends the process between a send and its
\* mark: a delivery is sent once for each time it is queued, and once more at most
\* for each end of the process and each tenant pass beside the worker's own.
THEOREM SendsAccounted == Spec => []EverySendAccounted
<1>1. Init => BaseInv /\ SendInv
  BY BaseStarts, SendStarts
<1>2. FromScene /\ (BaseInv /\ SendInv) /\ [Next]_vars => (BaseInv /\ SendInv)'
  BY BaseStep, SendStep
<1>3. BaseInv /\ SendInv => EverySendAccounted
  <2>. SUFFICES ASSUME BaseInv, SendInv, NEW x \in Deliveries
                PROVE  sent[x] <= 1 + faults + Cardinality({e \in Endpoints : ~At(e, "unused")})
    BY DEF EverySendAccounted
  <2>1. PICK T : T = {e \in Endpoints : ~At(e, "unused")}
    OBVIOUS
  <2>2. Spent(x) \subseteq T /\ T \subseteq Endpoints
    BY <2>1 DEF Spent
  <2>3. /\ Cardinality(Spent(x)) \in Nat /\ Cardinality(T) \in Nat
        /\ Cardinality(Spent(x)) <= Cardinality(T)
    BY <2>2, SpentCounts
  <2>4. Bound(x) /\ sent[x] \in Nat /\ faults \in Nat
    BY DEF SendInv, BaseInv, RunInv
  <2>. QED BY <2>1, <2>3, <2>4 DEF Bound
<1>. QED BY <1>1, <1>2, <1>3, SceneStays, PTL DEF Spec
================================================================================
