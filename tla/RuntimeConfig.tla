------------------------------ MODULE RuntimeConfig ------------------------------
(***************************************************************************)
(* What a hosted household may do is kept by a control plane.  The server  *)
(* asks it when its copy has expired, and falls back on the expired copy   *)
(* for a while when the control plane cannot be reached.  Calls ask beside *)
(* each other, an answer may be long on the way, and the plan may change   *)
(* meanwhile.  On a server that is not hosted everything is allowed.       *)
(***************************************************************************)
EXTENDS Naturals

CONSTANTS Clients,        \* calls, numbered in the order in which they begin
          Plans,          \* what the control plane may say: [standing, seats]
          TTL,            \* hostedRuntimeConfigCacheTtlMs, in ticks
          Window,         \* hostedRuntimeConfigStaleCacheWindowMs, in ticks
          LastTick        \* bound of the clock

ASSUME RuntimeConfigAssumption == TTL \in Nat /\ Window \in Nat /\ LastTick \in Nat /\ Clients \subseteq Nat

VARIABLES hosted,     \* hostedModeEnabled; never changes
          now,
          plan,       \* what the control plane says now
          cached,     \* the tenant's entry of the cache, or NoEntry
          load        \* Clients -> where its question is

runtime == <<hosted, now, plan, cached, load>>

NoEntry == [expires |-> 0]
Unasked == [at |-> "none"]

\* The plan as it was at some time.
AsOf(p, t) == [plan |-> p, asOf |-> t]
Has(c, value, started) ==
    load' = [load EXCEPT ![c] = [at |-> "has", value |-> value, started |-> started,
                                 decided |-> now]]
Unavailable(c) == load' = [load EXCEPT ![c] = [at |-> "unavailable"]]

RuntimeTypeOK ==
    /\ now \in 0..LastTick
    /\ plan \in Plans
    /\ cached # NoEntry => cached.value.plan \in Plans /\ cached.value.asOf \in 0..now
    /\ \A c \in Clients : load[c].at \in {"none", "asking", "coming", "has", "unavailable"}

RuntimeInit ==
    /\ now = 0
    /\ cached = NoEntry
    /\ load = [c \in Clients |-> Unasked]

\* getTenantRuntimeConfig: a copy that has not expired is used.  Else the control
\* plane is asked, and the copy is kept at hand.
Look(c) ==
    /\ load[c] = Unasked
    /\ IF ~hosted THEN Has(c, "self_hosted", now)
       ELSE IF cached # NoEntry /\ cached.expires > now THEN Has(c, cached.value, now)
       ELSE load' = [load EXCEPT ![c] = [at |-> "asking", started |-> now, copy |-> cached]]
    /\ UNCHANGED <<hosted, now, plan, cached>>

\* The control plane answers with its plan; the answer travels.
Answer(c) ==
    /\ load[c].at = "asking"
    /\ load' = [load EXCEPT ![c] = [at |-> "coming", started |-> @.started, copy |-> @.copy,
                                    value |-> AsOf(plan, now)]]
    /\ UNCHANGED <<hosted, now, plan, cached>>

\* It arrives and is stored, for as long as if it had come at once.
\* (StoreLate: as if the time of its arrival counted.)
StoreLate(c) ==
    /\ load[c].at = "coming"
    /\ cached' = [value |-> load[c].value, expires |-> now + TTL]
    /\ Has(c, load[c].value, load[c].started)
    /\ UNCHANGED <<hosted, now, plan>>
Store(c) ==
    /\ load[c].at = "coming"
    /\ cached' = [value |-> load[c].value, expires |-> load[c].started + TTL]
    /\ Has(c, load[c].value, load[c].started)
    /\ UNCHANGED <<hosted, now, plan>>

\* It cannot be reached, or answers with an error: the copy is used that was at hand
\* when it was asked, unless it expired too long ago.
FallBack(c) ==
    /\ load[c].at \in {"asking", "coming"}
    /\ LET copy == load[c].copy
       IN IF copy # NoEntry /\ now >= copy.expires /\ now - copy.expires <= Window
          THEN Has(c, copy.value, load[c].started) ELSE Unavailable(c)
    /\ UNCHANGED <<hosted, now, plan, cached>>

Tick == hosted /\ now < LastTick /\ now' = now + 1 /\ UNCHANGED <<hosted, plan, cached, load>>
ChangePlan ==
    /\ hosted /\ plan' \in Plans \ {plan}
    /\ UNCHANGED <<hosted, now, cached, load>>

RuntimeNext == Tick \/ ChangePlan \/ \E c \in Clients : Look(c) \/ Answer(c) \/ Store(c) \/ FallBack(c)

\* The decisions on what was found; a decision uses the question up.
Found(c) == load[c].at = "has"
CanAct(c) == ~hosted \/ load[c].value.plan.standing # "suspended"
CanSignIn(c) == ~hosted \/ load[c].value.plan.standing = "active"
RoomFor(c, count) == ~hosted \/ count < load[c].value.plan.seats
Used(c) == load' = [load EXCEPT ![c] = Unasked]

\* What a decision goes by was the plan at most TTL before the call asked, or, when
\* the control plane failed, at most TTL + Window before it decided: answers that
\* overtake each other and late ones do not stretch that.
PlanRecent ==
    \A c \in Clients : hosted /\ Found(c) =>
        LET found == load[c]
        IN \/ found.value.asOf + TTL >= found.started
           \/ found.value.asOf + TTL + Window >= found.decided
==================================================================================
