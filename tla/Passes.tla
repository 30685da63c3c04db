--------------------------------- MODULE Passes ---------------------------------
(***************************************************************************)
(* The passes of a background worker: what runOnce does around runInternal, *)
(* and the passes that endpoints run for one tenant or one delivery, which *)
(* go past the single flight.  What a pass does, step by step, is in       *)
(* Delivery and Reminders; `work` says which of the workers this is.       *)
(***************************************************************************)
EXTENDS SingleFlight, Notices

CONSTANTS Endpoints,    \* runOnceForTenant and runOnceForDelivery calls
          MaxFaults     \* bound: how often the process may end

\* The endpoints make their passes beside the callers of runOnce.
ASSUME EndpointsAssumption ==
    Endpoints \cap (Callers \cup {NoOne}) = {} /\ IsFiniteSet(Endpoints)

VARIABLES work,         \* which worker: "push", "mail" or "remind"
          job,          \* where the pass of each caller is
          faults

passes == <<flight, work, job, faults>>

Runners == Callers \cup Endpoints

Off == [at |-> "off"]           \* no pass
Unused == [at |-> "unused"]     \* an endpoint call still to come
Begun == [at |-> "begin"]       \* runInternal is called

PassesInit ==
    /\ FlightInit
    /\ job = [p \in Runners |-> IF p \in Endpoints THEN Unused ELSE Off]
    /\ faults = 0

At(p, place) == job[p].at = place
Goes(p, next) == job' = [job EXCEPT ![p] = next]

\* runOnce: a loop of one's own, or a place in the line.
RunOnce(c) ==
    /\ \/ StartLoop(c) /\ Goes(c, Begun)
       \/ QueueUp(c) /\ UNCHANGED job
    /\ UNCHANGED <<rows, work, faults>>

\* The running loop's pass is over: it goes round, or hands over.
PassOver ==
    /\ active # NoOne /\ At(active, "over")
    /\ GoRound \/ HandOver
    /\ job' = [p \in Runners |-> IF p = active' THEN Begun
                                ELSE IF p = active THEN Off ELSE job[p]]
    /\ UNCHANGED <<rows, work, faults>>

\* An endpoint runs a pass for its tenant, beside whatever runs.
RunForTenant(e) ==
    /\ work # "remind" /\ At(e, "unused")
    /\ Goes(e, Begun)
    /\ UNCHANGED <<rows, flight, work, faults>>
TenantPassOver(e) ==
    /\ e \in Endpoints /\ At(e, "over")
    /\ Goes(e, Off)
    /\ UNCHANGED <<rows, flight, work, faults>>

\* The pass of p throws: with it goes everybody behind it.
Throws(p) ==
    /\ IF p = active THEN ThrowAll ELSE UNCHANGED flight
    /\ Goes(p, Off)
    /\ UNCHANGED <<work, faults>>

\* The process ends and is started again: the workers' memory is gone.
Crash ==
    /\ faults < MaxFaults
    /\ faults' = faults + 1
    /\ IF active = NoOne THEN UNCHANGED flight ELSE ThrowAll
    /\ job' = [p \in Runners |-> IF At(p, "unused") THEN Unused ELSE Off]
    /\ UNCHANGED <<rows, work>>
=================================================================================
