------------------------------ MODULE SingleFlight ------------------------------
(***************************************************************************)
(* The single flight that the reminder, push and e-mail workers of the     *)
(* server share: runOnce starts a pass, or asks the running loop for       *)
(* another one and queues behind it.                                       *)
(*                                                                         *)
(* Everything between two passes is microtasks: the runner's finally, then *)
(* the queued callers in the order of their then(), the first of which     *)
(* starts the next loop and the others ask it to go round again.  So the   *)
(* change of runner is one step.                                           *)
(***************************************************************************)
EXTENDS Naturals, Sequences

CONSTANTS Callers,      \* the interval timer and the endpoints that call runOnce
          NoOne         \* null

ASSUME NoOneAssumption == NoOne \notin Callers

VARIABLES active,       \* activeRun: the caller whose loop is running
          line,         \* callers behind activeRun.then, in order
          rerun,        \* rerunRequested
          heard,        \* history: for whose options the running pass is made
          ready,        \* history: for whom a whole pass has ended
          thrown        \* history: whether the last answer was an error

flight == <<active, line, rerun, heard, ready, thrown>>

Waiting == {line[i] : i \in 1..Len(line)}
Wanting == Waiting \cup ({active} \ {NoOne})

FlightTypeOK ==
    /\ active \in Callers \cup {NoOne}
    /\ line \in Seq(Callers)
    /\ rerun \in BOOLEAN
    /\ heard \subseteq Callers
    /\ ready \subseteq Callers
    /\ thrown \in BOOLEAN

FlightInit ==
    /\ active = NoOne
    /\ line = <<>>
    /\ rerun = FALSE
    /\ heard = {}
    /\ ready = {}
    /\ thrown = FALSE

\* runOnce of caller c while no loop is running: its own loop begins.
\* (StartBeside: as if it did not look whether one is.)
StartBeside(c) ==
    /\ active # c
    /\ active' = c
    /\ rerun' = FALSE
    /\ heard' = {c}
    /\ UNCHANGED <<line, ready, thrown>>
StartLoop(c) ==
    /\ active = NoOne
    /\ active' = c
    /\ rerun' = FALSE
    /\ heard' = {c}
    /\ UNCHANGED <<line, ready, thrown>>

\* runOnce of caller c beside a running loop: another pass is asked for, and c
\* runs again when the loop has ended.
QueueUp(c) ==
    /\ active # NoOne
    /\ c \notin Wanting
    /\ rerun' = TRUE
    /\ line' = Append(line, c)
    /\ UNCHANGED <<active, heard, ready, thrown>>

\* A pass has ended and another one was asked for meanwhile; it is made with the
\* options of the caller whose loop this is.
GoRound ==
    /\ active # NoOne /\ rerun
    /\ rerun' = FALSE
    /\ ready' = ready \cup heard
    /\ UNCHANGED <<active, line, heard, thrown>>

\* The loop has ended: its caller is answered, the first in line starts a loop
\* of its own, and the rest of the line asks that loop for one more pass.
\* (AnswerAll: as if the callers in line shared the result of the loop.)
AnswerAll ==
    /\ active # NoOne /\ ~rerun
    /\ active' = NoOne
    /\ line' = <<>>
    /\ heard' = {}
    /\ ready' = {}
    /\ thrown' = FALSE
    /\ UNCHANGED rerun
HandOver ==
    /\ active # NoOne /\ ~rerun
    /\ active' = IF line = <<>> THEN NoOne ELSE Head(line)
    /\ line' = IF line = <<>> THEN line ELSE Tail(line)
    /\ rerun' = (Len(line) > 1)
    /\ heard' = {active'} \ {NoOne}
    /\ ready' = (ready \cup heard) \ {active}
    /\ thrown' = FALSE

\* A pass throws: its caller and the whole line are rejected.
ThrowAll ==
    /\ active # NoOne
    /\ active' = NoOne
    /\ line' = <<>>
    /\ heard' = {}
    /\ ready' = {}
    /\ thrown' = TRUE
    /\ UNCHANGED rerun

FlightNext ==
    \/ \E c \in Callers : StartLoop(c) \/ QueueUp(c)
    \/ GoRound \/ HandOver \/ ThrowAll

FlightSpec == FlightInit /\ [][FlightNext]_flight

Promise == INSTANCE OnePass WITH want <- Wanting

\* However the questions fall between the passes, passes do not overlap and
\* nobody is answered before a whole pass made for it after the question.
ServedAfresh == Promise!Spec
=================================================================================
