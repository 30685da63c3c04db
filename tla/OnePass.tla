-------------------------------- MODULE OnePass --------------------------------
(***************************************************************************)
(* What a background worker promises to those that ask it to run: passes   *)
(* never overlap, and whoever asked is answered only when a whole pass     *)
(* made for it, after the question, has ended, or when a pass has thrown.  *)
(***************************************************************************)
CONSTANT Callers
VARIABLES want,     \* callers that have asked and not been answered
          heard,    \* callers that the running pass is made for; {}: none runs
          ready,    \* callers for whom a whole pass has ended
          thrown    \* whether the last answer was an error

vars == <<want, heard, ready, thrown>>

Init == want = {} /\ heard = {} /\ ready = {} /\ thrown = FALSE

\* A caller asks; a pass begins at once if none is running.
Ask(c) ==
    /\ c \in Callers \ want
    /\ want' = want \cup {c}
    /\ heard' = IF heard = {} THEN {c} ELSE heard
    /\ UNCHANGED <<ready, thrown>>

\* The pass ends; some of those that are served are answered, and another pass,
\* for some of those that still wait, may begin in the same breath.
End ==
    /\ heard # {}
    /\ \E answered \in SUBSET (ready \cup heard) :
        /\ want' = want \ answered
        /\ ready' = (ready \cup heard) \ answered
        /\ thrown' = (thrown /\ answered = {})
    /\ heard' \subseteq want'

\* The pass throws, and so does the answer to everybody that waits.
Fail == heard # {} /\ want' = {} /\ heard' = {} /\ ready' = {} /\ thrown' = TRUE

Next == (\E c \in Callers : Ask(c)) \/ End \/ Fail
Spec == Init /\ [][Next]_vars
================================================================================
