----------------------------- MODULE AbstractWait -----------------------------
(***************************************************************************)
(* What a wait promises its caller: it may give up at any time, but it     *)
(* reports success only after it has sighted the object in one of the      *)
(* states it was asked to wait for, and it reports once.                   *)
(***************************************************************************)
CONSTANTS Waits,    \* the waits a caller can ask for
          Truths,   \* the states the object can be in
          Goal      \* those each of the waits waits for
VARIABLES wait,     \* the wait asked for
          truth,    \* the state the object is in
          sighted,  \* the state the latest sighting found, or "none"
          verdict   \* "none", "ok" or "error"

vars == <<wait, truth, sighted, verdict>>

Init == /\ wait \in Waits
        /\ truth \in Truths
        /\ sighted = "none"
        /\ verdict = "none"

ObjectMoves == /\ truth' \in Truths
               /\ UNCHANGED <<wait, sighted, verdict>>

Sight == /\ verdict = "none"
         /\ sighted' = truth
         /\ UNCHANGED <<wait, truth, verdict>>

Succeed == /\ verdict = "none"
           /\ sighted \in Goal[wait]
           /\ verdict' = "ok"
           /\ UNCHANGED <<wait, truth, sighted>>

GiveUp == /\ verdict = "none"
          /\ verdict' = "error"
          /\ UNCHANGED <<wait, truth, sighted>>

Next == ObjectMoves \/ Sight \/ Succeed \/ GiveUp
Spec == Init /\ [][Next]_vars
=============================================================================
