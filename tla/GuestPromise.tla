---------------------------- MODULE GuestPromise ----------------------------
(***************************************************************************)
(* What a guest promises its host: it gets ready, answers the batches it   *)
(* takes one by one, and ends with one verdict, or silently; it says       *)
(* nothing after that. When a write fails it may only give up, and takes   *)
(* back its completion if it was that it could not write without an error. *)
(***************************************************************************)
EXTENDS Naturals

VARIABLES
    phase,      (* "new", "ready", "completed", "retracted", "failed" or     *)
                (* "silent"                                                  *)
    taken,      (* batches taken                                             *)
    answered,   (* batches answered                                          *)
    broken      (* a write has failed                                        *)

vars == <<phase, taken, answered, broken>>

Init == phase = "new" /\ taken = 0 /\ answered = 0 /\ broken = FALSE

GetReady ==
    /\ phase = "new" /\ phase' = "ready"
    /\ UNCHANGED <<taken, answered>>

Take ==
    /\ phase = "ready" /\ taken = answered
    /\ taken' = taken + 1
    /\ UNCHANGED <<phase, answered>>

Answer ==
    /\ phase = "ready" /\ answered < taken
    /\ answered' = answered + 1
    /\ UNCHANGED <<phase, taken>>

Complete ==
    /\ phase = "ready" /\ answered = taken
    /\ phase' = "completed"
    /\ UNCHANGED <<taken, answered>>

GiveUp ==
    /\ phase \in {"new", "ready"} /\ phase' \in {"failed", "silent"}
    /\ UNCHANGED <<taken, answered>>

Retract ==
    /\ phase = "completed" /\ phase' = "retracted"
    /\ UNCHANGED <<taken, answered>>

(* A write that fails may have been any, or have had no effect.              *)
Next ==
    \/ ~broken /\ (GetReady \/ Answer \/ Complete) /\ broken' \in BOOLEAN
    \/ ~broken /\ Take /\ UNCHANGED broken
    \/ GiveUp /\ broken' \in {broken, TRUE}
    \/ broken /\ Retract /\ UNCHANGED broken
    \/ broken' = TRUE /\ UNCHANGED <<phase, taken, answered>>

Spec == Init /\ [][Next]_vars
=============================================================================
