--------------------------- MODULE SessionPromise ---------------------------
(***************************************************************************)
(* What a runner protocol session promises the guest, without pipes,       *)
(* mutexes, buffers or stale responses: the host's inputs come out of Next *)
(* as out of a queue, but for those that the decoder refused, and          *)
(* capability calls are remote calls made one after the other, each of     *)
(* which ends at most once, with its answer or without.                    *)
(***************************************************************************)
EXTENDS Integers

CONSTANTS InputCount, MaxRequests

VARIABLES
    produced,   (* inputs the host has sent                                  *)
    consumed,   (* the last input Next has handed to the guest               *)
    refused,    (* inputs that an operation returned an error for            *)
    issued,     (* ID of the last request                                    *)
    open,       (* the request of the call under way                         *)
    answered    (* requests whose call returned their answer                 *)

inputs == <<produced, consumed, refused>>
calls == <<issued, open, answered>>
vars == <<inputs, calls>>

Init ==
    /\ produced = 0 /\ consumed = 0 /\ refused = {}
    /\ issued = 0 /\ open = {} /\ answered = {}

Produce ==
    /\ produced < InputCount
    /\ produced' = produced + 1
    /\ UNCHANGED <<consumed, refused, calls>>

(* The next input that was not refused.                                      *)
Consume ==
    /\ consumed' \in (consumed + 1 .. produced) \ refused
    /\ consumed + 1 .. consumed' - 1 \subseteq refused
    /\ UNCHANGED <<produced, refused, calls>>

(* An input still to come is refused and never comes; if a call is under     *)
(* way, it is the call that read it, and it ends.                            *)
Refuse ==
    /\ \E n \in (consumed + 1 .. produced) \ refused : refused' = refused \cup {n}
    /\ open' = {}
    /\ UNCHANGED <<produced, consumed, issued, answered>>

Issue ==
    /\ open = {}
    /\ issued < MaxRequests
    /\ issued' = issued + 1
    /\ open' = {issued + 1}
    /\ UNCHANGED <<inputs, answered>>

Answer ==
    /\ open # {}
    /\ answered' = answered \cup open
    /\ open' = {}
    /\ UNCHANGED <<inputs, issued>>

GiveUp ==
    /\ open # {}
    /\ open' = {}
    /\ UNCHANGED <<inputs, issued, answered>>

Next == Produce \/ Consume \/ Refuse \/ Issue \/ Answer \/ GiveUp

Spec == Init /\ [][Next]_vars
=============================================================================
