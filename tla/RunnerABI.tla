------------------------------ MODULE RunnerABI ------------------------------
(* What the rules on messages, batches and packages have in common: a string *)
(* is NoText or some text, a part of a document may be left out, and sizes   *)
(* count in the units of the limits.                                         *)
EXTENDS Integers, Sequences

CONSTANTS
    NoText,             (* the empty string                                  *)
    Nil,                (* a part that is not there                          *)
    ABIVersion          (* the protocol this build speaks                    *)

Given(texts) == NoText \notin texts

(* No two elements of a list have the same name.                             *)
Distinct(names) == \A i, j \in DOMAIN names : names[i] = names[j] => i = j
=============================================================================
