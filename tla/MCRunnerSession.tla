-------------------------- MODULE MCRunnerSession --------------------------
(* Guests that TLC checks RunnerSession with, by what their goroutines call. *)
EXTENDS RunnerSession, TLC

CONSTANTS reader, caller, emitter

(* A goroutine reads, one calls capabilities, and one emits and calls, so   *)
(* that calls queue behind each other and behind the reader.                 *)
Concurrent ==
    (reader :> {"next"}) @@ (caller :> {"call"}) @@ (emitter :> {"call", "emit"})

(* The same with one caller, for liveness.                                   *)
Reading == (reader :> {"next"}) @@ (caller :> {"call"}) @@ (emitter :> {"emit"})

(* The agent: it decodes a header, identifies the session and may fail it    *)
(* while the runner it hosts reads and calls.                                *)
Agent == (reader :> {"next", "decode", "call"}) @@ (caller :> {"identify", "fail"})
=============================================================================
