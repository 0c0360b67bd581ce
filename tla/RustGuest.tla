----------------------------- MODULE RustGuest -----------------------------
(***************************************************************************)
(* The Rust guest (rust/src/lib.rs): run and run_session, between a host   *)
(* that sends an initialize message, the batches of each input port, an    *)
(* end marker for each port and one for all of them, and may cancel, close *)
(* stdin or go away at any time, and a runner that may fail or panic.      *)
(*                                                                         *)
(* A frame is one message, read in one step, and written in one step or,   *)
(* where a write fails, in part; that of a batch carries its port and its  *)
(* number, for what edge_id and sequence tell.                             *)
(***************************************************************************)
EXTENDS Naturals, Sequences, FiniteSets

CONSTANTS
    Ports,          (* input ports of the node                               *)
    AllPorts,       (* the empty port ID of the last end marker              *)
    MaxBatches,     (* bound on the batches of a port                        *)
    PipeCapacity    (* bound on the frames in stdin, and in stdout           *)

ASSUME PortsAssumption == AllPorts \notin Ports
ASSUME BoundsAssumption == MaxBatches \in Nat /\ PipeCapacity \in Nat \ {0}

VARIABLES
    stdin,      (* frames the guest has not read                             *)
    stdinOpen,  (* the host has not closed it                                *)
    stdout,     (* frames the guest has written                              *)
    hostRead,   (* how many of them the host has read                        *)
    hostReads,  (* the host has not stopped reading                          *)
    sent,       (* batches sent to each port                                 *)
    ended,      (* ports whose end marker was sent, or AllPorts              *)
    started,    (* initialize was sent                                       *)
    pc,         (* where the guest is                                        *)
    context,    (* the identity it knows: "" before initialize               *)
    batch,      (* the batch the runner has                                  *)
    taken,      (* batches handed to the runner                              *)
    broken      (* a write has failed                                        *)

host == <<stdinOpen, hostRead, hostReads, sent, ended, started>>
guest == <<pc, context, batch, taken, broken>>
vars == <<stdin, stdout, host, guest>>

NoBatch == [port |-> AllPorts, n |-> 0]
Batches == [port : Ports, n : 1 .. MaxBatches]
In(kind, port, n) == [kind |-> kind, port |-> port, n |-> n]
Out(kind, identity, port, n) ==
    [kind |-> kind, identity |-> identity, port |-> port, n |-> n]

Init ==
    /\ stdin = <<>> /\ stdinOpen = TRUE
    /\ stdout = <<>> /\ hostRead = 0 /\ hostReads = TRUE
    /\ sent = [port \in Ports |-> 0] /\ ended = {} /\ started = FALSE
    /\ pc = "initialize" /\ context = "" /\ batch = NoBatch /\ taken = <<>>
    /\ broken = FALSE

Goto(location) == pc' = location

-----------------------------------------------------------------------------
(* The guest. `report` is the way out of run_session with an error.          *)

(* Mutant: any message initializes.                                          *)
Anything(frame) == TRUE
(* The first message is initialize, with the ABI of the crate.               *)
Initializes(frame) == frame.kind = "initialize"

Took == stdin' = Tail(stdin)

ReadInitialize ==
    /\ pc = "initialize" /\ stdin # <<>>
    /\ Took
    /\ IF Initializes(Head(stdin))
       THEN Goto("ready") /\ context' = Head(stdin).port
       ELSE Goto("report") /\ UNCHANGED context
    /\ UNCHANGED <<stdout, host, batch, taken, broken>>

(* Mutant: cancel counts as an end marker.                                   *)
EndsOrCancels(frame) == frame.kind \in {"input_end", "cancel"}
(* The marker of any port ends the session.                                  *)
Ends(frame) == frame.kind = "input_end"

(* Mutant: the guest reads on until its host closes stdin.                   *)
ReadOn == Goto("read")
(* It completes without waiting for stdin to be closed.                      *)
AtTheEnd == Goto("complete")

ReadFrame ==
    /\ pc = "read" /\ stdin # <<>>
    /\ Took
    /\ LET frame == Head(stdin) IN
       \/ /\ Ends(frame)
          /\ AtTheEnd /\ UNCHANGED <<batch, taken>>
       \/ /\ frame.kind = "input_batch"
          /\ Goto("run")
          /\ batch' = [port |-> frame.port, n |-> frame.n]
          /\ taken' = Append(taken, batch')
       \/ /\ ~Ends(frame) /\ frame.kind # "input_batch"
          /\ Goto("report") /\ UNCHANGED <<batch, taken>>
    /\ UNCHANGED <<stdout, host, context, broken>>

ReadFails ==
    /\ pc \in {"initialize", "read"}
    /\ stdin = <<>> /\ ~stdinOpen
    /\ Goto("report")
    /\ UNCHANGED <<stdin, stdout, host, context, batch, taken, broken>>

Put(frame) ==
    /\ hostReads /\ Len(stdout) - hostRead < PipeCapacity
    /\ stdout' = Append(stdout, frame)

(* The frame to write; run reports an error with default fields, without the *)
(* identity.                                                                 *)
Due ==
    CASE pc = "ready" -> Out("ready", context, AllPorts, 0)
      [] pc = "run" -> Out("output_batch", context, batch.port, batch.n)
      [] pc = "complete" -> Out("completed", context, AllPorts, 0)
      [] OTHER -> Out("failed", "", AllPorts, 0)

(* External: what four writes and a flush of which one failed have done. A   *)
(* part of the frame is there, nothing, or, with the rest left in the buffer *)
(* of standard output for the next frame or the exit to flush, all of it.    *)
Torn == Out("torn", "", AllPorts, 0)
PutPart == UNCHANGED stdout \/ Put(Torn) \/ Put(Due)

WriteReady ==
    /\ pc = "ready"
    /\ Put(Due)
    /\ Goto("read")
    /\ UNCHANGED <<stdin, host, context, batch, taken, broken>>

WriteOutput ==
    /\ pc = "run"
    /\ Put(Due)
    /\ batch' = NoBatch
    /\ Goto("read")
    /\ UNCHANGED <<stdin, host, context, taken, broken>>

WriteCompleted ==
    /\ pc = "complete"
    /\ Put(Due)
    /\ Goto("success")
    /\ UNCHANGED <<stdin, host, context, batch, taken, broken>>

WriteFailed ==
    /\ pc = "report"
    /\ Put(Due)
    /\ Goto("failure")
    /\ UNCHANGED <<stdin, host, context, batch, taken, broken>>

(* on_initialize or on_input_batch returns an error.                         *)
RunnerFails ==
    /\ pc \in {"ready", "run"}
    /\ Goto("report")
    /\ UNCHANGED <<stdin, stdout, host, context, batch, taken, broken>>

(* Mutant: an error from a write is passed over.                             *)
PassOver == Goto("read")
(* The ? of every write.                                                     *)
Propagate == Goto("report")

WriteFails ==
    /\ pc \in {"ready", "run", "complete"}
    /\ PutPart /\ broken' = TRUE
    /\ Propagate
    /\ UNCHANGED <<stdin, host, context, batch, taken>>

(* An error while reporting is ignored.                                      *)
ReportFails ==
    /\ pc = "report"
    /\ PutPart /\ broken' = TRUE
    /\ Goto("failure")
    /\ UNCHANGED <<stdin, host, context, batch, taken>>

(* The runner panics.                                                        *)
Panic ==
    /\ pc \in {"ready", "run"}
    /\ Goto("aborted")
    /\ UNCHANGED <<stdin, stdout, host, context, batch, taken, broken>>

-----------------------------------------------------------------------------
(* The host, external.                                                       *)

Give(frame) ==
    /\ stdinOpen /\ Len(stdin) < PipeCapacity
    /\ stdin' = Append(stdin, frame)

(* The identity is put in the place of the port.                             *)
Initialize ==
    /\ ~started /\ started' = TRUE
    /\ Give(In("initialize", "identity", 0))
    /\ UNCHANGED <<stdout, stdinOpen, hostRead, hostReads, sent, ended, guest>>

SendBatch(port) ==
    /\ started /\ port \notin ended /\ sent[port] < MaxBatches
    /\ sent' = [sent EXCEPT ![port] = @ + 1]
    /\ Give(In("input_batch", port, sent[port] + 1))
    /\ UNCHANGED <<stdout, stdinOpen, hostRead, hostReads, ended, started, guest>>

EndPort(port) ==
    /\ started /\ port \notin ended
    /\ ended' = ended \cup {port}
    /\ Give(In("input_end", port, 0))
    /\ UNCHANGED <<stdout, stdinOpen, hostRead, hostReads, sent, started, guest>>

EndAll ==
    /\ ended = Ports
    /\ ended' = ended \cup {AllPorts}
    /\ Give(In("input_end", AllPorts, 0))
    /\ UNCHANGED <<stdout, stdinOpen, hostRead, hostReads, sent, started, guest>>

Cancel ==
    /\ Give(In("cancel", "", 0))
    /\ UNCHANGED <<stdout, host, guest>>

CloseStdin ==
    /\ stdinOpen /\ stdinOpen' = FALSE
    /\ UNCHANGED <<stdin, stdout, hostRead, hostReads, sent, ended, started, guest>>

HostReads ==
    /\ hostReads /\ hostRead < Len(stdout)
    /\ hostRead' = hostRead + 1
    /\ UNCHANGED <<stdin, stdout, stdinOpen, hostReads, sent, ended, started, guest>>

HostLeaves ==
    /\ hostReads /\ hostReads' = FALSE
    /\ UNCHANGED <<stdin, stdout, stdinOpen, hostRead, sent, ended, started, guest>>

-----------------------------------------------------------------------------
Exited == pc \in {"success", "failure", "aborted"}

Guest ==
    \/ ReadInitialize \/ ReadFrame \/ ReadFails
    \/ WriteReady \/ WriteOutput \/ WriteCompleted \/ WriteFailed
    \/ RunnerFails \/ WriteFails \/ ReportFails \/ Panic

Feed ==
    \/ Initialize \/ EndAll
    \/ \E port \in Ports : SendBatch(port) \/ EndPort(port)

Host == Feed \/ Cancel \/ CloseStdin \/ HostReads \/ HostLeaves

Next == Guest \/ (~Exited /\ Host) \/ (Exited /\ UNCHANGED vars)

Spec == Init /\ [][Next]_vars

(* A host that sends no batch once it has ended a port.                      *)
BatchesFirst == \A port \in Ports : SendBatch(port) => ended = {}
BatchesFirstSpec == Init /\ [][Next /\ BatchesFirst]_vars

(* The guest goes on: it reads, the runner returns, and a write returns once *)
(* the host has made room or left.                                           *)
Proceed ==
    \/ ReadInitialize \/ ReadFrame \/ ReadFails
    \/ WriteReady \/ WriteOutput \/ WriteCompleted \/ WriteFailed
    \/ ~hostReads /\ (WriteFails \/ ReportFails)

(* A live host: it feeds its input to the end or stops, and drains stdout or *)
(* stops reading.                                                            *)
FairSpec ==
    /\ Spec
    /\ WF_vars(Proceed)
    /\ WF_vars(~Exited /\ Feed) /\ WF_vars(~Exited /\ HostReads)

-----------------------------------------------------------------------------
(* Properties.                                                               *)

Identities == {"", "identity"}

(* Types; past initialize the guest knows its identity.                      *)
TypeOK ==
    /\ stdin \in Seq([kind : {"initialize", "input_batch", "input_end", "cancel"},
                      port : Ports \cup {AllPorts} \cup Identities, n : 0 .. MaxBatches])
    /\ stdout \in Seq([kind : {"ready", "output_batch", "completed", "failed", "torn"},
                       identity : Identities, port : Ports \cup {AllPorts},
                       n : 0 .. MaxBatches])
    /\ stdinOpen \in BOOLEAN /\ hostReads \in BOOLEAN /\ started \in BOOLEAN
    /\ hostRead \in 0 .. Len(stdout)
    /\ sent \in [Ports -> 0 .. MaxBatches] /\ ended \subseteq Ports \cup {AllPorts}
    /\ pc \in {"initialize", "ready", "read", "run", "complete", "report",
               "success", "failure", "aborted"}
    /\ context \in Identities
    /\ pc \in {"ready", "read", "run", "complete", "success"} => context = "identity"
    /\ batch \in Batches \cup {NoBatch}
    /\ taken \in Seq(Batches)
    /\ broken \in BOOLEAN

(* Where the host finds frames of a kind: it reads none behind a torn one.   *)
Whole(i) == \A j \in 1 .. i : stdout[j].kind # "torn"
Written(kind) == {i \in 1 .. Len(stdout) : Whole(i) /\ stdout[i].kind = kind}

Promise == INSTANCE GuestPromise WITH
    phase <- IF Written("completed") # {}
             THEN IF Written("failed") # {} THEN "retracted" ELSE "completed"
             ELSE IF Written("failed") # {} THEN "failed"
             ELSE IF pc \in {"failure", "aborted"} THEN "silent"
             ELSE IF Written("ready") # {} THEN "ready" ELSE "new",
    taken <- Len(taken),
    answered <- Cardinality(Written("output_batch"))

(* Whatever fails and whenever the host stops, what the host can read is that*)
(* the guest is ready before it answers, answers each batch before it takes  *)
(* the next, and ends with one verdict and nothing after it; and once a write*)
(* has failed, wherever in its frame, the guest takes nothing more and adds  *)
(* nothing but that it failed (lib.rs:107-171, 251-259).                     *)
KeepsPromise == Promise!Spec

(* The guest reports completion only once it has answered every batch that   *)
(* was sent to it, on any port. It takes the end of one port for the end of  *)
(* all (lib.rs:144), so this holds if the host ends none before it has sent  *)
(* the batches of all, and for a node of one input port.                     *)
BatchesAnswered ==
    Written("completed") # {} =>
        \A port \in Ports : \A n \in 1 .. sent[port] :
            \E i \in Written("output_batch") : stdout[i].port = port /\ stdout[i].n = n

(* It reports completion only at the end of the input: every port has ended, *)
(* and every batch is answered (docs/runner-abi.md:42-44). It holds for a    *)
(* node of one input port.                                                   *)
CompletedMeansConsumed ==
    (Written("completed") # {} => Ports \subseteq ended) /\ BatchesAnswered

(* A guest whose host feeds it to the end exits, though the host keeps stdin *)
(* open and may have stopped reading.                                        *)
GuestExits == <>Exited
=============================================================================
