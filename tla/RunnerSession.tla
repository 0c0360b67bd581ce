--------------------------- MODULE RunnerSession ---------------------------
(***************************************************************************)
(* The Go guest SDK's protocol session (go/sdk.go, type protocolSession):  *)
(* one decoder on stdin, one encoder on stdout, a mutex for each, the      *)
(* slice of messages a capability call sets aside while it waits for its   *)
(* answer, the identity learned from `initialize`, and the request         *)
(* counter.  Goroutines of the guest call its operations concurrently; the *)
(* host at the other end of the two pipes is external to the repository    *)
(* and is modelled from what the session expects of it.                    *)
(*                                                                         *)
(* A message is a frame that the codec delivers whole, or refuses once it  *)
(* has read it; partial reads and writes are below this module.            *)
(***************************************************************************)
EXTENDS Integers, Sequences

CONSTANTS
    Threads,        (* goroutines of the guest                                *)
    Operations,     (* the session operations each goroutine's code calls     *)
    InputCount,     (* inputs of the execution: initialize ... terminal end   *)
    MaxRequests,    (* bound on capability calls that get a request ID        *)
    MaxSpoiled,     (* bound on messages of the host that the decoder refuses *)
    PipeCapacity,   (* frames a pipe holds before its writer blocks           *)
    NoThread        (* the holder of a free mutex                             *)

Calls == {"next", "call", "emit", "decode", "identify", "fail"}

ASSUME ThreadsAssumption == NoThread \notin Threads
ASSUME OperationsAssumption == Operations \in [Threads -> SUBSET Calls]
ASSUME InputCountAssumption == InputCount \in Nat /\ InputCount >= 2
ASSUME MaxRequestsAssumption == MaxRequests \in Nat
ASSUME MaxSpoiledAssumption == MaxSpoiled \in Nat
ASSUME PipeCapacityAssumption == PipeCapacity \in Nat \ {0}

VARIABLES
    inbound,        (* stdin pipe: host to guest                              *)
    stdinClosed,    (* the host has closed its end of stdin                   *)
    outbound,       (* stdout pipe: guest to host                             *)
    sent,           (* host: inputs sent so far                               *)
    unanswered,     (* host: IDs of the requests read and not yet answered    *)
    spoiled,        (* host: messages sent so far that the decoder refuses    *)
    decoderMu,      (* holder of decoderMu                                    *)
    encoderMu,      (* holder of encoderMu                                    *)
    buffered,       (* protocolSession.buffered                               *)
    executionID,    (* protocolSession.executionID                            *)
    nodeID,         (* protocolSession.nodeID                                 *)
    nextRequestID,  (* protocolSession.nextRequestID                          *)
    pc,             (* where each goroutine is                                *)
    draft,          (* the message each goroutine is sending                  *)
    taken,          (* input read but not yet returned by nextInput, or 0     *)
    cancelled,      (* the context of the goroutine's call is done            *)
    result,         (* what each goroutine's last operation returned          *)
    delivered,      (* history: number of the last input handed to the guest  *)
    lost,           (* history: inputs that the decoder refused               *)
    answered,       (* history: requests whose call returned their answer     *)
    abandoned,      (* history: requests whose call gave up on them           *)
    finished        (* goroutines whose Next has returned io.EOF              *)

host == <<sent, unanswered, spoiled>>
identity == <<executionID, nodeID>>
session == <<buffered, identity, nextRequestID>>
locals == <<draft, taken, cancelled, result>>
calls == <<answered, abandoned>>
history == <<delivered, lost, calls, finished>>
pipes == <<inbound, stdinClosed, outbound>>
vars == <<pipes, host, decoderMu, encoderMu, session, pc, locals, history>>

-----------------------------------------------------------------------------
(* Messages. An identity is known by where it came from: the initialize      *)
(* message or a session header; "empty" is the zero string, and "torn" one   *)
(* read while it was being assigned, the length of one and bytes of another. *)

Identity == {"empty", "initialize", "header", "torn"}

InputTypes == {"initialize", "input", "terminal"}
SpoiledTypes == {"spoiled_input", "spoiled_answer"}
Inbound == [type : InputTypes \cup SpoiledTypes \cup {"response"}, n : Nat]
Outbound == [type : {"output", "request", "failed"}, n : Nat,
             execution : Identity, node : Identity]

(* Mutant: a call sets aside whatever it can read, responses included.       *)
Everything(m) == m.type \notin SpoiledTypes
IsInput(m) == m.type \in InputTypes

IsResponse(m) == m.type = "response"

(* A frame the decoder reads and returns an error for: not CBOR it takes, or *)
(* not a message that validates. The session sees neither type nor number.   *)
Spoiled(m) == m.type \in SpoiledTypes

(* Mutants: any input_end is taken for the terminal one, or none is.         *)
AnyEnd(m) == m.type \in {"input", "terminal"}
NoEnd(m) == FALSE
IsTerminal(m) == m.type = "terminal"

(* The host opens with initialize and closes with the terminal input_end,    *)
(* whose port is empty; what lies between is batches and per-port ends.      *)
InputMessage(n) ==
    [type |-> CASE n = 1 -> "initialize"
                [] n = InputCount -> "terminal"
                [] OTHER -> "input",
     n |-> n]

Response(id) == [type |-> "response", n |-> id]

SpoiledInput(n) == [type |-> "spoiled_input", n |-> n]
SpoiledAnswer(id) == [type |-> "spoiled_answer", n |-> id]

(* A batch or a log message; also the draft of a goroutine that sends nothing.*)
NoDraft ==
    [type |-> "output", n |-> 0, execution |-> "empty", node |-> "empty"]

(* What an operation returns: its kind, the request a call had issued and    *)
(* the number of the message it got.                                         *)
Kinds == {"none", "input", "eof", "answer", "mismatch", "unsolicited",
          "cancelled", "refused", "uninitialized", "closed", "undecoded",
          "raw", "done"}
Result == [kind : Kinds, want : Nat, got : Nat]
Returned(kind, want, got) == [kind |-> kind, want |-> want, got |-> got]

Waiting == {"call_check", "call_read"}
InCall == {"call_node", "call_send", "call_write"} \cup Waiting
Recording == {"next_assign", "next_assign_node"}
Identifying == {"identify_assign", "identify_assign_node"}
HoldsDecoder == {"next_take", "decode_read"} \cup Recording \cup Identifying \cup InCall
HoldsEncoder == {"call_write", "send_write"}
Locations == {"idle", "next_lock", "decode_lock", "identify_lock", "call_lock",
              "fail_node", "send_lock"} \cup HoldsDecoder \cup HoldsEncoder

Init ==
    /\ inbound = <<>> /\ outbound = <<>> /\ stdinClosed = FALSE
    /\ sent = 0 /\ unanswered = {} /\ spoiled = 0
    /\ decoderMu = NoThread /\ encoderMu = NoThread
    /\ buffered = <<>> /\ nextRequestID = 0
    /\ executionID = "empty" /\ nodeID = "empty"
    /\ pc = [t \in Threads |-> "idle"]
    /\ draft = [t \in Threads |-> NoDraft]
    /\ taken = [t \in Threads |-> 0]
    /\ cancelled = [t \in Threads |-> FALSE]
    /\ result = [t \in Threads |-> Returned("none", 0, 0)]
    /\ delivered = 0 /\ lost = {}
    /\ answered = {} /\ abandoned = {} /\ finished = {}

Goto(t, location) == pc' = [pc EXCEPT ![t] = location]

Return(t, r) ==
    /\ Goto(t, "idle")
    /\ result' = [result EXCEPT ![t] = r]

(* A call returns, and with it ends the use of its context.                  *)
CallReturns(t, r) ==
    /\ Return(t, r)
    /\ draft' = [draft EXCEPT ![t] = NoDraft]
    /\ cancelled' = [cancelled EXCEPT ![t] = FALSE]

(* Mutants: a mutex is not taken, or not released on the way out.            *)
PassDecoder(t) == decoderMu = NoThread /\ UNCHANGED decoderMu
LockDecoder(t) == decoderMu = NoThread /\ decoderMu' = t

KeepDecoder == UNCHANGED decoderMu
UnlockDecoder == decoderMu' = NoThread

KeepEncoder == UNCHANGED encoderMu
UnlockEncoder == encoderMu' = NoThread

-----------------------------------------------------------------------------
(* Starting an operation.  Next, Emit and a capability call first look at    *)
(* their context and return its error, changing nothing, when it is already  *)
(* done; a goroutine that goes on does so with a live context.  A reader     *)
(* whose Next has returned io.EOF has no reason to call it again.            *)

EntryPoint == [next |-> "next_lock", call |-> "call_lock",
               decode |-> "decode_lock", identify |-> "identify_lock"]

(* Two bounds of the model, not of the code: calls stop at MaxRequests, and  *)
(* one goroutine at a time waits to begin a call.                            *)
MayCall ==
    nextRequestID < MaxRequests /\ \A t \in Threads : pc[t] # "call_lock"

Start(t, operation) ==
    /\ pc[t] = "idle"
    /\ operation \in Operations[t] \cap DOMAIN EntryPoint
    /\ operation = "next" => t \notin finished
    /\ operation = "call" => MayCall
    /\ Goto(t, EntryPoint[operation])
    /\ UNCHANGED <<pipes, host, decoderMu, encoderMu, session, locals, history>>

(* A deadline passes or a caller gives up while the call is under way.       *)
Cancel(t) ==
    /\ pc[t] \in {"call_lock"} \cup InCall
    /\ ~cancelled[t]
    /\ cancelled' = [cancelled EXCEPT ![t] = TRUE]
    /\ UNCHANGED <<pipes, host, decoderMu, encoderMu, session, pc, draft,
                   taken, result, history>>

(* Next, Decode and Identify wait for decoderMu.                             *)
AfterLock == [next_lock |-> "next_take", decode_lock |-> "decode_read",
              identify_lock |-> "identify_assign"]

EnterReader(t) ==
    /\ pc[t] \in DOMAIN AfterLock
    /\ LockDecoder(t)
    /\ Goto(t, AfterLock[pc[t]])
    /\ UNCHANGED <<pipes, host, encoderMu, session, locals, history>>

-----------------------------------------------------------------------------
(* nextInput: buffered messages first, then the decoder.                     *)

HeadOfInput == IF buffered # <<>> THEN Head(buffered) ELSE Head(inbound)

TakeMessage ==
    \/ buffered # <<>> /\ buffered' = Tail(buffered) /\ UNCHANGED inbound
    \/ /\ buffered = <<>> /\ inbound # <<>>
       /\ inbound' = Tail(inbound) /\ UNCHANGED buffered

(* The decoder has nothing more to read: the host closed stdin.              *)
AtEOF == inbound = <<>> /\ stdinClosed

(* What no reading of the decoder changes.                                   *)
readOnly == <<stdinClosed, outbound, host, encoderMu, nextRequestID, cancelled>>

(* One message of the given kind is taken under decoderMu and Next returns.  *)
NextReturns(t, kind) ==
    /\ pc[t] = "next_take"
    /\ TakeMessage
    /\ UnlockDecoder
    /\ Return(t, Returned(kind, 0, HeadOfInput.n))
    /\ UNCHANGED <<readOnly, identity, draft, taken, lost, calls>>

NextUnsolicited(t) ==
    /\ NextReturns(t, "unsolicited")
    /\ IsResponse(HeadOfInput)
    /\ UNCHANGED <<delivered, finished>>

NextEnd(t) ==
    /\ NextReturns(t, "eof")
    /\ IsInput(HeadOfInput) /\ IsTerminal(HeadOfInput)
    /\ delivered' = HeadOfInput.n
    /\ finished' = finished \cup {t}

NextInput(t) ==
    /\ NextReturns(t, "input")
    /\ IsInput(HeadOfInput) /\ ~IsTerminal(HeadOfInput)
    /\ HeadOfInput.type # "initialize"
    /\ delivered' = HeadOfInput.n
    /\ UNCHANGED finished

(* initialize is returned once its identity has been recorded. The two      *)
(* strings are assigned one after the other, in steps of their own, because  *)
(* Fail reads them without decoderMu and nothing else but that mutex keeps a *)
(* call from reading them in between.                                        *)
NextInitialize(t) ==
    /\ pc[t] = "next_take"
    /\ TakeMessage
    /\ HeadOfInput.type = "initialize"
    /\ taken' = [taken EXCEPT ![t] = HeadOfInput.n]
    /\ Goto(t, "next_assign")
    /\ UNCHANGED <<readOnly, decoderMu, identity, draft, result, history>>

NextAssignExecution(t) ==
    /\ pc[t] = "next_assign"
    /\ executionID' = "initialize"
    /\ Goto(t, "next_assign_node")
    /\ UNCHANGED <<readOnly, inbound, buffered, decoderMu, nodeID, draft, taken,
                   result, history>>

NextAssignNode(t) ==
    /\ pc[t] = "next_assign_node"
    /\ nodeID' = "initialize"
    /\ UnlockDecoder
    /\ Return(t, Returned("input", 0, taken[t]))
    /\ delivered' = taken[t]
    /\ taken' = [taken EXCEPT ![t] = 0]
    /\ UNCHANGED <<readOnly, inbound, buffered, executionID, draft, lost, calls,
                   finished>>

NextClosed(t) ==
    /\ pc[t] = "next_take"
    /\ buffered = <<>> /\ AtEOF
    /\ UnlockDecoder
    /\ Return(t, Returned("closed", 0, 0))
    /\ finished' = finished \cup {t}
    /\ UNCHANGED <<readOnly, inbound, buffered, identity, draft, taken,
                   delivered, lost, calls>>

(* The decoder reads a frame and returns an error for it. Whoever reads next *)
(* gets the frame behind it: an input that was in this one is gone, with the *)
(* error to show for it.                                                     *)
ReadSpoiled ==
    /\ inbound # <<>> /\ Spoiled(Head(inbound))
    /\ inbound' = Tail(inbound)
    /\ lost' = IF Head(inbound).type = "spoiled_input"
               THEN lost \cup {Head(inbound).n}
               ELSE lost

NextUndecoded(t) ==
    /\ pc[t] = "next_take"
    /\ buffered = <<>> /\ ReadSpoiled
    /\ UnlockDecoder
    /\ Return(t, Returned("undecoded", 0, 0))
    /\ UNCHANGED <<readOnly, buffered, identity, draft, taken, delivered, calls,
                   finished>>

(* Session.Decode reads the stream itself and does not look at buffered.     *)
DecodeMessage(t) ==
    /\ pc[t] = "decode_read"
    /\ inbound # <<>> /\ ~Spoiled(Head(inbound))
    /\ inbound' = Tail(inbound)
    /\ UnlockDecoder
    /\ Return(t, Returned("raw", 0, Head(inbound).n))
    /\ delivered' = IF IsInput(Head(inbound)) THEN Head(inbound).n ELSE delivered
    /\ UNCHANGED <<readOnly, buffered, identity, draft, taken, lost, calls, finished>>

DecodeClosed(t) ==
    /\ pc[t] = "decode_read"
    /\ AtEOF
    /\ UnlockDecoder
    /\ Return(t, Returned("closed", 0, 0))
    /\ UNCHANGED <<readOnly, inbound, buffered, identity, draft, taken, history>>

DecodeUndecoded(t) ==
    /\ pc[t] = "decode_read"
    /\ ReadSpoiled
    /\ UnlockDecoder
    /\ Return(t, Returned("undecoded", 0, 0))
    /\ UNCHANGED <<readOnly, buffered, identity, draft, taken, delivered, calls,
                   finished>>

IdentifyExecution(t) ==
    /\ pc[t] = "identify_assign"
    /\ executionID' = "header"
    /\ Goto(t, "identify_assign_node")
    /\ UNCHANGED <<readOnly, inbound, buffered, decoderMu, nodeID, draft, taken,
                   result, history>>

IdentifyNode(t) ==
    /\ pc[t] = "identify_assign_node"
    /\ nodeID' = "header"
    /\ UnlockDecoder
    /\ Return(t, Returned("done", 0, 0))
    /\ UNCHANGED <<readOnly, inbound, buffered, executionID, draft, taken, history>>

-----------------------------------------------------------------------------
(* capability: one call at a time, under decoderMu from the request to its   *)
(* answer, so that whatever arrives in between is set aside in buffered.     *)

Identified == executionID # "empty" /\ nodeID # "empty"

CallUninitialized(t) ==
    /\ pc[t] = "call_lock"
    /\ decoderMu = NoThread
    /\ ~Identified
    /\ CallReturns(t, Returned("uninitialized", 0, 0))
    /\ UNCHANGED <<pipes, host, decoderMu, encoderMu, session, taken, history>>

(* Mutant: the counter is not bumped.                                        *)
SameID == nextRequestID
NewID == nextRequestID + 1

(* The request is given the two strings of the identity one after the other.*)
CallPrepare(t) ==
    /\ pc[t] = "call_lock"
    /\ LockDecoder(t)
    /\ Identified
    /\ nextRequestID' = NewID
    /\ draft' = [draft EXCEPT ![t] =
                   [type |-> "request", n |-> NewID,
                    execution |-> executionID, node |-> "empty"]]
    /\ Goto(t, "call_node")
    /\ UNCHANGED <<pipes, host, encoderMu, buffered, identity, taken,
                   cancelled, result, history>>

CallNode(t) ==
    /\ pc[t] = "call_node"
    /\ draft' = [draft EXCEPT ![t].node = nodeID]
    /\ Goto(t, "call_send")
    /\ UNCHANGED <<pipes, host, decoderMu, encoderMu, session, taken, cancelled,
                   result, history>>

(* send: every writer, a call included, waits for encoderMu ...              *)
EnterWriter(t) ==
    /\ pc[t] \in {"call_send", "send_lock"}
    /\ encoderMu = NoThread
    /\ encoderMu' = t
    /\ Goto(t, IF pc[t] = "call_send" THEN "call_write" ELSE "send_write")
    /\ UNCHANGED <<pipes, host, decoderMu, session, locals, history>>

(* ... and writes one message, blocking while the pipe is full.              *)
Write(t) ==
    /\ Len(outbound) < PipeCapacity
    /\ outbound' = Append(outbound, draft[t])
    /\ UNCHANGED <<inbound, stdinClosed>>

CallWrite(t) ==
    /\ pc[t] = "call_write"
    /\ Write(t)
    /\ UnlockEncoder
    /\ Goto(t, "call_check")
    /\ UNCHANGED <<host, decoderMu, session, locals, history>>

(* The message fails validation or exceeds the frame limit: nothing is       *)
(* written, and the request ID is used up.                                   *)
CallRefused(t) ==
    /\ pc[t] = "call_write"
    /\ UnlockEncoder /\ UnlockDecoder
    /\ CallReturns(t, Returned("refused", draft[t].n, 0))
    /\ UNCHANGED <<pipes, host, session, taken, history>>

(* The call is over, with its answer or without.                             *)
EndCall(t, kind, got) ==
    /\ UnlockDecoder
    /\ CallReturns(t, Returned(kind, draft[t].n, got))
    /\ UNCHANGED <<stdinClosed, outbound, host, encoderMu, session, taken,
                   delivered, finished>>

(* The request stays with the host, and its answer with whoever reads it.    *)
GiveUp(t, kind, got) ==
    /\ EndCall(t, kind, got)
    /\ abandoned' = abandoned \cup {draft[t].n}
    /\ UNCHANGED answered

CallCancelled(t) ==
    /\ pc[t] = "call_check"
    /\ cancelled[t]
    /\ GiveUp(t, "cancelled", 0)
    /\ UNCHANGED <<inbound, lost>>

CallRead(t) ==
    /\ pc[t] = "call_check"
    /\ ~cancelled[t]
    /\ Goto(t, "call_read")
    /\ UNCHANGED <<pipes, host, decoderMu, encoderMu, session, locals, history>>

(* Mutants: an input that arrives during a call is dropped, or put in front  *)
(* of those set aside before it.                                             *)
Drop(m) == UNCHANGED buffered
SetInFront(m) == buffered' = <<m>> \o buffered
SetAside(m) == buffered' = Append(buffered, m)

CallBuffer(t) ==
    /\ pc[t] = "call_read"
    /\ inbound # <<>> /\ IsInput(Head(inbound))
    /\ inbound' = Tail(inbound)
    /\ SetAside(Head(inbound))
    /\ Goto(t, "call_check")
    /\ UNCHANGED <<stdinClosed, outbound, host, decoderMu, encoderMu, identity,
                   nextRequestID, locals, history>>

(* Mutant: any response ends the call.                                       *)
MatchesAny(id, response) == TRUE
Matches(id, response) == response.n = id

ReadResponse(t) ==
    /\ pc[t] = "call_read"
    /\ inbound # <<>> /\ IsResponse(Head(inbound))
    /\ inbound' = Tail(inbound)
    /\ UNCHANGED lost

CallAnswered(t) ==
    /\ ReadResponse(t)
    /\ Matches(draft[t].n, Head(inbound))
    /\ EndCall(t, "answer", Head(inbound).n)
    /\ answered' = answered \cup {draft[t].n}
    /\ UNCHANGED abandoned

CallMismatch(t) ==
    /\ ReadResponse(t)
    /\ ~Matches(draft[t].n, Head(inbound))
    /\ GiveUp(t, "mismatch", Head(inbound).n)

CallClosed(t) ==
    /\ pc[t] = "call_read"
    /\ AtEOF
    /\ GiveUp(t, "closed", 0)
    /\ UNCHANGED <<inbound, lost>>

CallUndecoded(t) ==
    /\ pc[t] = "call_read"
    /\ ReadSpoiled
    /\ GiveUp(t, "undecoded", 0)

-----------------------------------------------------------------------------
(* Emit, Send and Fail.                                                      *)

StartEmit(t) ==
    /\ "emit" \in Operations[t]
    /\ pc[t] = "idle"
    /\ draft' = [draft EXCEPT ![t] = NoDraft]
    /\ Goto(t, "send_lock")
    /\ UNCHANGED <<pipes, host, decoderMu, encoderMu, session, taken,
                   cancelled, result, history>>

(* Fail reads the two strings one after the other and without decoderMu: one *)
(* that a goroutine is assigning may be read before, after or in the middle  *)
(* of its assignment.                                                        *)
Assigned(recording, identifying) ==
    {"initialize" : t \in {u \in Threads : pc[u] = recording}}
    \cup {"header" : t \in {u \in Threads : pc[u] = identifying}}

RacyRead(string, assigned) ==
    {string} \cup assigned
    \cup (IF assigned \subseteq {string} THEN {} ELSE {"torn"})

StartFail(t) ==
    /\ "fail" \in Operations[t]
    /\ pc[t] = "idle"
    /\ \E e \in RacyRead(executionID, Assigned("next_assign", "identify_assign")) :
          draft' = [draft EXCEPT ![t] =
                      [type |-> "failed", n |-> 0, execution |-> e, node |-> "empty"]]
    /\ Goto(t, "fail_node")
    /\ UNCHANGED <<pipes, host, decoderMu, encoderMu, session, taken,
                   cancelled, result, history>>

FailNode(t) ==
    /\ pc[t] = "fail_node"
    /\ \E n \in RacyRead(nodeID, Assigned("next_assign_node", "identify_assign_node")) :
          draft' = [draft EXCEPT ![t].node = n]
    /\ Goto(t, "send_lock")
    /\ UNCHANGED <<pipes, host, decoderMu, encoderMu, session, taken,
                   cancelled, result, history>>

SendReturns(t, kind) ==
    /\ pc[t] = "send_write"
    /\ UnlockEncoder
    /\ draft' = [draft EXCEPT ![t] = NoDraft]
    /\ Return(t, Returned(kind, 0, 0))
    /\ UNCHANGED <<host, decoderMu, session, taken, cancelled, history>>

SendWrite(t) == SendReturns(t, "done") /\ Write(t)

SendRefused(t) == SendReturns(t, "refused") /\ UNCHANGED pipes

-----------------------------------------------------------------------------
(* The host, external: it sends the inputs in order, reads what the guest    *)
(* writes, answers each request once but in any order, and may close stdin.  *)
(* Up to MaxSpoiled of its messages are refused by the guest's decoder,      *)
(* which has limits and rules of its own.                                    *)

hostLeaves == <<decoderMu, encoderMu, session, pc, locals, history>>

SendInput(m) ==
    /\ ~stdinClosed
    /\ sent < InputCount
    /\ Len(inbound) < PipeCapacity
    /\ inbound' = Append(inbound, m)
    /\ sent' = sent + 1
    /\ UNCHANGED <<stdinClosed, outbound, unanswered, hostLeaves>>

HostSend ==
    /\ SendInput(InputMessage(sent + 1))
    /\ UNCHANGED spoiled

HostSpoilInput ==
    /\ spoiled < MaxSpoiled /\ spoiled' = spoiled + 1
    /\ SendInput(SpoiledInput(sent + 1))

HostRead ==
    /\ outbound # <<>>
    /\ outbound' = Tail(outbound)
    /\ unanswered' = IF Head(outbound).type = "request"
                     THEN unanswered \cup {Head(outbound).n}
                     ELSE unanswered
    /\ UNCHANGED <<inbound, stdinClosed, sent, spoiled, hostLeaves>>

SendAnswer(id, m) ==
    /\ ~stdinClosed
    /\ id \in unanswered
    /\ Len(inbound) < PipeCapacity
    /\ inbound' = Append(inbound, m)
    /\ unanswered' = unanswered \ {id}
    /\ UNCHANGED <<stdinClosed, outbound, sent, hostLeaves>>

HostAnswer(id) ==
    /\ SendAnswer(id, Response(id))
    /\ UNCHANGED spoiled

HostSpoilAnswer(id) ==
    /\ spoiled < MaxSpoiled /\ spoiled' = spoiled + 1
    /\ SendAnswer(id, SpoiledAnswer(id))

HostClose ==
    /\ ~stdinClosed
    /\ stdinClosed' = TRUE
    /\ UNCHANGED <<inbound, outbound, host, hostLeaves>>

-----------------------------------------------------------------------------
(* Steps of a goroutine inside an operation, other than acquiring a mutex.   *)
Step(t) ==
    \/ NextUnsolicited(t) \/ NextEnd(t) \/ NextInput(t) \/ NextInitialize(t)
    \/ NextAssignExecution(t) \/ NextAssignNode(t)
    \/ NextClosed(t) \/ NextUndecoded(t)
    \/ DecodeMessage(t) \/ DecodeClosed(t) \/ DecodeUndecoded(t)
    \/ IdentifyExecution(t) \/ IdentifyNode(t)
    \/ CallNode(t) \/ CallWrite(t) \/ CallRefused(t) \/ CallCancelled(t)
    \/ CallRead(t) \/ CallBuffer(t) \/ CallAnswered(t) \/ CallMismatch(t)
    \/ CallClosed(t) \/ CallUndecoded(t)
    \/ FailNode(t) \/ SendWrite(t) \/ SendRefused(t)

Acquire(t) ==
    EnterReader(t) \/ CallUninitialized(t) \/ CallPrepare(t) \/ EnterWriter(t)

Begin(t) ==
    \/ \E operation \in Calls : Start(t, operation)
    \/ StartEmit(t)
    \/ StartFail(t)

(* The guest may stop once every goroutine is between operations; anywhere   *)
(* else, having no step to take is a deadlock.                               *)
GuestEnded ==
    /\ \A t \in Threads : pc[t] = "idle"
    /\ UNCHANGED vars

(* What the host does to the session.                                        *)
HostStep ==
    \/ HostSend
    \/ HostSpoilInput
    \/ HostRead
    \/ \E id \in 1 .. MaxRequests : HostAnswer(id) \/ HostSpoilAnswer(id)
    \/ HostClose

Next ==
    \/ \E t \in Threads : Begin(t) \/ Cancel(t) \/ Acquire(t) \/ Step(t)
    \/ HostStep
    \/ GuestEnded

Spec == Init /\ [][Next]_vars

(* The agent uses Decode for the header that precedes the messages of a node *)
(* (sdk.go:261-263): the guest decodes nothing once it has made a request.   *)
HeaderFirst ==
    \A t \in Threads : pc[t] \in {"decode_lock", "decode_read"} => nextRequestID = 0

HeaderSpec == Init /\ [][Next /\ HeaderFirst']_vars

(* Callers that wait for their answers, of a host whose messages the decoder *)
(* takes: no context is done before its call.                                *)
PatientStep == Next /\ (\A t \in Threads : ~Cancel(t)) /\ spoiled' = 0
PatientSpec == Init /\ [][PatientStep]_vars

(* A goroutine that can run does; sync.Mutex hands the lock in FIFO order to *)
(* a waiter it has starved for a millisecond, so acquiring is strongly fair; *)
(* a live host drains stdout, answers what it read and sends its inputs.     *)
Fairness ==
    /\ \A t \in Threads : WF_vars(Step(t)) /\ SF_vars(Acquire(t))
    /\ WF_vars(HostSend) /\ WF_vars(HostRead)
    /\ \A id \in 1 .. MaxRequests : WF_vars(HostAnswer(id))

FairSpec == Spec /\ Fairness

-----------------------------------------------------------------------------
(* Properties.                                                               *)

(* Types and ranges of the state. The slice `buffered` of protocolSession    *)
(* holds inputs only, never a capability response (sdk.go:206-209).          *)
TypeOK ==
    /\ inbound \in Seq(Inbound) /\ outbound \in Seq(Outbound)
    /\ stdinClosed \in BOOLEAN
    /\ sent \in 0 .. InputCount /\ unanswered \subseteq Nat
    /\ spoiled \in 0 .. MaxSpoiled /\ lost \subseteq Nat
    /\ decoderMu \in Threads \cup {NoThread}
    /\ encoderMu \in Threads \cup {NoThread}
    /\ buffered \in Seq([type : InputTypes, n : Nat])
    /\ executionID \in Identity /\ nodeID \in Identity
    /\ nextRequestID \in 0 .. MaxRequests
    /\ pc \in [Threads -> Locations]
    /\ draft \in [Threads -> Outbound]
    /\ taken \in [Threads -> Nat]
    /\ cancelled \in [Threads -> BOOLEAN]
    /\ result \in [Threads -> Result]
    /\ delivered \in Nat /\ answered \subseteq Nat /\ abandoned \subseteq Nat
    /\ finished \subseteq Threads

(* The bound of the model on calls: whoever waits to begin one may.          *)
CallBound ==
    \A t \in Threads :
        pc[t] = "call_lock" =>
            /\ nextRequestID < MaxRequests
            /\ \A u \in Threads : pc[u] = "call_lock" => u = t

(* The mutexes are held exactly by the goroutine inside the code they guard, *)
(* on every path out of it, error returns included (the deferred unlocks).   *)
LockInv ==
    \A t \in Threads :
        /\ pc[t] \in HoldsDecoder <=> decoderMu = t
        /\ pc[t] \in HoldsEncoder <=> encoderMu = t

(* Goroutines never wait for each other in a circle: of those that wait for  *)
(* a mutex, one leads to a holder that waits for none, only for a pipe, if   *)
(* for anything. A call takes encoderMu inside decoderMu, Next and Emit one  *)
(* of them each (sdk.go:98-99, 130-133, 181-195).                            *)
AwaitsLock(t) ==
    \/ pc[t] \in DOMAIN AfterLock \cup {"call_lock"} /\ decoderMu # NoThread
    \/ pc[t] \in {"call_send", "send_lock"} /\ encoderMu # NoThread

NoCircularWait ==
    (\E t \in Threads : AwaitsLock(t)) =>
        \E u \in {decoderMu, encoderMu} \cap Threads :
            pc[u] \in HoldsDecoder \cup HoldsEncoder /\ ~AwaitsLock(u)

(* The last input handed over, or read by nextInput and not yet returned.    *)
InHand == {t \in Threads : taken[t] # 0}
Claimed == IF InHand = {} THEN delivered ELSE taken[CHOOSE t \in InHand : TRUE]

(* The inputs in front of position i of a queue.                             *)
CarriesInput(m) == IsInput(m) \/ m.type = "spoiled_input"
AheadOf(queue, i) == {queue[j].n : j \in {k \in 1 .. i - 1 : CarriesInput(queue[k])}}

(* A queue holds the inputs after number a up to number b in order, but for  *)
(* those that the decoder refused.                                           *)
Continues(queue, a, b) ==
    /\ a <= b
    /\ \A i \in 1 .. Len(queue) :
         CarriesInput(queue[i]) =>
            /\ queue[i].n \in a + 1 .. b
            /\ AheadOf(queue, i) = (a + 1 .. queue[i].n - 1) \ lost
    /\ AheadOf(queue, Len(queue) + 1) = (a + 1 .. b) \ lost

(* Nothing is lost, duplicated or reordered between the host's inputs and    *)
(* Next, however calls set inputs aside, except what the decoder refused: up *)
(* to some input r they are set aside, from there in the pipe                *)
(* (sdk.go:98-112, 198-209).                                                 *)
InputsConserved ==
    \E r \in Claimed .. sent :
        Continues(buffered, Claimed, r) /\ Continues(inbound, r, sent)

(* The guest is handed the inputs in the host's order, each once: a step     *)
(* that hands over an input hands over the next one after the last that the  *)
(* decoder did not refuse. A call that reads another's input cannot make     *)
(* Next skip it, whatever errors come between.                               *)
DeliveryInOrder ==
    [][delivered' # delivered =>
         /\ delivered' > delivered /\ delivered' \notin lost
         /\ delivered + 1 .. delivered' - 1 \subseteq lost]_vars

(* Next reports io.EOF only for the terminal input_end, after every input    *)
(* before it, those that calls set aside included.                           *)
EndIsLast ==
    (\E t \in Threads : result[t].kind = "eof") =>
        delivered = InputCount /\ buffered = <<>>

(* A call that succeeds got the answer to its own request, and an answer to  *)
(* a request that a call gave up on never makes a later call succeed. A      *)
(* response that Next rejects as unsolicited, or that makes a call fail for  *)
(* its ID, is such an answer: without a cancelled or failed call neither     *)
(* error occurs, in any interleaving (sdk.go:113, 198-217).                  *)
Correlated ==
    /\ answered \cap abandoned = {}
    /\ \A t \in Threads :
        /\ result[t].kind = "answer" =>
              result[t].got = result[t].want /\ result[t].got \in answered
        /\ result[t].kind \in {"unsolicited", "mismatch"} => result[t].got \in abandoned

(* Requests that can still be answered: on their way to the host, with it, or*)
(* on their way back as a response.                                          *)
RequestsIn(queue) == {i \in 1 .. Len(queue) : queue[i].type = "request"}
ResponsesIn(queue) == {i \in 1 .. Len(queue) : IsResponse(queue[i])}
RequestIDs(queue) == {queue[i].n : i \in RequestsIn(queue)}
ResponseIDs(queue) == {queue[i].n : i \in ResponsesIn(queue)}

Outstanding == RequestIDs(outbound) \cup unanswered \cup ResponseIDs(inbound)

InFlight(t) == pc[t] \in Waiting

(* Only one call has a request out at a time: any other request that can     *)
(* still be answered belongs to a call that gave up on it.                   *)
OneInFlight ==
    \A id \in Outstanding \ abandoned :
        \E t \in Threads : decoderMu = t /\ InFlight(t) /\ draft[t].n = id

(* Next calls a response unsolicited (sdk.go:114) only if this session never *)
(* sent a request of that ID. The code does not keep this: a call that gives *)
(* up leaves its answer to whoever reads next.                               *)
UnsolicitedIsUnrequested ==
    \A t \in Threads :
        result[t].kind = "unsolicited" => result[t].got \notin 1 .. nextRequestID

(* Requests reach stdout in the order of their IDs, although the ID is drawn *)
(* under one mutex and the message written under another.                    *)
RequestsInOrder ==
    \A i, j \in RequestsIn(outbound) : i < j => outbound[i].n < outbound[j].n

(* A capability request names the execution and the node of one and the same *)
(* message, never a mixture or an empty one: the two are written and read in *)
(* steps that other goroutines come between, but for decoderMu               *)
(* (sdk.go:120-121, 181-194, 278-279).                                       *)
RequestIdentityWhole ==
    \A i \in RequestsIn(outbound) :
        /\ outbound[i].execution \in {"initialize", "header"}
        /\ outbound[i].node = outbound[i].execution

(* No operation waits forever when the host does its part: a goroutine in an *)
(* operation returns from it. The one exception is a host whose terminal     *)
(* marker the decoder refused, for nothing more may come then.               *)
EndLost == InputCount \in lost
EveryOperationReturns ==
    \A t \in Threads : pc[t] # "idle" ~> pc[t] = "idle" \/ EndLost

(* Guests that read until the end: a reader that can call Next does.         *)
ReadingSpec == FairSpec /\ \A t \in Threads : WF_vars(Start(t, "next"))

(* A guest that reads until io.EOF gets there (sdk.go:116-118), past every   *)
(* error on the way, unless the marker itself was refused.                   *)
ReadersFinish ==
    \A t \in Threads :
        "next" \in Operations[t] => <>(t \in finished \/ EndLost)

-----------------------------------------------------------------------------
(* The session keeps SessionPromise: the mutexes, the buffer and whatever    *)
(* the pipes hold are not visible to the guest.                              *)

Promise == INSTANCE SessionPromise WITH
    produced <- sent,
    consumed <- delivered,
    refused <- lost,
    issued <- nextRequestID,
    open <- {draft[t].n : t \in {u \in Threads : pc[u] \in InCall}},
    answered <- answered

(* Whatever the interleaving of readers, callers and emitters, and whatever  *)
(* the decoder refuses, the guest sees a queue of inputs and calls one after *)
(* the other.                                                                *)
KeepsPromise == Promise!Spec

=============================================================================
