------------------------ MODULE RunnerSessionProofs ------------------------
(* What TLAPS proves of RunnerSession, for every number of goroutines,       *)
(* inputs and requests and every pipe capacity.                              *)
EXTENDS RunnerSession, SequenceTheorems, TLAPS

USE ThreadsAssumption, OperationsAssumption, InputCountAssumption,
    MaxRequestsAssumption, MaxSpoiledAssumption, PipeCapacityAssumption

-----------------------------------------------------------------------------
(* Type correctness.                                                         *)

Typed == TypeOK /\ CallBound

LEMMA InitTyped == Init => Typed
<1> SUFFICES ASSUME Init PROVE Typed
  OBVIOUS
<1> USE DEF Init
<1>1. <<>> \in Seq(Inbound) /\ <<>> \in Seq(Outbound)
      /\ <<>> \in Seq([type : InputTypes, n : Nat])
  OBVIOUS
<1>2. NoDraft \in Outbound /\ Returned("none", 0, 0) \in Result
  BY DEF NoDraft, Outbound, Identity, Returned, Result, Kinds
<1>3. draft \in [Threads -> Outbound] /\ result \in [Threads -> Result]
  BY <1>2
<1>4. pc \in [Threads -> Locations] /\ taken \in [Threads -> Nat]
      /\ cancelled \in [Threads -> BOOLEAN]
  BY DEF Locations
<1>5. CallBound
  BY DEF CallBound
<1>6. executionID \in Identity /\ nodeID \in Identity
  BY DEF Identity
<1>7. sent \in 0 .. InputCount /\ nextRequestID \in 0 .. MaxRequests
      /\ spoiled \in 0 .. MaxSpoiled
  OBVIOUS
<1> QED
  BY <1>1, <1>3, <1>4, <1>5, <1>6, <1>7 DEF Typed, TypeOK

LEMMA BeginTyped ==
  ASSUME Typed, NEW t \in Threads, Begin(t) \/ Cancel(t) PROVE Typed'
<1> USE DEF Typed, TypeOK, CallBound, Locations, HoldsDecoder, HoldsEncoder,
            Recording, Identifying, InCall, Waiting, Goto, pipes, host, session,
            identity, locals, history, calls
<1>1. ASSUME NEW operation \in Calls, Start(t, operation) PROVE Typed'
  BY <1>1 DEF Start, MayCall, EntryPoint, Calls
<1>2. CASE StartEmit(t)
  BY <1>2 DEF StartEmit, NoDraft, Outbound, Identity
<1>3. CASE StartFail(t)
  <2>1. PICK e \in Identity :
          draft' = [draft EXCEPT ![t] = [type |-> "failed", n |-> 0,
                                         execution |-> e, node |-> "empty"]]
    BY <1>3 DEF StartFail, RacyRead, Assigned, Identity
  <2>2. draft' \in [Threads -> Outbound]
    BY <2>1 DEF Outbound, Identity
  <2> QED BY <1>3, <2>2 DEF StartFail
<1>4. CASE Cancel(t)
  BY <1>4 DEF Cancel
<1> QED BY <1>1, <1>2, <1>3, <1>4 DEF Begin

LEMMA AcquireTyped ==
  ASSUME Typed, NEW t \in Threads, Acquire(t) PROVE Typed'
<1> USE DEF Typed, TypeOK, CallBound, Locations, HoldsDecoder, HoldsEncoder,
            Recording, Identifying, InCall, Waiting, Goto, LockDecoder, pipes, host, session, identity,
            locals, history, calls
<1>1. CASE EnterReader(t)
  BY <1>1 DEF EnterReader, AfterLock
<1>2. CASE CallUninitialized(t)
  BY <1>2 DEF CallUninitialized, CallReturns, NoDraft, Outbound, Identity, Return,
     Returned, Result, Kinds
<1>3. CASE CallPrepare(t)
  BY <1>3 DEF CallPrepare, NewID, Outbound, Identity
<1>4. CASE EnterWriter(t)
  BY <1>4 DEF EnterWriter
<1> QED BY <1>1, <1>2, <1>3, <1>4 DEF Acquire

(* What a read of the two queues takes is well typed, as is what it leaves.  *)
LEMMA ReadTyped ==
  ASSUME TypeOK, inbound # <<>>
  PROVE  /\ Head(inbound) \in Inbound
         /\ Tail(inbound) \in Seq(Inbound)
         /\ IsInput(Head(inbound)) =>
              Head(inbound) \in [type : InputTypes, n : Nat]
<1>1. inbound \in Seq(Inbound)
  BY DEF TypeOK
<1>2. Head(inbound) \in Inbound /\ Tail(inbound) \in Seq(Inbound)
  BY <1>1, HeadTailProperties
<1> QED BY <1>2 DEF Inbound, IsInput

LEMMA TakeTyped ==
  ASSUME TypeOK, TakeMessage
  PROVE  /\ HeadOfInput \in Inbound
         /\ inbound' \in Seq(Inbound)
         /\ buffered' \in Seq([type : InputTypes, n : Nat])
<1>1. buffered \in Seq([type : InputTypes, n : Nat]) /\ inbound \in Seq(Inbound)
  BY DEF TypeOK
<1>2. CASE buffered # <<>>
  <2>1. /\ Head(buffered) \in [type : InputTypes, n : Nat]
        /\ Tail(buffered) \in Seq([type : InputTypes, n : Nat])
    BY <1>1, <1>2, HeadTailProperties
  <2> QED BY <1>1, <1>2, <2>1 DEF TakeMessage, HeadOfInput, Inbound
<1>3. CASE buffered = <<>>
  <2>1. inbound # <<>>
    BY <1>3 DEF TakeMessage
  <2> QED BY <1>1, <1>3, <2>1, ReadTyped DEF TakeMessage, HeadOfInput
<1> QED BY <1>2, <1>3

LEMMA RefusalTyped ==
  ASSUME TypeOK, ReadSpoiled
  PROVE  inbound' \in Seq(Inbound) /\ lost' \subseteq Nat
<1>1. Head(inbound) \in Inbound /\ inbound' \in Seq(Inbound)
  BY ReadTyped DEF ReadSpoiled
<1> QED BY <1>1 DEF ReadSpoiled, Inbound, TypeOK

LEMMA NextTyped ==
  ASSUME Typed, NEW t \in Threads,
         \/ NextUnsolicited(t) \/ NextEnd(t) \/ NextInput(t) \/ NextInitialize(t)
         \/ NextAssignExecution(t) \/ NextAssignNode(t)
         \/ NextClosed(t) \/ NextUndecoded(t)
  PROVE  Typed'
<1> USE DEF Typed, TypeOK, CallBound, Locations, HoldsDecoder, HoldsEncoder,
            Recording, Identifying, InCall, Waiting, Goto, Return, Returned, Result,
            Kinds, NextReturns, UnlockDecoder, readOnly, host, identity, history, calls
<1>1. CASE NextUnsolicited(t)
  BY <1>1, TakeTyped DEF NextUnsolicited, Inbound
<1>2. CASE NextEnd(t)
  BY <1>2, TakeTyped DEF NextEnd, Inbound
<1>3. CASE NextInitialize(t)
  BY <1>3, TakeTyped DEF NextInitialize, Inbound
<1>4. CASE NextAssignExecution(t)
  BY <1>4 DEF NextAssignExecution, Identity
<1>5. CASE NextInput(t)
  BY <1>5, TakeTyped DEF NextInput, Inbound
<1>6. CASE NextClosed(t)
  BY <1>6 DEF NextClosed
<1>7. CASE NextUndecoded(t)
  BY <1>7, RefusalTyped DEF NextUndecoded
<1>8. CASE NextAssignNode(t)
  BY <1>8 DEF NextAssignNode, Identity
<1> QED BY <1>1, <1>2, <1>3, <1>4, <1>5, <1>6, <1>7, <1>8

LEMMA DecodeTyped ==
  ASSUME Typed, NEW t \in Threads,
         \/ DecodeMessage(t) \/ DecodeClosed(t) \/ DecodeUndecoded(t)
         \/ IdentifyExecution(t) \/ IdentifyNode(t)
  PROVE  Typed'
<1> USE DEF Typed, TypeOK, CallBound, Locations, HoldsDecoder, HoldsEncoder,
            Recording, Identifying, InCall, Waiting, Goto, Return, Returned, Result,
            Kinds, UnlockDecoder, readOnly, host, identity, history, calls
<1>1. CASE DecodeMessage(t)
  BY <1>1, ReadTyped DEF DecodeMessage, Inbound
<1>2. CASE DecodeClosed(t)
  BY <1>2 DEF DecodeClosed
<1>3. CASE IdentifyExecution(t)
  BY <1>3 DEF IdentifyExecution, Identity
<1>4. CASE DecodeUndecoded(t)
  BY <1>4, RefusalTyped DEF DecodeUndecoded
<1>5. CASE IdentifyNode(t)
  BY <1>5 DEF IdentifyNode, Identity
<1> QED BY <1>1, <1>2, <1>3, <1>4, <1>5

LEMMA NodeTyped ==
  ASSUME TypeOK, NEW t \in Threads, NEW n \in Identity
  PROVE  [draft EXCEPT ![t].node = n] \in [Threads -> Outbound]
<1>1. draft \in [Threads -> Outbound] /\ draft[t] \in Outbound
  BY DEF TypeOK
<1>2. [draft[t] EXCEPT !.node = n] \in Outbound
  BY <1>1 DEF Outbound
<1> QED BY <1>1, <1>2

LEMMA CallTyped ==
  ASSUME Typed, NEW t \in Threads,
         \/ CallNode(t) \/ CallWrite(t) \/ CallRefused(t) \/ CallCancelled(t)
         \/ CallRead(t) \/ CallBuffer(t) \/ CallAnswered(t) \/ CallMismatch(t)
         \/ CallClosed(t) \/ CallUndecoded(t)
  PROVE  Typed'
<1>1. NoDraft \in Outbound
  BY DEF NoDraft, Outbound, Identity
<1>2. draft[t].n \in Nat
  BY DEF Typed, TypeOK, Outbound
<1> USE DEF Typed, TypeOK, CallBound, Locations, HoldsDecoder, HoldsEncoder,
            Recording, Identifying, InCall, Waiting, Goto, Return, Returned, Result, Kinds, EndCall,
            CallReturns, GiveUp, ReadResponse, UnlockDecoder, UnlockEncoder, pipes, host,
            session, identity, locals, history, calls
<1>3. CASE CallWrite(t)
  BY <1>3 DEF CallWrite, Write
<1>4. CASE CallRefused(t)
  BY <1>1, <1>2, <1>4 DEF CallRefused
<1>5. CASE CallCancelled(t)
  BY <1>1, <1>2, <1>5 DEF CallCancelled
<1>6. CASE CallRead(t)
  BY <1>6 DEF CallRead
<1>7. CASE CallBuffer(t)
  <2>1. Head(inbound) \in [type : InputTypes, n : Nat]
        /\ Tail(inbound) \in Seq(Inbound)
    BY <1>7, ReadTyped DEF CallBuffer
  <2>2. buffered' \in Seq([type : InputTypes, n : Nat])
    BY <1>7, <2>1, AppendProperties DEF CallBuffer, SetAside
  <2> QED BY <1>7, <2>1, <2>2 DEF CallBuffer
<1>8. CASE CallAnswered(t)
  BY <1>1, <1>2, <1>8, ReadTyped DEF CallAnswered, Inbound
<1>9. CASE CallMismatch(t)
  BY <1>1, <1>2, <1>9, ReadTyped DEF CallMismatch, Inbound
<1>10. CASE CallClosed(t)
  BY <1>1, <1>2, <1>10 DEF CallClosed
<1>11. CASE CallUndecoded(t)
  BY <1>1, <1>2, <1>11, RefusalTyped DEF CallUndecoded
<1>12. CASE CallNode(t)
  <2>1. draft' \in [Threads -> Outbound]
    BY <1>12, NodeTyped DEF CallNode
  <2> QED BY <1>12, <2>1 DEF CallNode
<1> QED BY <1>3, <1>4, <1>5, <1>6, <1>7, <1>8, <1>9, <1>10, <1>11, <1>12

LEMMA SendTyped ==
  ASSUME Typed, NEW t \in Threads, FailNode(t) \/ SendWrite(t) \/ SendRefused(t)
  PROVE  Typed'
<1>1. NoDraft \in Outbound
  BY DEF NoDraft, Outbound, Identity
<1> USE DEF Typed, TypeOK, CallBound, Locations, HoldsDecoder, HoldsEncoder,
            Recording, Identifying, InCall, Waiting, Goto, Return, Returned, Result, Kinds, SendReturns,
            UnlockEncoder, pipes, host, session, identity, history, calls
<1>2. CASE SendWrite(t)
  BY <1>1, <1>2 DEF SendWrite, Write
<1>3. CASE SendRefused(t)
  BY <1>1, <1>3 DEF SendRefused
<1>4. CASE FailNode(t)
  <2>1. PICK n \in Identity : draft' = [draft EXCEPT ![t].node = n]
    BY <1>4 DEF FailNode, RacyRead, Assigned, Identity
  <2>2. draft' \in [Threads -> Outbound]
    BY <2>1, NodeTyped
  <2> QED BY <1>4, <2>2 DEF FailNode
<1> QED BY <1>2, <1>3, <1>4

LEMMA HostTyped == ASSUME Typed, HostStep PROVE Typed'
<1> USE DEF Typed, TypeOK, CallBound, hostLeaves, host, session, identity,
            locals, history, calls
<1>1. ASSUME NEW m \in Inbound, SendInput(m), spoiled' \in 0 .. MaxSpoiled
      PROVE  Typed'
  BY <1>1 DEF SendInput
<1>2. CASE HostSend \/ HostSpoilInput
  <2>1. InputMessage(sent + 1) \in Inbound /\ SpoiledInput(sent + 1) \in Inbound
    BY DEF InputMessage, SpoiledInput, Inbound, InputTypes, SpoiledTypes
  <2>2. CASE HostSend
    BY <1>1, <2>1, <2>2 DEF HostSend
  <2>3. CASE HostSpoilInput
    <3>1. SendInput(SpoiledInput(sent + 1)) /\ spoiled' \in 0 .. MaxSpoiled
      BY <2>3 DEF HostSpoilInput
    <3> QED BY <1>1, <2>1, <3>1
  <2> QED BY <1>2, <2>2, <2>3
<1>3. CASE HostRead
  <2>1. Head(outbound) \in Outbound /\ Tail(outbound) \in Seq(Outbound)
    BY <1>3, HeadTailProperties DEF HostRead
  <2>2. Head(outbound).n \in Nat
    BY <2>1 DEF Outbound
  <2> QED BY <1>3, <2>1, <2>2 DEF HostRead
<1>4. CASE HostClose
  BY <1>4 DEF HostClose
<1>5. ASSUME NEW id \in 1 .. MaxRequests, HostAnswer(id) \/ HostSpoilAnswer(id)
      PROVE  Typed'
  <2>1. Response(id) \in Inbound /\ SpoiledAnswer(id) \in Inbound
    BY DEF Response, SpoiledAnswer, Inbound, SpoiledTypes
  <2>2. ASSUME NEW m \in Inbound, SendAnswer(id, m), spoiled' \in 0 .. MaxSpoiled
        PROVE  Typed'
    BY <2>2 DEF SendAnswer
  <2>3. CASE HostAnswer(id)
    BY <2>1, <2>2, <2>3 DEF HostAnswer
  <2>4. CASE HostSpoilAnswer(id)
    <3>1. SendAnswer(id, SpoiledAnswer(id)) /\ spoiled' \in 0 .. MaxSpoiled
      BY <2>4 DEF HostSpoilAnswer
    <3> QED BY <2>1, <2>2, <3>1
  <2> QED BY <1>5, <2>3, <2>4
<1> QED BY <1>2, <1>3, <1>4, <1>5 DEF HostStep

LEMMA StepTyped == Typed /\ [Next]_vars => Typed'
<1> SUFFICES ASSUME Typed, [Next]_vars PROVE Typed'
  OBVIOUS
<1>1. CASE UNCHANGED vars
  BY <1>1 DEF Typed, TypeOK, CallBound, vars, pipes, host, session, identity,
              locals, history, calls
<1>2. CASE GuestEnded
  BY <1>1, <1>2 DEF GuestEnded
<1>3. ASSUME NEW t \in Threads, Step(t) PROVE Typed'
  BY <1>3, NextTyped, DecodeTyped, CallTyped, SendTyped DEF Step
<1> QED
  BY <1>1, <1>2, <1>3, BeginTyped, AcquireTyped, HostTyped DEF Next

LEMMA TypedInvariant == Spec => []Typed
  BY InitTyped, StepTyped, PTL DEF Spec

(* Every variable stays in its type, and `buffered` never holds a capability *)
(* response.                                                                 *)
THEOREM TypeCorrect == Spec => []TypeOK
<1>1. Typed => TypeOK
  BY DEF Typed
<1> QED BY <1>1, TypedInvariant, PTL
-----------------------------------------------------------------------------
(* The mutexes.                                                              *)

(* The host reaches no more of the guest than the pipes.                     *)
LEMMA HostFrame ==
  ASSUME HostStep
  PROVE  /\ UNCHANGED <<decoderMu, encoderMu, buffered, executionID, nodeID,
                        nextRequestID, pc, draft, taken, cancelled, result>>
         /\ UNCHANGED <<delivered, lost, answered, abandoned, finished>>
  BY DEF HostStep, HostSend, HostSpoilInput, SendInput, HostRead, HostAnswer,
         HostSpoilAnswer, SendAnswer, HostClose, hostLeaves, session, identity,
         locals, history, calls

LEMMA LockStep == Typed /\ LockInv /\ [Next]_vars => LockInv'
<1> SUFFICES ASSUME Typed, LockInv, [Next]_vars PROVE LockInv'
  OBVIOUS
<1> USE DEF Typed, TypeOK, LockInv, HoldsDecoder, HoldsEncoder, Recording,
            Identifying, InCall, Waiting, Goto
<1>1. CASE UNCHANGED vars
  BY <1>1 DEF vars
<1>2. ASSUME NEW t \in Threads, Begin(t) \/ Cancel(t) PROVE LockInv'
  <2>1. ASSUME NEW operation \in Calls, Start(t, operation) PROVE LockInv'
    BY <2>1 DEF Start, EntryPoint, Calls
  <2>2. CASE StartEmit(t) \/ StartFail(t)
    BY <2>2 DEF StartEmit, StartFail
  <2>3. CASE Cancel(t)
    BY <2>3 DEF Cancel
  <2> QED BY <1>2, <2>1, <2>2, <2>3 DEF Begin
<1>3. ASSUME NEW t \in Threads, Acquire(t) PROVE LockInv'
  <2>1. CASE EnterReader(t)
    BY <2>1 DEF EnterReader, AfterLock, LockDecoder
  <2>2. CASE CallUninitialized(t)
    BY <2>2 DEF CallUninitialized, CallReturns, Return
  <2>3. CASE CallPrepare(t)
    BY <2>3 DEF CallPrepare, LockDecoder
  <2>4. CASE EnterWriter(t)
    BY <2>4 DEF EnterWriter
  <2> QED BY <1>3, <2>1, <2>2, <2>3, <2>4 DEF Acquire
<1>4. ASSUME NEW t \in Threads, Step(t) PROVE LockInv'
  <2> USE DEF Return, UnlockDecoder, UnlockEncoder, readOnly
  <2>1. CASE NextUnsolicited(t) \/ NextEnd(t) \/ NextInput(t)
    BY <2>1 DEF NextUnsolicited, NextEnd, NextInput, NextReturns
  <2>2. CASE \/ NextInitialize(t) \/ NextAssignExecution(t) \/ NextAssignNode(t)
             \/ NextClosed(t) \/ NextUndecoded(t)
    BY <2>2 DEF NextInitialize, NextAssignExecution, NextAssignNode, NextClosed,
                NextUndecoded
  <2>3. CASE \/ DecodeMessage(t) \/ DecodeClosed(t) \/ DecodeUndecoded(t)
             \/ IdentifyExecution(t) \/ IdentifyNode(t)
    BY <2>3 DEF DecodeMessage, DecodeClosed, DecodeUndecoded, IdentifyExecution,
                IdentifyNode
  <2>4. CASE \/ CallNode(t) \/ CallWrite(t) \/ CallRefused(t) \/ CallRead(t)
             \/ CallBuffer(t)
    BY <2>4 DEF CallNode, CallWrite, CallRefused, CallReturns, CallRead, CallBuffer
  <2>5. CASE \/ CallCancelled(t) \/ CallAnswered(t) \/ CallMismatch(t)
             \/ CallClosed(t) \/ CallUndecoded(t)
    BY <2>5 DEF CallCancelled, CallAnswered, CallMismatch, CallClosed, CallUndecoded,
                EndCall, GiveUp, CallReturns, ReadResponse
  <2>6. CASE FailNode(t) \/ SendWrite(t) \/ SendRefused(t)
    BY <2>6 DEF FailNode, SendWrite, SendRefused, SendReturns
  <2> QED BY <1>4, <2>1, <2>2, <2>3, <2>4, <2>5, <2>6 DEF Step
<1>5. CASE HostStep
  BY <1>5, HostFrame
<1> QED BY <1>1, <1>2, <1>3, <1>4, <1>5 DEF Next, GuestEnded

(* Each mutex is held exactly inside the code it guards: no error path       *)
(* leaves one locked, and no two goroutines are inside at once.              *)
THEOREM LocksHeld == Spec => []LockInv
<1>1. Init => LockInv
  BY DEF Init, LockInv, HoldsDecoder, HoldsEncoder, Recording, Identifying, InCall,
         Waiting
<1> QED BY <1>1, LockStep, TypedInvariant, PTL DEF Spec

(* However many goroutines wait for the mutexes, one that holds one of them  *)
(* does not: what holds them all up can only be a pipe.                      *)
THEOREM NobodyWaitsInACircle == Spec => []NoCircularWait
<1>1. Typed /\ LockInv => NoCircularWait
  <2> SUFFICES ASSUME Typed, LockInv, NEW t \in Threads, AwaitsLock(t)
               PROVE  \E u \in {decoderMu, encoderMu} \cap Threads :
                        pc[u] \in HoldsDecoder \cup HoldsEncoder /\ ~AwaitsLock(u)
    BY DEF NoCircularWait
  <2>1. decoderMu \in Threads \cup {NoThread} /\ encoderMu \in Threads \cup {NoThread}
    BY DEF Typed, TypeOK
  <2>2. CASE encoderMu # NoThread
    <3>1. encoderMu \in Threads /\ pc[encoderMu] \in HoldsEncoder
      BY <2>1, <2>2 DEF LockInv
    <3> QED BY <3>1 DEF AwaitsLock, HoldsEncoder, AfterLock
  <2>3. CASE encoderMu = NoThread
    <3>1. decoderMu \in Threads /\ pc[decoderMu] \in HoldsDecoder
      BY <2>1, <2>3 DEF LockInv, AwaitsLock
    <3> QED BY <2>3, <3>1 DEF AwaitsLock, HoldsDecoder, Recording, Identifying, InCall,
               Waiting, AfterLock
  <2> QED BY <2>2, <2>3
<1>2. Spec => []LockInv
  BY LocksHeld
<1> QED BY <1>1, <1>2, TypedInvariant, PTL

-----------------------------------------------------------------------------
(* The inputs. What is proved of their order is about guests that use Decode *)
(* as it is meant, if at all: it reads past what a call has set aside.       *)

(* Lemmas about the inputs in front of a position.                           *)
NumberOf(m) == IF CarriesInput(m) THEN {m.n} ELSE {}

LEMMA AheadOfAppend ==
  ASSUME NEW q \in Seq(Inbound), NEW m \in Inbound
  PROVE  /\ \A i \in 1 .. Len(q) + 1 : AheadOf(Append(q, m), i) = AheadOf(q, i)
         /\ AheadOf(Append(q, m), Len(q) + 2) = AheadOf(q, Len(q) + 1) \cup NumberOf(m)
<1>1. /\ Len(Append(q, m)) = Len(q) + 1 /\ Len(q) \in Nat
      /\ \A i \in 1 .. Len(q) : Append(q, m)[i] = q[i]
      /\ Append(q, m)[Len(q) + 1] = m
  BY AppendProperties, LenProperties
<1>2. ASSUME NEW i \in 1 .. Len(q) + 1 PROVE AheadOf(Append(q, m), i) = AheadOf(q, i)
  <2>1. \A k \in 1 .. i - 1 : k \in 1 .. Len(q)
    BY <1>1
  <2> QED BY <1>1, <2>1 DEF AheadOf
<1>3. AheadOf(Append(q, m), Len(q) + 2) = AheadOf(q, Len(q) + 1) \cup NumberOf(m)
  <2>1. Len(q) + 2 - 1 = Len(q) + 1 /\ Len(q) + 1 - 1 = Len(q)
    BY <1>1
  <2>2. 1 .. Len(q) + 1 = (1 .. Len(q)) \cup {Len(q) + 1}
    BY <1>1
  <2> QED BY <1>1, <2>1, <2>2 DEF AheadOf, NumberOf
<1> QED BY <1>2, <1>3

LEMMA AheadOfTail ==
  ASSUME NEW q \in Seq(Inbound), q # <<>>, NEW i \in 1 .. Len(q)
  PROVE  AheadOf(q, i + 1) = NumberOf(Head(q)) \cup AheadOf(Tail(q), i)
<1>1. /\ Len(q) \in Nat /\ Len(q) >= 1 /\ Head(q) = q[1]
      /\ \A k \in 1 .. Len(q) - 1 : Tail(q)[k] = q[k + 1]
  BY HeadTailProperties, LenProperties, EmptySeq
<1>2. \A k \in 1 .. i - 1 : k \in 1 .. Len(q) - 1 /\ Tail(q)[k] = q[k + 1]
  BY <1>1
<1>3. ASSUME NEW x \in AheadOf(q, i + 1)
      PROVE  x \in NumberOf(Head(q)) \cup AheadOf(Tail(q), i)
  <2>1. PICK j \in 1 .. i : CarriesInput(q[j]) /\ x = q[j].n
    BY <1>3 DEF AheadOf
  <2>2. CASE j = 1
    BY <1>1, <2>1, <2>2 DEF NumberOf
  <2>3. CASE j # 1
    <3>1. j - 1 \in 1 .. i - 1 /\ Tail(q)[j - 1] = q[j]
      BY <1>2, <2>3
    <3> QED BY <2>1, <3>1 DEF AheadOf
  <2> QED BY <2>2, <2>3
<1>4. ASSUME NEW x \in NumberOf(Head(q)) PROVE x \in AheadOf(q, i + 1)
  <2>1. 1 \in 1 .. (i + 1) - 1
    BY <1>1
  <2> QED BY <1>1, <1>4, <2>1 DEF NumberOf, AheadOf
<1>5. ASSUME NEW x \in AheadOf(Tail(q), i) PROVE x \in AheadOf(q, i + 1)
  <2>1. PICK j \in 1 .. i - 1 : CarriesInput(Tail(q)[j]) /\ x = Tail(q)[j].n
    BY <1>5 DEF AheadOf
  <2>2. j + 1 \in 1 .. (i + 1) - 1 /\ q[j + 1] = Tail(q)[j]
    BY <1>2
  <2> QED BY <2>1, <2>2 DEF AheadOf
<1> QED BY <1>3, <1>4, <1>5

(* A queue that continues the inputs from a to b, but for those that are gone *)
(* (Continues, for any set of inputs in the place of `lost`).                *)
Follows(q, a, b, gone) ==
    /\ a <= b
    /\ \A i \in 1 .. Len(q) :
         CarriesInput(q[i]) =>
            /\ q[i].n \in a + 1 .. b
            /\ AheadOf(q, i) = (a + 1 .. q[i].n - 1) \ gone
    /\ AheadOf(q, Len(q) + 1) = (a + 1 .. b) \ gone

(* n is the next input after a that is not gone.                             *)
NextAfter(n, a, gone) == n > a /\ n \notin gone /\ a + 1 .. n - 1 \subseteq gone

(* The input at the head of a queue is the next one, and the others follow it. *)
LEMMA HeadIsNext ==
  ASSUME NEW a \in Nat, NEW b \in Nat, NEW gone, NEW q \in Seq(Inbound),
         Follows(q, a, b, gone), q # <<>>, CarriesInput(Head(q))
  PROVE  /\ Head(q).n \in a + 1 .. b /\ NextAfter(Head(q).n, a, gone)
         /\ \A i \in 1 .. Len(Tail(q)) :
              CarriesInput(Tail(q)[i]) => Tail(q)[i].n \in Head(q).n + 1 .. b
         /\ \A i \in 1 .. Len(q) : /\ AheadOf(q, i + 1) = {Head(q).n} \cup AheadOf(Tail(q), i)
                                  /\ Head(q).n \notin AheadOf(Tail(q), i)
<1>1. /\ Len(q) \in Nat /\ Len(q) >= 1 /\ Head(q) = q[1] /\ Len(Tail(q)) = Len(q) - 1
      /\ \A k \in 1 .. Len(q) - 1 : Tail(q)[k] = q[k + 1]
  BY HeadTailProperties, LenProperties, EmptySeq
<1>2. PICK n : n = Head(q).n
  OBVIOUS
<1>3. n \in a + 1 .. b /\ AheadOf(q, 1) = (a + 1 .. n - 1) \ gone
  BY <1>1, <1>2 DEF Follows
<1>4. ASSUME NEW i \in 1 .. Len(q) PROVE AheadOf(q, i + 1) = {n} \cup AheadOf(Tail(q), i)
  BY <1>2, AheadOfTail DEF NumberOf
<1>5. AheadOf(q, 1) = {}
  BY DEF AheadOf
<1>6. a + 1 .. n - 1 \subseteq gone
  BY <1>3, <1>5
<1>7. n \notin gone
  <2>1. Len(q) \in 1 .. Len(q)
    BY <1>1
  <2>2. n \in AheadOf(q, Len(q) + 1)
    BY <1>4, <2>1
  <2> QED BY <2>2 DEF Follows
<1>8. ASSUME NEW i \in 1 .. Len(Tail(q)), CarriesInput(Tail(q)[i])
      PROVE  Tail(q)[i].n \in n + 1 .. b
  <2>1. i + 1 \in 1 .. Len(q) /\ i \in 1 .. Len(q) /\ Tail(q)[i] = q[i + 1]
    BY <1>1
  <2>2. q[i + 1].n \in a + 1 .. b
        /\ AheadOf(q, i + 1) = (a + 1 .. q[i + 1].n - 1) \ gone
    BY <1>8, <2>1 DEF Follows
  <2>3. n \in a + 1 .. q[i + 1].n - 1
    BY <1>4, <2>1, <2>2
  <2> QED BY <1>3, <2>1, <2>2, <2>3
<1>9. ASSUME NEW i \in 1 .. Len(q), n \in AheadOf(Tail(q), i) PROVE FALSE
  <2>1. PICK j \in 1 .. i - 1 : CarriesInput(Tail(q)[j]) /\ n = Tail(q)[j].n
    BY <1>9 DEF AheadOf
  <2>2. j \in 1 .. Len(Tail(q))
    BY <1>1
  <2>3. n \in n + 1 .. b
    BY <1>8, <2>1, <2>2
  <2> QED BY <1>3, <2>3
<1>10. NextAfter(n, a, gone)
  BY <1>3, <1>6, <1>7 DEF NextAfter
<1> QED BY <1>2, <1>3, <1>4, <1>8, <1>9, <1>10

(* It can be taken ...                                                       *)
LEMMA HeadTaken ==
  ASSUME NEW a \in Nat, NEW b \in Nat, NEW gone, NEW q \in Seq(Inbound),
         Follows(q, a, b, gone), q # <<>>, CarriesInput(Head(q))
  PROVE  /\ Head(q).n \in a + 1 .. b /\ NextAfter(Head(q).n, a, gone)
         /\ Follows(Tail(q), Head(q).n, b, gone)
<1> DEFINE n == Head(q).n
           T == Tail(q)
<1>1. /\ n \in a + 1 .. b /\ NextAfter(n, a, gone)
      /\ \A i \in 1 .. Len(T) : CarriesInput(T[i]) => T[i].n \in n + 1 .. b
      /\ \A i \in 1 .. Len(q) : /\ AheadOf(q, i + 1) = {n} \cup AheadOf(T, i)
                               /\ n \notin AheadOf(T, i)
  BY HeadIsNext
<1>2. /\ Len(q) \in Nat /\ Len(q) >= 1 /\ Len(T) = Len(q) - 1
      /\ \A k \in 1 .. Len(q) - 1 : T[k] = q[k + 1]
  BY HeadTailProperties, LenProperties, EmptySeq
<1> HIDE DEF n, T
<1>3. ASSUME NEW i \in 1 .. Len(q), NEW m \in Int,
             AheadOf(q, i + 1) = (a + 1 .. m) \ gone
      PROVE  AheadOf(T, i) = (n + 1 .. m) \ gone
  <2>1. ASSUME NEW x \in AheadOf(T, i) PROVE x \in (n + 1 .. m) \ gone
    <3>1. x \in (a + 1 .. m) \ gone /\ x # n
      BY <1>1, <1>3
    <3>2. x \notin a + 1 .. n - 1
      BY <1>1, <3>1 DEF NextAfter
    <3> QED BY <1>1, <3>1, <3>2
  <2>2. ASSUME NEW x \in (n + 1 .. m) \ gone PROVE x \in AheadOf(T, i)
    <3>1. x \in (a + 1 .. m) \ gone /\ x # n
      BY <1>1
    <3> QED BY <1>1, <1>3, <3>1
  <2> QED BY <2>1, <2>2
<1>4. ASSUME NEW i \in 1 .. Len(T), CarriesInput(T[i])
      PROVE  T[i].n \in n + 1 .. b /\ AheadOf(T, i) = (n + 1 .. T[i].n - 1) \ gone
  <2>1. i + 1 \in 1 .. Len(q) /\ i \in 1 .. Len(q) /\ T[i] = q[i + 1]
    BY <1>2
  <2>2. T[i].n \in n + 1 .. b
    BY <1>1, <1>4
  <2>3. AheadOf(q, i + 1) = (a + 1 .. T[i].n - 1) \ gone
    BY <1>4, <2>1 DEF Follows
  <2>4. T[i].n - 1 \in Int
    BY <1>1, <2>2
  <2> QED BY <1>3, <2>1, <2>2, <2>3, <2>4
<1>5. AheadOf(T, Len(T) + 1) = (n + 1 .. b) \ gone
  <2>1. Len(q) \in 1 .. Len(q) /\ Len(T) + 1 = Len(q)
    BY <1>2
  <2> QED BY <1>3, <2>1 DEF Follows
<1> QED BY <1>1, <1>4, <1>5 DEF Follows, n, T

(* ... or be lost, and no other input is affected.                           *)
LEMMA HeadLost ==
  ASSUME NEW a \in Nat, NEW b \in Nat, NEW gone, NEW q \in Seq(Inbound),
         Follows(q, a, b, gone), q # <<>>, CarriesInput(Head(q))
  PROVE  Follows(Tail(q), a, b, gone \cup {Head(q).n})
<1> DEFINE n == Head(q).n
           T == Tail(q)
<1>1. /\ n \in a + 1 .. b
      /\ \A i \in 1 .. Len(q) : /\ AheadOf(q, i + 1) = {n} \cup AheadOf(T, i)
                               /\ n \notin AheadOf(T, i)
  BY HeadIsNext
<1>2. /\ Len(q) \in Nat /\ Len(q) >= 1 /\ Len(T) = Len(q) - 1
      /\ \A k \in 1 .. Len(q) - 1 : T[k] = q[k + 1]
  BY HeadTailProperties, LenProperties, EmptySeq
<1> HIDE DEF n, T
<1>3. ASSUME NEW i \in 1 .. Len(T), CarriesInput(T[i])
      PROVE  /\ T[i].n \in a + 1 .. b
             /\ AheadOf(T, i) = (a + 1 .. T[i].n - 1) \ (gone \cup {n})
  <2>1. i + 1 \in 1 .. Len(q) /\ i \in 1 .. Len(q) /\ T[i] = q[i + 1]
    BY <1>2
  <2>2. T[i].n \in a + 1 .. b /\ AheadOf(q, i + 1) = (a + 1 .. T[i].n - 1) \ gone
    BY <1>3, <2>1 DEF Follows
  <2> QED BY <1>1, <2>1, <2>2
<1>4. AheadOf(T, Len(T) + 1) = (a + 1 .. b) \ (gone \cup {n})
  <2>1. Len(q) \in 1 .. Len(q) /\ Len(T) + 1 = Len(q)
    BY <1>2
  <2> QED BY <1>1, <2>1 DEF Follows
<1> QED BY <1>3, <1>4 DEF Follows, n, T

LEMMA LostElsewhere ==
  ASSUME NEW a \in Nat, NEW b \in Nat, NEW gone, NEW q \in Seq(Inbound),
         Follows(q, a, b, gone), NEW n \in Nat, n > b
  PROVE  Follows(q, a, b, gone \cup {n})
<1>1. ASSUME NEW i \in 1 .. Len(q), CarriesInput(q[i])
      PROVE  AheadOf(q, i) = (a + 1 .. q[i].n - 1) \ (gone \cup {n})
  <2>1. q[i].n \in a + 1 .. b /\ AheadOf(q, i) = (a + 1 .. q[i].n - 1) \ gone
    BY <1>1 DEF Follows
  <2>2. n \notin a + 1 .. q[i].n - 1
    BY <2>1
  <2> QED BY <2>1, <2>2
<1>2. AheadOf(q, Len(q) + 1) = (a + 1 .. b) \ (gone \cup {n})
  <2>1. n \notin a + 1 .. b
    OBVIOUS
  <2> QED BY <2>1 DEF Follows
<1> QED BY <1>1, <1>2 DEF Follows

(* A response at the head of the pipe concerns no input.                     *)
LEMMA OtherTaken ==
  ASSUME NEW a, NEW b, NEW gone, NEW q \in Seq(Inbound),
         Follows(q, a, b, gone), q # <<>>, ~CarriesInput(Head(q))
  PROVE  Follows(Tail(q), a, b, gone)
<1>1. /\ Len(q) \in Nat /\ Len(q) >= 1 /\ Len(Tail(q)) = Len(q) - 1
      /\ \A k \in 1 .. Len(q) - 1 : Tail(q)[k] = q[k + 1]
  BY HeadTailProperties, LenProperties, EmptySeq
<1>2. ASSUME NEW i \in 1 .. Len(q) PROVE AheadOf(Tail(q), i) = AheadOf(q, i + 1)
  BY AheadOfTail DEF NumberOf
<1>3. ASSUME NEW i \in 1 .. Len(Tail(q)), CarriesInput(Tail(q)[i])
      PROVE  /\ Tail(q)[i].n \in a + 1 .. b
             /\ AheadOf(Tail(q), i) = (a + 1 .. Tail(q)[i].n - 1) \ gone
  <2>1. i + 1 \in 1 .. Len(q) /\ i \in 1 .. Len(q) /\ Tail(q)[i] = q[i + 1]
    BY <1>1
  <2>2. q[i + 1].n \in a + 1 .. b /\ AheadOf(q, i + 1) = (a + 1 .. q[i + 1].n - 1) \ gone
    BY <1>3, <2>1 DEF Follows
  <2> QED BY <1>2, <2>1, <2>2
<1>4. AheadOf(Tail(q), Len(Tail(q)) + 1) = (a + 1 .. b) \ gone
  <2>1. Len(q) \in 1 .. Len(q) /\ Len(Tail(q)) + 1 = Len(q)
    BY <1>1
  <2> QED BY <1>2, <2>1 DEF Follows
<1> QED BY <1>3, <1>4 DEF Follows

(* The next input is appended, by the host or by a call that sets it aside.  *)
LEMMA InputAppended ==
  ASSUME NEW a \in Nat, NEW b \in Nat, NEW gone, NEW q \in Seq(Inbound),
         Follows(q, a, b, gone),
         NEW m \in Inbound, CarriesInput(m), NextAfter(m.n, b, gone)
  PROVE  Follows(Append(q, m), a, m.n, gone)
<1>1. /\ Len(Append(q, m)) = Len(q) + 1 /\ Len(q) \in Nat
      /\ \A i \in 1 .. Len(q) : Append(q, m)[i] = q[i]
      /\ Append(q, m)[Len(q) + 1] = m
  BY AppendProperties, LenProperties
<1>2. m.n \in Nat /\ a <= b /\ b < m.n /\ m.n \notin gone /\ b + 1 .. m.n - 1 \subseteq gone
  BY DEF Inbound, NextAfter, Follows
<1>3. (a + 1 .. m.n - 1) \ gone = (a + 1 .. b) \ gone
  <2>1. ASSUME NEW x \in (a + 1 .. m.n - 1) \ gone PROVE x \in a + 1 .. b
    <3>1. x \notin b + 1 .. m.n - 1
      BY <1>2
    <3> QED BY <1>2, <3>1
  <2>2. ASSUME NEW x \in a + 1 .. b PROVE x \in a + 1 .. m.n - 1
    BY <1>2
  <2> QED BY <2>1, <2>2
<1>4. ASSUME NEW i \in 1 .. Len(q) + 1, CarriesInput(Append(q, m)[i])
      PROVE  /\ Append(q, m)[i].n \in a + 1 .. m.n
             /\ AheadOf(Append(q, m), i) = (a + 1 .. Append(q, m)[i].n - 1) \ gone
  <2>1. AheadOf(Append(q, m), i) = AheadOf(q, i)
    BY AheadOfAppend
  <2>2. CASE i = Len(q) + 1
    <3>1. Append(q, m)[i] = m /\ AheadOf(q, i) = (a + 1 .. b) \ gone
      BY <1>1, <2>2 DEF Follows
    <3>2. m.n \in a + 1 .. m.n
      BY <1>2
    <3> QED BY <1>3, <2>1, <3>1, <3>2
  <2>3. CASE i # Len(q) + 1
    <3>1. i \in 1 .. Len(q) /\ Append(q, m)[i] = q[i]
      BY <1>1, <2>3
    <3>2. q[i].n \in a + 1 .. b /\ AheadOf(q, i) = (a + 1 .. q[i].n - 1) \ gone
      BY <1>4, <3>1 DEF Follows
    <3> QED BY <1>2, <2>1, <3>1, <3>2
  <2> QED BY <2>2, <2>3
<1>5. AheadOf(Append(q, m), Len(q) + 2) = (a + 1 .. m.n) \ gone
  <2>1. AheadOf(Append(q, m), Len(q) + 2) = ((a + 1 .. b) \ gone) \cup {m.n}
    BY AheadOfAppend DEF NumberOf, Follows
  <2>2. a + 1 .. m.n = (a + 1 .. m.n - 1) \cup {m.n}
    BY <1>2
  <2> QED BY <1>2, <1>3, <2>1, <2>2
<1>6. a <= m.n /\ Len(Append(q, m)) + 1 = Len(q) + 2
  BY <1>1, <1>2
<1> QED BY <1>1, <1>4, <1>5, <1>6 DEF Follows

LEMMA OtherAppended ==
  ASSUME NEW a \in Nat, NEW b \in Nat, NEW gone, NEW q \in Seq(Inbound),
         Follows(q, a, b, gone), NEW m \in Inbound, ~CarriesInput(m)
  PROVE  Follows(Append(q, m), a, b, gone)
<1>1. /\ Len(Append(q, m)) = Len(q) + 1 /\ Len(q) \in Nat
      /\ \A i \in 1 .. Len(q) : Append(q, m)[i] = q[i]
      /\ Append(q, m)[Len(q) + 1] = m
  BY AppendProperties, LenProperties
<1>2. ASSUME NEW i \in 1 .. Len(q) + 1, CarriesInput(Append(q, m)[i])
      PROVE  /\ Append(q, m)[i].n \in a + 1 .. b
             /\ AheadOf(Append(q, m), i) = (a + 1 .. Append(q, m)[i].n - 1) \ gone
  <2>1. AheadOf(Append(q, m), i) = AheadOf(q, i)
    BY AheadOfAppend
  <2>2. i \in 1 .. Len(q) /\ Append(q, m)[i] = q[i]
    BY <1>1, <1>2
  <2> QED BY <1>2, <2>1, <2>2 DEF Follows
<1>3. AheadOf(Append(q, m), Len(q) + 2) = (a + 1 .. b) \ gone
  BY AheadOfAppend DEF NumberOf, Follows
<1>4. Len(Append(q, m)) + 1 = Len(q) + 2
  BY <1>1
<1> QED BY <1>1, <1>2, <1>3, <1>4 DEF Follows

LEMMA NothingFollows ==
  ASSUME NEW a \in Nat, NEW b \in Nat, NEW gone
  PROVE  /\ Follows(<<>>, a, b, gone) => a + 1 .. b \subseteq gone
         /\ a = b => Follows(<<>>, a, b, gone)
<1>1. Len(<<>>) = 0 /\ AheadOf(<<>>, 1) = {}
  BY DEF AheadOf
<1>2. ASSUME a = b PROVE Follows(<<>>, a, b, gone)
  <2>1. a + 1 .. b = {}
    BY <1>2
  <2> QED BY <1>1, <1>2, <2>1 DEF Follows
<1>3. ASSUME Follows(<<>>, a, b, gone) PROVE a + 1 .. b \subseteq gone
  BY <1>1, <1>3 DEF Follows
<1> QED BY <1>2, <1>3

LEMMA NextAfterGap ==
  ASSUME NEW a \in Nat, NEW r \in Nat, NEW n \in Nat, NEW gone, a <= r,
         a + 1 .. r \subseteq gone, NextAfter(n, r, gone)
  PROVE  NextAfter(n, a, gone)
<1>1. n > r /\ n \notin gone /\ r + 1 .. n - 1 \subseteq gone
  BY DEF NextAfter
<1>2. ASSUME NEW x \in a + 1 .. n - 1 PROVE x \in gone
  <2>1. x \in a + 1 .. r \/ x \in r + 1 .. n - 1
    OBVIOUS
  <2> QED BY <1>1, <2>1
<1> QED BY <1>1, <1>2 DEF NextAfter

-----------------------------------------------------------------------------
(* The inductive invariant about inputs: only the goroutine between reading  *)
(* initialize and recording it has claimed an input, and it is the next one. *)

ClaimInv ==
    /\ lost \subseteq 1 .. sent
    /\ \A t \in Threads :
        /\ taken[t] # 0 <=> pc[t] \in Recording
        /\ pc[t] \in Recording => NextAfter(taken[t], delivered, lost)

(* Before the first request no call has set anything aside.                  *)
Untouched ==
    nextRequestID = 0 =>
        buffered = <<>> /\ \A t \in Threads : pc[t] \notin InCall

InputInv ==
    /\ Typed /\ LockInv /\ ClaimInv
    /\ HeaderFirst /\ Untouched
    /\ InputsConserved

LEMMA Conserved ==
  /\ InputsConserved <=>
        \E r \in Claimed .. sent :
            Follows(buffered, Claimed, r, lost) /\ Follows(inbound, r, sent, lost)
  /\ InputsConserved' <=>
        \E r \in Claimed' .. sent' :
            Follows(buffered', Claimed', r, lost') /\ Follows(inbound', r, sent', lost')
  BY DEF InputsConserved, Continues, Follows

LEMMA ClaimedTyped ==
  ASSUME TypeOK
  PROVE  Claimed \in Nat /\ delivered \in Nat /\ sent \in Nat
<1>1. CASE InHand = {}
  BY <1>1 DEF TypeOK, Claimed
<1>2. CASE InHand # {}
  <2>1. (CHOOSE t \in InHand : TRUE) \in Threads
    BY <1>2 DEF InHand
  <2> QED BY <1>2, <2>1 DEF TypeOK, Claimed
<1> QED BY <1>1, <1>2 DEF TypeOK

LEMMA QueuesTyped ==
  ASSUME TypeOK
  PROVE  /\ buffered \in Seq(Inbound) /\ inbound \in Seq(Inbound)
         /\ \A i \in 1 .. Len(buffered) : IsInput(buffered[i])
<1>1. [type : InputTypes, n : Nat] \subseteq Inbound
  BY DEF Inbound
<1>2. buffered \in Seq([type : InputTypes, n : Nat]) /\ inbound \in Seq(Inbound)
  BY DEF TypeOK
<1>3. buffered \in Seq(Inbound)
  BY <1>1, <1>2, SeqMonotonic
<1>4. ASSUME NEW i \in 1 .. Len(buffered) PROVE IsInput(buffered[i])
  <2>1. buffered[i] \in [type : InputTypes, n : Nat]
    BY <1>2, ElementOfSeq
  <2> QED BY <2>1 DEF InputTypes, IsInput
<1> QED BY <1>2, <1>3, <1>4

(* Whoever else is inside decoderMu, nothing is claimed ...                  *)
LEMMA NothingClaimed ==
  ASSUME Typed, LockInv, ClaimInv, NEW t \in Threads,
         pc[t] \in HoldsDecoder, pc[t] \notin Recording
  PROVE  /\ Claimed = delivered
         /\ \A u \in Threads : taken[u] = 0 /\ pc[u] \notin Recording
<1>1. ASSUME NEW u \in Threads PROVE taken[u] = 0 /\ pc[u] \notin Recording
  <2> SUFFICES ASSUME pc[u] \in Recording PROVE FALSE
    BY DEF ClaimInv
  <2>1. pc[u] \in HoldsDecoder
    BY DEF HoldsDecoder
  <2>2. decoderMu = u /\ decoderMu = t
    BY <2>1 DEF LockInv
  <2> QED BY <2>2
<1>2. InHand = {}
  BY <1>1 DEF InHand
<1> QED BY <1>1, <1>2 DEF Claimed

(* ... and the goroutine that records initialize has claimed just that.      *)
LEMMA ClaimedByRecorder ==
  ASSUME Typed, LockInv, ClaimInv, NEW t \in Threads, pc[t] \in Recording
  PROVE  /\ Claimed = taken[t]
         /\ \A u \in Threads \ {t} : taken[u] = 0 /\ pc[u] \notin Recording
<1>1. ASSUME NEW u \in Threads, pc[u] \in Recording PROVE u = t
  <2>1. pc[u] \in HoldsDecoder /\ pc[t] \in HoldsDecoder
    BY <1>1 DEF HoldsDecoder
  <2> QED BY <2>1 DEF LockInv
<1>2. \A u \in Threads \ {t} : taken[u] = 0 /\ pc[u] \notin Recording
  BY <1>1 DEF ClaimInv
<1>3. InHand = {t}
  BY <1>2 DEF ClaimInv, InHand
<1> QED BY <1>2, <1>3 DEF Claimed

(* nextInput takes the next input that was not lost.                         *)
LEMMA NextTakes ==
  ASSUME InputInv, NEW t \in Threads, pc[t] = "next_take", TakeMessage,
         IsInput(HeadOfInput)
  PROVE  /\ NextAfter(HeadOfInput.n, delivered, lost) /\ HeadOfInput.n \in Nat
         /\ \E r \in HeadOfInput.n .. sent :
              /\ Follows(buffered', HeadOfInput.n, r, lost)
              /\ Follows(inbound', r, sent, lost)
<1> USE DEF InputInv
<1>1. Claimed = delivered
  BY NothingClaimed DEF HoldsDecoder, Recording
<1>2. buffered \in Seq(Inbound) /\ inbound \in Seq(Inbound) /\ delivered \in Nat
      /\ sent \in Nat
  BY QueuesTyped, ClaimedTyped DEF Typed
<1>3. PICK r \in delivered .. sent :
        Follows(buffered, delivered, r, lost) /\ Follows(inbound, r, sent, lost)
  BY <1>1, Conserved
<1>4. r \in Nat /\ CarriesInput(HeadOfInput) /\ HeadOfInput.n \in Nat
  BY <1>2, TakeTyped DEF CarriesInput, Inbound, Typed
<1>5. CASE buffered # <<>>
  <2>1. HeadOfInput = Head(buffered) /\ buffered' = Tail(buffered) /\ inbound' = inbound
    BY <1>5 DEF TakeMessage, HeadOfInput
  <2>2. /\ HeadOfInput.n \in delivered + 1 .. r
        /\ NextAfter(HeadOfInput.n, delivered, lost)
        /\ Follows(buffered', HeadOfInput.n, r, lost)
    BY <1>2, <1>3, <1>4, <1>5, <2>1, HeadTaken
  <2>3. r \in HeadOfInput.n .. sent
    BY <1>2, <1>3, <2>2
  <2> QED BY <1>3, <1>4, <2>1, <2>2, <2>3
<1>6. CASE buffered = <<>>
  <2>1. /\ HeadOfInput = Head(inbound) /\ inbound # <<>> /\ inbound' = Tail(inbound)
        /\ buffered' = <<>>
    BY <1>6 DEF TakeMessage, HeadOfInput
  <2>2. /\ HeadOfInput.n \in r + 1 .. sent
        /\ NextAfter(HeadOfInput.n, r, lost)
        /\ Follows(inbound', HeadOfInput.n, sent, lost)
    BY <1>2, <1>3, <1>4, <2>1, HeadTaken
  <2>3. delivered + 1 .. r \subseteq lost
    BY <1>2, <1>3, <1>4, <1>6, NothingFollows
  <2>4. NextAfter(HeadOfInput.n, delivered, lost)
    BY <1>2, <1>3, <1>4, <2>2, <2>3, NextAfterGap
  <2>5. Follows(buffered', HeadOfInput.n, HeadOfInput.n, lost)
    BY <1>4, <2>1, NothingFollows
  <2>6. HeadOfInput.n \in HeadOfInput.n .. sent
    BY <1>2, <1>4, <2>2
  <2> QED BY <1>4, <2>2, <2>4, <2>5, <2>6
<1> QED BY <1>5, <1>6

(* So does Decode, when nothing is set aside.                                *)
LEMMA DecodeTakes ==
  ASSUME InputInv, NEW t \in Threads, pc[t] = "decode_read", inbound # <<>>,
         IsInput(Head(inbound))
  PROVE  /\ NextAfter(Head(inbound).n, delivered, lost) /\ Head(inbound).n \in Nat
         /\ \E r \in Head(inbound).n .. sent :
              /\ Follows(buffered, Head(inbound).n, r, lost)
              /\ Follows(Tail(inbound), r, sent, lost)
<1> USE DEF InputInv
<1>1. Claimed = delivered
  BY NothingClaimed DEF HoldsDecoder, Recording
<1>2. buffered = <<>>
  BY DEF HeaderFirst, Untouched
<1>3. inbound \in Seq(Inbound) /\ delivered \in Nat /\ sent \in Nat
  BY QueuesTyped, ClaimedTyped DEF Typed
<1>4. PICK r \in delivered .. sent :
        Follows(buffered, delivered, r, lost) /\ Follows(inbound, r, sent, lost)
  BY <1>1, Conserved
<1>5. r \in Nat /\ CarriesInput(Head(inbound)) /\ Head(inbound).n \in Nat
  BY <1>3, ReadTyped DEF CarriesInput, Inbound, Typed
<1>6. /\ Head(inbound).n \in r + 1 .. sent
      /\ NextAfter(Head(inbound).n, r, lost)
      /\ Follows(Tail(inbound), Head(inbound).n, sent, lost)
  BY <1>3, <1>4, <1>5, HeadTaken
<1>7. NextAfter(Head(inbound).n, delivered, lost)
  <2>1. delivered + 1 .. r \subseteq lost
    BY <1>2, <1>3, <1>4, <1>5, NothingFollows
  <2> QED BY <1>3, <1>4, <1>5, <1>6, <2>1, NextAfterGap
<1>8. Follows(buffered, Head(inbound).n, Head(inbound).n, lost)
  BY <1>2, <1>5, NothingFollows
<1>9. Head(inbound).n \in Head(inbound).n .. sent
  BY <1>3, <1>5, <1>6
<1> QED BY <1>5, <1>6, <1>7, <1>8, <1>9

(* A response that nextInput takes comes from the pipe.                      *)
LEMMA ResponseFromPipe ==
  ASSUME TypeOK, TakeMessage, IsResponse(HeadOfInput)
  PROVE  /\ buffered' = buffered /\ inbound # <<>> /\ inbound' = Tail(inbound)
         /\ HeadOfInput = Head(inbound)
<1>1. buffered \in Seq(Inbound) /\ \A i \in 1 .. Len(buffered) : IsInput(buffered[i])
  BY QueuesTyped
<1>2. buffered = <<>>
  <2> SUFFICES ASSUME buffered # <<>> PROVE FALSE
    OBVIOUS
  <2>1. 1 \in 1 .. Len(buffered) /\ Head(buffered) = buffered[1]
    BY <1>1, EmptySeq, LenProperties
  <2> QED BY <1>1, <2>1 DEF HeadOfInput, IsInput, InputTypes, IsResponse
<1> QED BY <1>2 DEF TakeMessage, HeadOfInput

(* Steps that read and send no input ...                                     *)
LEMMA InputFrame ==
  ASSUME InputInv, UNCHANGED <<taken, delivered, lost, sent, buffered, inbound>>,
         \A u \in Threads : pc'[u] \in Recording <=> pc[u] \in Recording
  PROVE  ClaimInv' /\ InputsConserved'
<1>1. Claimed' = Claimed
  BY DEF Claimed, InHand
<1>2. ClaimInv'
  BY DEF InputInv, ClaimInv, Recording, NextAfter
<1> QED BY <1>1, <1>2, Conserved DEF InputInv

(* ... that take a response ...                                              *)
LEMMA ResponseFrame ==
  ASSUME InputInv, UNCHANGED <<taken, delivered, lost, sent, buffered>>,
         inbound # <<>>, IsResponse(Head(inbound)), inbound' = Tail(inbound),
         \A u \in Threads : pc'[u] \in Recording <=> pc[u] \in Recording
  PROVE  ClaimInv' /\ InputsConserved'
<1>1. Claimed' = Claimed
  BY DEF Claimed, InHand
<1>2. ClaimInv'
  BY DEF InputInv, ClaimInv, Recording, NextAfter
<1>3. ~CarriesInput(Head(inbound))
  BY DEF CarriesInput, IsInput, InputTypes, IsResponse
<1>4. PICK r \in Claimed .. sent :
        Follows(buffered, Claimed, r, lost) /\ Follows(inbound, r, sent, lost)
  BY Conserved DEF InputInv
<1>5. Follows(inbound', r, sent, lost)
  BY <1>3, <1>4, QueuesTyped, OtherTaken DEF InputInv, Typed
<1> QED BY <1>1, <1>2, <1>4, <1>5, Conserved

(* ... and that lose what the decoder refuses.                               *)
LEMMA RefusalFrame ==
  ASSUME InputInv, UNCHANGED <<taken, delivered, sent, buffered>>, ReadSpoiled,
         NEW t \in Threads, pc[t] \in HoldsDecoder \ Recording,
         pc' = [pc EXCEPT ![t] = "idle"]
  PROVE  ClaimInv' /\ InputsConserved'
<1> USE DEF InputInv
<1> DEFINE n == Head(inbound).n
<1>1. Claimed' = Claimed
  BY DEF Claimed, InHand
<1>2. pc \in [Threads -> Locations] /\ \A u \in Threads : taken[u] = 0 /\ pc[u] \notin Recording
  BY NothingClaimed DEF Typed, TypeOK
<1>3. inbound # <<>> /\ inbound' = Tail(inbound) /\ inbound \in Seq(Inbound)
      /\ buffered \in Seq(Inbound) /\ Claimed \in Nat /\ sent \in Nat
  BY QueuesTyped, ClaimedTyped DEF ReadSpoiled, Typed
<1>4. PICK r \in Claimed .. sent :
        Follows(buffered, Claimed, r, lost) /\ Follows(inbound, r, sent, lost)
  BY Conserved
<1>5. r \in Nat
  BY <1>3
<1>6. CASE Head(inbound).type = "spoiled_input"
  <2>1. CarriesInput(Head(inbound)) /\ lost' = lost \cup {n}
    BY <1>6 DEF CarriesInput, ReadSpoiled
  <2>2. n \in r + 1 .. sent
    BY <1>3, <1>4, <1>5, <2>1, HeadTaken
  <2>3. Follows(inbound', r, sent, lost')
    BY <1>3, <1>4, <1>5, <2>1, HeadLost
  <2>4. n \in Nat /\ n > r /\ n \in 1 .. sent
    BY <1>3, <1>5, <2>2
  <2> HIDE DEF n
  <2>5. Follows(buffered, Claimed, r, lost')
    BY <1>3, <1>4, <1>5, <2>1, <2>4, LostElsewhere
  <2>6. ClaimInv'
    BY <1>2, <2>1, <2>4 DEF ClaimInv, Recording
  <2> QED BY <1>1, <1>4, <2>3, <2>5, <2>6, Conserved
<1>7. CASE Head(inbound).type # "spoiled_input"
  <2>1. ~CarriesInput(Head(inbound)) /\ lost' = lost
    BY <1>7 DEF CarriesInput, ReadSpoiled, IsInput, InputTypes, Spoiled, SpoiledTypes
  <2>2. Follows(inbound', r, sent, lost)
    BY <1>3, <1>4, <2>1, OtherTaken
  <2>3. ClaimInv'
    BY <1>2, <2>1 DEF ClaimInv, Recording
  <2> QED BY <1>1, <1>4, <2>1, <2>2, <2>3, Conserved
<1> QED BY <1>6, <1>7

(* Next hands over the input it takes, or records it first if it is          *)
(* initialize.                                                               *)
LEMMA NextInputStep ==
  ASSUME InputInv, NEW t \in Threads,
         \/ NextEnd(t) \/ NextInput(t) \/ NextInitialize(t) \/ NextAssignExecution(t)
         \/ NextAssignNode(t)
  PROVE  ClaimInv' /\ InputsConserved'
<1> USE DEF InputInv
<1>0. pc \in [Threads -> Locations] /\ taken \in [Threads -> Nat] /\ delivered \in Nat
  BY DEF Typed, TypeOK
<1>1. CASE NextEnd(t) \/ NextInput(t)
  <2>1. pc[t] = "next_take" /\ TakeMessage /\ IsInput(HeadOfInput)
        /\ delivered' = HeadOfInput.n /\ UNCHANGED <<sent, taken, lost>>
        /\ pc' = [pc EXCEPT ![t] = "idle"]
    BY <1>1 DEF NextEnd, NextInput, NextReturns, Return, Goto, readOnly, host
  <2>2. PICK r \in delivered' .. sent :
          Follows(buffered', delivered', r, lost) /\ Follows(inbound', r, sent, lost)
    BY <2>1, NextTakes
  <2>3. \A u \in Threads : taken[u] = 0 /\ pc[u] \notin Recording
    BY <2>1, NothingClaimed DEF HoldsDecoder, Recording
  <2>4. Claimed' = delivered'
    BY <2>1, <2>3 DEF Claimed, InHand
  <2>5. ClaimInv'
    BY <1>0, <2>1, <2>3 DEF ClaimInv, Recording
  <2> QED BY <2>1, <2>2, <2>4, <2>5, Conserved
<1>2. CASE NextInitialize(t)
  <2>1. pc[t] = "next_take" /\ TakeMessage /\ IsInput(HeadOfInput)
        /\ taken' = [taken EXCEPT ![t] = HeadOfInput.n]
        /\ UNCHANGED <<sent, delivered, lost>>
        /\ pc' = [pc EXCEPT ![t] = "next_assign"]
    BY <1>2 DEF NextInitialize, IsInput, InputTypes, Goto, readOnly, host, history
  <2>2. NextAfter(HeadOfInput.n, delivered, lost) /\ HeadOfInput.n \in Nat
    BY <2>1, NextTakes
  <2>3. PICK r \in HeadOfInput.n .. sent :
          Follows(buffered', HeadOfInput.n, r, lost) /\ Follows(inbound', r, sent, lost)
    BY <2>1, NextTakes
  <2>4. \A u \in Threads : taken[u] = 0 /\ pc[u] \notin Recording
    BY <2>1, NothingClaimed DEF HoldsDecoder, Recording
  <2>5. taken'[t] = HeadOfInput.n /\ taken'[t] # 0
    BY <1>0, <2>1, <2>2 DEF NextAfter
  <2>6. InHand' = {t}
    BY <1>0, <2>1, <2>4, <2>5 DEF InHand
  <2>7. Claimed' = HeadOfInput.n
    BY <2>5, <2>6 DEF Claimed
  <2>8. ClaimInv'
    BY <1>0, <2>1, <2>2, <2>4, <2>5 DEF ClaimInv, Recording
  <2> QED BY <2>1, <2>3, <2>7, <2>8, Conserved
<1>3. CASE NextAssignExecution(t)
  <2>1. pc[t] \in Recording /\ pc' = [pc EXCEPT ![t] = "next_assign_node"]
        /\ UNCHANGED <<taken, delivered, lost, sent, buffered, inbound>>
    BY <1>3 DEF NextAssignExecution, Goto, readOnly, host, history, Recording
  <2>2. \A u \in Threads : pc'[u] \in Recording <=> pc[u] \in Recording
    BY <1>0, <2>1 DEF Recording
  <2> QED BY <2>1, <2>2, InputFrame
<1>4. CASE NextAssignNode(t)
  <2>1. pc[t] \in Recording /\ delivered' = taken[t]
        /\ taken' = [taken EXCEPT ![t] = 0]
        /\ UNCHANGED <<sent, inbound, buffered, lost>>
        /\ pc' = [pc EXCEPT ![t] = "idle"]
    BY <1>4 DEF NextAssignNode, Return, Goto, readOnly, host, Recording
  <2>2. Claimed = taken[t] /\ \A u \in Threads \ {t} : taken[u] = 0 /\ pc[u] \notin Recording
    BY <2>1, ClaimedByRecorder
  <2>3. \A u \in Threads : taken'[u] = 0
    BY <1>0, <2>1, <2>2
  <2>4. Claimed' = Claimed
    BY <2>1, <2>2, <2>3 DEF Claimed, InHand
  <2>5. ClaimInv'
    BY <1>0, <2>1, <2>2, <2>3 DEF ClaimInv, Recording
  <2> QED BY <2>1, <2>4, <2>5, Conserved
<1> QED BY <1>1, <1>2, <1>3, <1>4

(* A call sets aside the input it reads.                                     *)
LEMMA AsideStep ==
  ASSUME InputInv, NEW t \in Threads, CallBuffer(t)
  PROVE  ClaimInv' /\ InputsConserved'
<1> USE DEF InputInv
<1>1. inbound # <<>> /\ IsInput(Head(inbound)) /\ inbound' = Tail(inbound)
      /\ buffered' = Append(buffered, Head(inbound)) /\ pc[t] = "call_read"
      /\ UNCHANGED <<sent, taken, delivered, lost>>
      /\ pc' = [pc EXCEPT ![t] = "call_check"]
  BY DEF CallBuffer, SetAside, Goto, host, locals, history
<1>2. pc \in [Threads -> Locations]
  BY DEF Typed, TypeOK
<1>3. ClaimInv' /\ Claimed' = Claimed
  BY <1>1, <1>2 DEF ClaimInv, Claimed, InHand, Recording
<1>4. inbound \in Seq(Inbound) /\ buffered \in Seq(Inbound) /\ Claimed \in Nat
      /\ sent \in Nat
  BY QueuesTyped, ClaimedTyped DEF Typed
<1>5. PICK r \in Claimed .. sent :
        Follows(buffered, Claimed, r, lost) /\ Follows(inbound, r, sent, lost)
  BY Conserved
<1>6. r \in Nat /\ CarriesInput(Head(inbound)) /\ Head(inbound) \in Inbound
      /\ Head(inbound).n \in Nat
  BY <1>1, <1>4, <1>5, ReadTyped DEF CarriesInput, Inbound, Typed
<1>7. /\ Head(inbound).n \in r + 1 .. sent /\ NextAfter(Head(inbound).n, r, lost)
      /\ Follows(inbound', Head(inbound).n, sent, lost)
  BY <1>1, <1>4, <1>5, <1>6, HeadTaken
<1>8. Follows(buffered', Claimed, Head(inbound).n, lost)
  BY <1>1, <1>4, <1>5, <1>6, <1>7, InputAppended
<1>9. Head(inbound).n \in Claimed .. sent
  BY <1>4, <1>5, <1>6, <1>7
<1> QED BY <1>1, <1>3, <1>7, <1>8, <1>9, Conserved

(* Decode hands over the input it reads.                                     *)
LEMMA DecodeInputStep ==
  ASSUME InputInv, NEW t \in Threads, DecodeMessage(t)
  PROVE  ClaimInv' /\ InputsConserved'
<1> USE DEF InputInv
<1>1. pc[t] = "decode_read" /\ inbound # <<>> /\ ~Spoiled(Head(inbound))
      /\ inbound' = Tail(inbound)
      /\ delivered' = (IF IsInput(Head(inbound)) THEN Head(inbound).n ELSE delivered)
      /\ UNCHANGED <<sent, taken, buffered, lost>>
      /\ pc' = [pc EXCEPT ![t] = "idle"]
  BY DEF DecodeMessage, Return, Goto, readOnly, host
<1>2. pc \in [Threads -> Locations]
  BY DEF Typed, TypeOK
<1>3. \A u \in Threads : taken[u] = 0 /\ pc[u] \notin Recording
  BY <1>1, NothingClaimed DEF HoldsDecoder, Recording
<1>4. CASE IsInput(Head(inbound))
  <2>1. Claimed' = delivered' /\ delivered' = Head(inbound).n
    BY <1>1, <1>3, <1>4 DEF Claimed, InHand
  <2>2. PICK r \in Head(inbound).n .. sent :
          Follows(buffered, Head(inbound).n, r, lost) /\ Follows(Tail(inbound), r, sent, lost)
    BY <1>1, <1>4, DecodeTakes
  <2>3. ClaimInv'
    BY <1>1, <1>2, <1>3 DEF ClaimInv, Recording
  <2> QED BY <1>1, <2>1, <2>2, <2>3, Conserved
<1>5. CASE ~IsInput(Head(inbound))
  <2>1. Head(inbound) \in Inbound
    BY <1>1, ReadTyped DEF Typed
  <2>2. IsResponse(Head(inbound))
    BY <1>1, <1>5, <2>1 DEF Inbound, IsInput, Spoiled, IsResponse
  <2>3. \A u \in Threads : pc'[u] \in Recording <=> pc[u] \in Recording
    BY <1>1, <1>2 DEF Recording
  <2> QED BY <1>1, <1>5, <2>2, <2>3, ResponseFrame
<1> QED BY <1>4, <1>5

(* The host sends the next input, or a response.                             *)
LEMMA HostInputStep ==
  ASSUME InputInv, HostStep
  PROVE  ClaimInv' /\ InputsConserved'
<1> USE DEF InputInv
<1>1. UNCHANGED <<pc, taken, delivered, lost, buffered>>
  BY HostFrame
<1>2. inbound \in Seq(Inbound) /\ buffered \in Seq(Inbound) /\ Claimed \in Nat
      /\ sent \in Nat /\ Claimed' = Claimed
  BY <1>1, QueuesTyped, ClaimedTyped DEF Typed, Claimed, InHand
<1>3. PICK r \in Claimed .. sent :
        Follows(buffered, Claimed, r, lost) /\ Follows(inbound, r, sent, lost)
  BY Conserved
<1>4. r \in Nat
  BY <1>2, <1>3
<1>5. ASSUME NEW m \in Inbound, SendInput(m), CarriesInput(m), m.n = sent + 1
      PROVE  ClaimInv' /\ InputsConserved'
  <2>1. sent' = sent + 1 /\ inbound' = Append(inbound, m)
    BY <1>5 DEF SendInput
  <2>2. NextAfter(m.n, sent, lost)
    BY <1>2, <1>5 DEF ClaimInv, NextAfter
  <2>3. Follows(inbound', r, sent', lost)
    BY <1>2, <1>3, <1>4, <1>5, <2>1, <2>2, InputAppended
  <2>4. r \in Claimed .. sent'
    BY <1>2, <1>3, <2>1
  <2>5. ClaimInv'
    BY <1>1, <1>2, <2>1 DEF ClaimInv, Recording, NextAfter
  <2> QED BY <1>1, <1>2, <1>3, <2>3, <2>4, <2>5, Conserved
<1>6. ASSUME NEW id \in 1 .. MaxRequests, NEW m \in Inbound, SendAnswer(id, m),
             ~CarriesInput(m)
      PROVE  ClaimInv' /\ InputsConserved'
  <2>1. sent' = sent /\ inbound' = Append(inbound, m)
    BY <1>6 DEF SendAnswer
  <2>2. Follows(inbound', r, sent', lost)
    BY <1>2, <1>3, <1>4, <1>6, <2>1, OtherAppended
  <2>3. ClaimInv'
    BY <1>1, <2>1 DEF ClaimInv, Recording, NextAfter
  <2> QED BY <1>1, <1>2, <1>3, <2>1, <2>2, <2>3, Conserved
<1>7. CASE HostSend
  <2>1. InputMessage(sent + 1) \in Inbound /\ CarriesInput(InputMessage(sent + 1))
        /\ InputMessage(sent + 1).n = sent + 1
    BY <1>2 DEF InputMessage, Inbound, InputTypes, CarriesInput, IsInput
  <2> QED BY <1>5, <1>7, <2>1 DEF HostSend
<1>8. CASE HostSpoilInput
  <2>1. SpoiledInput(sent + 1) \in Inbound /\ CarriesInput(SpoiledInput(sent + 1))
        /\ SpoiledInput(sent + 1).n = sent + 1
    BY <1>2 DEF SpoiledInput, Inbound, SpoiledTypes, CarriesInput
  <2> QED BY <1>5, <1>8, <2>1 DEF HostSpoilInput
<1>9. ASSUME NEW id \in 1 .. MaxRequests, HostAnswer(id) \/ HostSpoilAnswer(id)
      PROVE  ClaimInv' /\ InputsConserved'
  <2>1. Response(id) \in Inbound /\ ~CarriesInput(Response(id))
        /\ SpoiledAnswer(id) \in Inbound /\ ~CarriesInput(SpoiledAnswer(id))
    BY DEF Response, SpoiledAnswer, Inbound, SpoiledTypes, InputTypes, CarriesInput, IsInput
  <2> QED BY <1>6, <1>9, <2>1 DEF HostAnswer, HostSpoilAnswer
<1>10. CASE HostRead \/ HostClose
  <2>1. UNCHANGED <<sent, inbound>>
    BY <1>10 DEF HostRead, HostClose, host
  <2> QED BY <1>1, <2>1, InputFrame
<1> QED BY <1>7, <1>8, <1>9, <1>10 DEF HostStep

LEMMA InputInvStep ==
  ASSUME InputInv, [Next]_vars PROVE ClaimInv' /\ InputsConserved'
<1>0. pc \in [Threads -> Locations] /\ taken \in [Threads -> Nat]
  BY DEF InputInv, Typed, TypeOK
<1>1. CASE UNCHANGED vars \/ GuestEnded
  BY <1>1, InputFrame DEF GuestEnded, vars, pipes, host, session, locals, history
<1>2. ASSUME NEW t \in Threads, Begin(t) \/ Cancel(t)
      PROVE  ClaimInv' /\ InputsConserved'
  <2> USE DEF pipes, host, session, locals, history, Goto, Recording
  <2>1. ASSUME NEW operation \in Calls, Start(t, operation)
        PROVE  ClaimInv' /\ InputsConserved'
    BY <1>0, <2>1, InputFrame DEF Start, EntryPoint
  <2>2. CASE StartEmit(t) \/ StartFail(t)
    BY <1>0, <2>2, InputFrame DEF StartEmit, StartFail
  <2>3. CASE Cancel(t)
    BY <1>0, <2>3, InputFrame DEF Cancel
  <2> QED BY <1>2, <2>1, <2>2, <2>3 DEF Begin
<1>3. ASSUME NEW t \in Threads, Acquire(t) PROVE ClaimInv' /\ InputsConserved'
  <2> USE DEF pipes, host, session, locals, history, Goto, Recording
  <2>1. CASE EnterReader(t)
    BY <1>0, <2>1, InputFrame DEF EnterReader, AfterLock
  <2>2. CASE CallUninitialized(t)
    BY <1>0, <2>2, InputFrame DEF CallUninitialized, CallReturns, Return
  <2>3. CASE CallPrepare(t)
    BY <1>0, <2>3, InputFrame DEF CallPrepare
  <2>4. CASE EnterWriter(t)
    BY <1>0, <2>4, InputFrame DEF EnterWriter
  <2> QED BY <1>3, <2>1, <2>2, <2>3, <2>4 DEF Acquire
<1>4. ASSUME NEW t \in Threads, Step(t) PROVE ClaimInv' /\ InputsConserved'
  <2> USE DEF Return, CallReturns, Goto, readOnly, pipes, host, session, locals, history,
              Recording
  <2>1. CASE NextUnsolicited(t)
    <3>1. TakeMessage /\ IsResponse(HeadOfInput) /\ pc[t] = "next_take"
          /\ UNCHANGED <<sent, taken, delivered, lost>>
          /\ pc' = [pc EXCEPT ![t] = "idle"]
      BY <2>1 DEF NextUnsolicited, NextReturns
    <3>2. \A u \in Threads : pc'[u] \in Recording <=> pc[u] \in Recording
      BY <1>0, <3>1
    <3> QED BY <3>1, <3>2, ResponseFromPipe, ResponseFrame DEF InputInv, Typed
  <2>2. CASE CallAnswered(t) \/ CallMismatch(t)
    <3>1. inbound # <<>> /\ IsResponse(Head(inbound)) /\ inbound' = Tail(inbound)
          /\ pc[t] = "call_read" /\ UNCHANGED <<sent, taken, delivered, buffered, lost>>
          /\ pc' = [pc EXCEPT ![t] = "idle"]
      BY <2>2 DEF CallAnswered, CallMismatch, GiveUp, EndCall, ReadResponse
    <3>2. \A u \in Threads : pc'[u] \in Recording <=> pc[u] \in Recording
      BY <1>0, <3>1
    <3> QED BY <3>1, <3>2, ResponseFrame
  <2>3. CASE NextUndecoded(t) \/ DecodeUndecoded(t)
    <3>1. ReadSpoiled /\ pc[t] \in {"next_take", "decode_read"}
          /\ UNCHANGED <<sent, taken, delivered, buffered>>
          /\ pc' = [pc EXCEPT ![t] = "idle"]
      BY <2>3 DEF NextUndecoded, DecodeUndecoded
    <3>2. pc[t] \in HoldsDecoder \ Recording
      BY <3>1 DEF HoldsDecoder
    <3> QED BY <3>1, <3>2, RefusalFrame
  <2>4. CASE CallUndecoded(t)
    <3>1. ReadSpoiled /\ pc[t] = "call_read"
          /\ UNCHANGED <<sent, taken, delivered, buffered>>
          /\ pc' = [pc EXCEPT ![t] = "idle"]
      BY <2>4 DEF CallUndecoded, GiveUp, EndCall
    <3>2. pc[t] \in HoldsDecoder \ Recording
      BY <3>1 DEF HoldsDecoder, InCall, Waiting
    <3> QED BY <3>1, <3>2, RefusalFrame
  <2>5. CASE NextClosed(t) \/ DecodeClosed(t)
    BY <1>0, <2>5, InputFrame DEF NextClosed, DecodeClosed
  <2>6. CASE IdentifyExecution(t) \/ IdentifyNode(t)
    BY <1>0, <2>6, InputFrame DEF IdentifyExecution, IdentifyNode
  <2>7. CASE CallNode(t) \/ CallWrite(t) \/ CallRefused(t) \/ CallRead(t)
    BY <1>0, <2>7, InputFrame DEF CallNode, CallWrite, Write, CallRefused, CallRead
  <2>8. CASE CallCancelled(t) \/ CallClosed(t)
    BY <1>0, <2>8, InputFrame DEF CallCancelled, CallClosed, GiveUp, EndCall
  <2>9. CASE FailNode(t) \/ SendWrite(t) \/ SendRefused(t)
    BY <1>0, <2>9, InputFrame DEF FailNode, SendWrite, SendRefused, SendReturns, Write
  <2> HIDE DEF Return, CallReturns, Goto, readOnly, pipes, host, session, locals, history,
               Recording
  <2> QED BY <1>4, <2>1, <2>2, <2>3, <2>4, <2>5, <2>6, <2>7, <2>8, <2>9,
             NextInputStep, AsideStep, DecodeInputStep DEF Step
<1> QED BY <1>1, <1>2, <1>3, <1>4, HostInputStep DEF Next

(* Only a call, which makes a request, sets anything aside.                  *)
LEMMA UntouchedStep ==
  ASSUME Typed, LockInv, Untouched, [Next]_vars PROVE Untouched'
<1> SUFFICES ASSUME nextRequestID' = 0
             PROVE  buffered' = <<>> /\ \A t \in Threads : pc'[t] \notin InCall
  BY DEF Untouched
<1>0. pc \in [Threads -> Locations] /\ nextRequestID \in Nat
  BY DEF Typed, TypeOK
<1>1. ~\E t \in Threads : CallPrepare(t)
  BY <1>0 DEF CallPrepare, NewID
<1>2. ASSUME nextRequestID = 0
      PROVE  buffered = <<>> /\ \A t \in Threads : pc[t] \notin InCall
  BY <1>2 DEF Untouched
<1> USE DEF InCall, Waiting, Goto, Return, CallReturns, pipes, session, readOnly,
            Recording, Identifying
<1>3. CASE UNCHANGED vars \/ GuestEnded
  BY <1>2, <1>3 DEF vars, GuestEnded
<1>4. CASE HostStep
  BY <1>2, <1>4, HostFrame
<1>5. ASSUME NEW t \in Threads, Begin(t) \/ Cancel(t)
      PROVE  buffered' = <<>> /\ \A u \in Threads : pc'[u] \notin InCall
  BY <1>0, <1>2, <1>5 DEF Begin, Start, EntryPoint, Calls, StartEmit, StartFail, Cancel
<1>6. ASSUME NEW t \in Threads, Acquire(t)
      PROVE  buffered' = <<>> /\ \A u \in Threads : pc'[u] \notin InCall
  BY <1>0, <1>1, <1>2, <1>6 DEF Acquire, EnterReader, AfterLock, CallUninitialized, EnterWriter
<1>7. ASSUME NEW t \in Threads, Step(t)
      PROVE  buffered' = <<>> /\ \A u \in Threads : pc'[u] \notin InCall
  <2>1. CASE NextUnsolicited(t) \/ NextEnd(t) \/ NextInput(t) \/ NextInitialize(t)
    BY <1>0, <1>2, <2>1 DEF NextUnsolicited, NextEnd, NextInput, NextReturns, NextInitialize,
       TakeMessage
  <2>2. CASE \/ NextAssignExecution(t) \/ NextAssignNode(t) \/ NextClosed(t)
             \/ NextUndecoded(t)
    BY <1>0, <1>2, <2>2 DEF NextAssignExecution, NextAssignNode, NextClosed, NextUndecoded
  <2>3. CASE \/ DecodeMessage(t) \/ DecodeClosed(t) \/ DecodeUndecoded(t)
             \/ IdentifyExecution(t) \/ IdentifyNode(t)
    BY <1>0, <1>2, <2>3 DEF DecodeMessage, DecodeClosed, DecodeUndecoded,
       IdentifyExecution, IdentifyNode
  <2>4. CASE FailNode(t) \/ SendWrite(t) \/ SendRefused(t)
    BY <1>0, <1>2, <2>4 DEF FailNode, SendWrite, SendRefused, SendReturns
  <2>5. CASE CallNode(t) \/ CallWrite(t) \/ CallRefused(t) \/ CallCancelled(t) \/ CallRead(t)
    BY <1>2, <2>5 DEF CallNode, CallWrite, CallRefused, CallCancelled, CallRead, GiveUp, EndCall
  <2>6. CASE CallBuffer(t) \/ CallAnswered(t) \/ CallMismatch(t) \/ CallClosed(t)
             \/ CallUndecoded(t)
    BY <1>2, <2>6 DEF CallBuffer, CallAnswered, CallMismatch, CallClosed, CallUndecoded,
       ReadResponse, GiveUp, EndCall
  <2> QED BY <1>7, <2>1, <2>2, <2>3, <2>4, <2>5, <2>6 DEF Step
<1> QED BY <1>3, <1>4, <1>5, <1>6, <1>7 DEF Next

LEMMA InitInputInv == Init => InputInv
<1> SUFFICES ASSUME Init PROVE InputInv
  OBVIOUS
<1>1. Typed
  BY InitTyped
<1>2. LockInv /\ ClaimInv /\ HeaderFirst /\ Untouched
  BY DEF Init, LockInv, ClaimInv, HeaderFirst, Untouched, HoldsDecoder, HoldsEncoder,
         Recording, Identifying, InCall, Waiting
<1>3. Claimed = 0 /\ sent = 0 /\ buffered = <<>> /\ inbound = <<>>
  BY DEF Init, Claimed, InHand
<1>4. Follows(<<>>, 0, 0, lost)
  BY NothingFollows
<1> QED BY <1>1, <1>2, <1>3, <1>4, Conserved DEF InputInv

LEMMA HeaderIsSpec == HeaderSpec => Spec
<1>1. [Next /\ HeaderFirst']_vars => [Next]_vars
  OBVIOUS
<1> QED BY <1>1, PTL DEF HeaderSpec, Spec

LEMMA InputInvariant == HeaderSpec => []InputInv
<1>1. InputInv /\ [Next /\ HeaderFirst']_vars => InputInv'
  <2>1. [Next /\ HeaderFirst']_vars => [Next]_vars
    OBVIOUS
  <2>2. InputInv /\ UNCHANGED vars => HeaderFirst'
    BY DEF InputInv, HeaderFirst, vars, session
  <2> QED BY <2>1, <2>2, StepTyped, LockStep, InputInvStep, UntouchedStep DEF InputInv
<1> QED BY <1>1, InitInputInv, PTL DEF HeaderSpec

(* A guest that does not call Decode uses it as it is meant.                 *)
DecodeUnused == \A t \in Threads : "decode" \notin Operations[t]

LEMMA NothingDecoded ==
  ASSUME DecodeUnused PROVE Spec => HeaderSpec
<1> DEFINE NoDecode == \A t \in Threads : pc[t] \notin {"decode_lock", "decode_read"}
<1>1. Init => NoDecode
  BY DEF Init
<1>2. Typed /\ NoDecode /\ [Next]_vars => NoDecode'
  <2> SUFFICES ASSUME Typed, NoDecode, [Next]_vars, NEW t \in Threads PROVE
                      pc'[t] \notin {"decode_lock", "decode_read"}
    OBVIOUS
  <2>0. pc \in [Threads -> Locations]
    BY DEF Typed, TypeOK
  <2>1. ASSUME NEW u \in Threads, NEW location \in Locations \ {"decode_lock", "decode_read"},
               Goto(u, location)
        PROVE  pc'[t] \notin {"decode_lock", "decode_read"}
    BY <2>0, <2>1 DEF Goto
  <2>2. CASE UNCHANGED pc
    BY <2>2
  <2> USE DEF Locations, HoldsDecoder, HoldsEncoder, Recording, Identifying, InCall, Waiting
  <2>3. ASSUME NEW u \in Threads, Begin(u) \/ Cancel(u)
        PROVE  pc'[t] \notin {"decode_lock", "decode_read"}
    <3>1. ASSUME NEW operation \in Calls, Start(u, operation)
          PROVE  pc'[t] \notin {"decode_lock", "decode_read"}
      <4>1. operation \in {"next", "call", "identify"}
        BY <3>1, DecodeUnused DEF Start, DecodeUnused, Calls, EntryPoint
      <4> QED BY <2>1, <3>1, <4>1 DEF Start, EntryPoint
    <3> QED BY <2>1, <2>2, <2>3, <3>1 DEF Begin, StartEmit, StartFail, Cancel
  <2>4. ASSUME NEW u \in Threads, Acquire(u)
        PROVE  pc'[t] \notin {"decode_lock", "decode_read"}
    BY <2>1, <2>4 DEF Acquire, EnterReader, AfterLock, CallUninitialized, CallReturns, Return,
       CallPrepare, EnterWriter
  <2>5. ASSUME NEW u \in Threads, Step(u)
        PROVE  pc'[t] \notin {"decode_lock", "decode_read"}
    BY <2>1, <2>5 DEF Step, NextReturns, Return, CallReturns,
       NextUnsolicited, NextEnd, NextInput, NextInitialize, NextAssignExecution,
       NextAssignNode, NextClosed, NextUndecoded, DecodeMessage, DecodeClosed,
       DecodeUndecoded, IdentifyExecution, IdentifyNode, CallNode, CallWrite, CallRefused,
       CallCancelled, CallRead, CallBuffer, CallAnswered, CallMismatch, CallClosed,
       CallUndecoded, EndCall, GiveUp, FailNode, SendWrite, SendRefused, SendReturns
  <2>6. CASE HostStep \/ GuestEnded \/ UNCHANGED vars
    BY <2>2, <2>6, HostFrame DEF GuestEnded, vars
  <2> QED BY <2>3, <2>4, <2>5, <2>6 DEF Next
<1>3. NoDecode => HeaderFirst
  BY DEF HeaderFirst
<1>4. [Next]_vars /\ HeaderFirst' => [Next /\ HeaderFirst']_vars
  OBVIOUS
<1> HIDE DEF NoDecode
<1> QED BY <1>1, <1>2, <1>3, <1>4, TypedInvariant, PTL DEF Spec, HeaderSpec

(* No input is lost but those the decoder refused, whatever the guest's      *)
(* goroutines do and however many inputs a waiting call sets aside, if the   *)
(* guest decodes its header first.                                           *)
THEOREM Conservation == HeaderSpec => []InputsConserved
<1>1. InputInv => InputsConserved
  BY DEF InputInv
<1> QED BY <1>1, InputInvariant, PTL

(* An input that is handed over is the next one that was not refused.        *)
LEMMA DeliveryStep ==
  ASSUME InputInv, [Next]_vars, delivered' # delivered
  PROVE  /\ NextAfter(delivered', delivered, lost)
         /\ delivered' \in Nat /\ delivered' <= sent
         /\ UNCHANGED <<sent, lost, nextRequestID, answered, draft>>
         /\ \E t \in Threads : /\ pc[t] \in {"next_take", "next_assign_node", "decode_read"}
                              /\ pc' = [pc EXCEPT ![t] = "idle"]
<1> USE DEF InputInv
<1>1. PICK t \in Threads : NextEnd(t) \/ NextInput(t) \/ NextAssignNode(t)
                          \/ DecodeMessage(t)
  <2>1. ~HostStep
    BY HostFrame
  <2> QED BY <2>1 DEF Next, GuestEnded, vars, Begin, Start, StartEmit, StartFail, Cancel,
        Acquire, EnterReader, CallUninitialized, CallPrepare, EnterWriter, Step,
        NextUnsolicited, NextInitialize, NextAssignExecution, NextClosed, NextUndecoded,
        DecodeClosed, DecodeUndecoded, IdentifyExecution, IdentifyNode, CallNode,
        CallWrite, CallRefused, CallCancelled, CallRead, CallBuffer, CallAnswered,
        CallMismatch, CallClosed, CallUndecoded, EndCall, GiveUp, FailNode, SendWrite,
        SendRefused, SendReturns, history
<1>2. sent \in Nat /\ Claimed \in Nat
  BY ClaimedTyped DEF Typed
<1>3. CASE DecodeMessage(t)
  <2>1. /\ pc[t] = "decode_read" /\ inbound # <<>> /\ IsInput(Head(inbound))
        /\ delivered' = Head(inbound).n
        /\ UNCHANGED <<sent, lost, nextRequestID, answered, draft>>
        /\ pc' = [pc EXCEPT ![t] = "idle"]
    BY <1>3 DEF DecodeMessage, Return, Goto, readOnly, host, calls
  <2>2. NextAfter(delivered', delivered, lost) /\ delivered' \in Nat
    BY <2>1, DecodeTakes
  <2>3. PICK r \in delivered' .. sent : Follows(Tail(inbound), r, sent, lost)
    BY <2>1, DecodeTakes
  <2>4. delivered' <= sent
    BY <1>2, <2>2, <2>3
  <2>5. pc[t] \in {"next_take", "next_assign_node", "decode_read"}
    BY <2>1
  <2> QED BY <2>1, <2>2, <2>4, <2>5
<1>4. CASE NextEnd(t) \/ NextInput(t)
  <2>1. pc[t] = "next_take" /\ TakeMessage /\ IsInput(HeadOfInput)
        /\ delivered' = HeadOfInput.n
        /\ UNCHANGED <<sent, lost, nextRequestID, answered, draft>>
        /\ pc' = [pc EXCEPT ![t] = "idle"]
    BY <1>4 DEF NextEnd, NextInput, NextReturns, Return, Goto, readOnly, host, calls
  <2>2. NextAfter(delivered', delivered, lost) /\ delivered' \in Nat
    BY <2>1, NextTakes
  <2>3. PICK r \in delivered' .. sent : Follows(inbound', r, sent, lost)
    BY <2>1, NextTakes
  <2>4. delivered' <= sent
    BY <1>2, <2>2, <2>3
  <2>5. pc[t] \in {"next_take", "next_assign_node", "decode_read"}
    BY <2>1
  <2> QED BY <2>1, <2>2, <2>4, <2>5
<1>5. CASE NextAssignNode(t)
  <2>1. pc[t] = "next_assign_node" /\ delivered' = taken[t]
        /\ UNCHANGED <<sent, lost, nextRequestID, answered, draft>>
        /\ pc' = [pc EXCEPT ![t] = "idle"]
    BY <1>5 DEF NextAssignNode, Return, Goto, readOnly, host, calls
  <2>2. NextAfter(delivered', delivered, lost) /\ delivered' = Claimed
    BY <2>1, ClaimedByRecorder DEF ClaimInv, Recording
  <2>3. Claimed <= sent
    BY <1>2, Conserved
  <2> QED BY <1>2, <2>1, <2>2, <2>3
<1> QED BY <1>1, <1>3, <1>4, <1>5

(* The guest is handed the host's inputs in order, each at most once and     *)
(* none left out but those its decoder refused, the header that it decodes   *)
(* included.                                                                 *)
THEOREM InOrder == HeaderSpec => DeliveryInOrder
<1>1. InputInv /\ [Next /\ HeaderFirst']_vars
        => [delivered' # delivered =>
              /\ delivered' > delivered /\ delivered' \notin lost
              /\ delivered + 1 .. delivered' - 1 \subseteq lost]_vars
  BY DeliveryStep DEF NextAfter
<1> QED BY <1>1, InputInvariant, PTL DEF HeaderSpec, DeliveryInOrder

-----------------------------------------------------------------------------
(* Capability calls. The IDs in a queue, when a message is added or taken.   *)

RequestIDOf(m) == IF m.type = "request" THEN {m.n} ELSE {}
ResponseIDOf(m) == IF IsResponse(m) THEN {m.n} ELSE {}

LEMMA RequestAppended ==
  ASSUME NEW q \in Seq(Outbound), NEW m \in Outbound
  PROVE  RequestIDs(Append(q, m)) = RequestIDs(q) \cup RequestIDOf(m)
<1>1. /\ Len(Append(q, m)) = Len(q) + 1 /\ Len(q) \in Nat
      /\ \A i \in 1 .. Len(q) : Append(q, m)[i] = q[i]
      /\ Append(q, m)[Len(q) + 1] = m
      /\ 1 .. Len(q) + 1 = (1 .. Len(q)) \cup {Len(q) + 1}
  BY AppendProperties, LenProperties
<1> QED BY <1>1 DEF RequestIDs, RequestsIn, RequestIDOf

LEMMA ResponseAppended ==
  ASSUME NEW q \in Seq(Inbound), NEW m \in Inbound
  PROVE  ResponseIDs(Append(q, m)) = ResponseIDs(q) \cup ResponseIDOf(m)
<1>1. /\ Len(Append(q, m)) = Len(q) + 1 /\ Len(q) \in Nat
      /\ \A i \in 1 .. Len(q) : Append(q, m)[i] = q[i]
      /\ Append(q, m)[Len(q) + 1] = m
      /\ 1 .. Len(q) + 1 = (1 .. Len(q)) \cup {Len(q) + 1}
  BY AppendProperties, LenProperties
<1> QED BY <1>1 DEF ResponseIDs, ResponsesIn, ResponseIDOf

(* In a queue without repeated IDs, taking the head takes its ID out.        *)
Ascending(q) == \A i, j \in RequestsIn(q) : i < j => q[i].n < q[j].n
Distinct(q) == \A i, j \in ResponsesIn(q) : i # j => q[i].n # q[j].n

LEMMA RequestTaken ==
  ASSUME NEW q \in Seq(Outbound), q # <<>>, Ascending(q)
  PROVE  /\ RequestIDs(Tail(q)) = RequestIDs(q) \ RequestIDOf(Head(q))
         /\ RequestIDOf(Head(q)) \subseteq RequestIDs(q)
         /\ Ascending(Tail(q))
<1> DEFINE T == Tail(q)
<1>1. /\ Len(q) \in Nat /\ Len(q) >= 1 /\ Len(T) = Len(q) - 1
      /\ Head(q) = q[1] /\ \A k \in 1 .. Len(q) - 1 : T[k] = q[k + 1]
      /\ \A k \in 1 .. Len(q) : q[k] \in Outbound
  BY HeadTailProperties, LenProperties, EmptySeq, ElementOfSeq
<1> HIDE DEF T
<1>2. \A k \in 1 .. Len(q) : q[k].n \in Nat
  BY <1>1 DEF Outbound
<1>3. ASSUME NEW k \in RequestsIn(T)
      PROVE  k + 1 \in RequestsIn(q) /\ T[k] = q[k + 1] /\ k \in Nat /\ k >= 1
  BY <1>1 DEF RequestsIn
<1>4. Ascending(T)
  <2> SUFFICES ASSUME NEW i \in RequestsIn(T), NEW j \in RequestsIn(T), i < j
               PROVE  T[i].n < T[j].n
    BY DEF Ascending
  <2>1. i + 1 \in RequestsIn(q) /\ j + 1 \in RequestsIn(q) /\ i + 1 < j + 1
    BY <1>3
  <2> QED BY <1>3, <2>1 DEF Ascending
<1>5. ASSUME NEW id \in RequestIDs(T)
      PROVE  id \in RequestIDs(q) /\ id \notin RequestIDOf(Head(q))
  <2>1. PICK k \in RequestsIn(T) : id = T[k].n
    BY DEF RequestIDs
  <2>2. k + 1 \in RequestsIn(q) /\ id = q[k + 1].n /\ k >= 1 /\ k \in Nat
    BY <1>3, <2>1
  <2>3. q[1].type = "request" => 1 \in RequestsIn(q) /\ q[1].n < q[k + 1].n
    BY <1>1, <2>2 DEF RequestsIn, Ascending
  <2>4. q[1].n \in Nat /\ q[k + 1].n \in Nat
    BY <1>1, <1>2, <2>2 DEF RequestsIn
  <2> QED BY <1>1, <2>2, <2>3, <2>4 DEF RequestIDs, RequestIDOf
<1>6. ASSUME NEW id \in RequestIDs(q), id \notin RequestIDOf(Head(q))
      PROVE  id \in RequestIDs(T)
  <2>1. PICK k \in RequestsIn(q) : id = q[k].n
    BY DEF RequestIDs
  <2>2. k # 1
    BY <1>1, <1>6, <2>1 DEF RequestIDOf, RequestsIn
  <2>3. k - 1 \in RequestsIn(T) /\ T[k - 1] = q[k]
    BY <1>1, <2>2 DEF RequestsIn
  <2> QED BY <2>1, <2>3 DEF RequestIDs
<1>7. RequestIDOf(Head(q)) \subseteq RequestIDs(q)
  <2>1. 1 \in 1 .. Len(q)
    BY <1>1
  <2> QED BY <1>1, <2>1 DEF RequestIDOf, RequestIDs, RequestsIn
<1> QED BY <1>4, <1>5, <1>6, <1>7 DEF T

LEMMA ResponseTakenOut ==
  ASSUME NEW q \in Seq(Inbound), q # <<>>, Distinct(q)
  PROVE  /\ ResponseIDs(Tail(q)) = ResponseIDs(q) \ ResponseIDOf(Head(q))
         /\ ResponseIDOf(Head(q)) \subseteq ResponseIDs(q)
         /\ Distinct(Tail(q))
<1> DEFINE T == Tail(q)
<1>1. /\ Len(q) \in Nat /\ Len(q) >= 1 /\ Len(T) = Len(q) - 1
      /\ Head(q) = q[1] /\ \A k \in 1 .. Len(q) - 1 : T[k] = q[k + 1]
  BY HeadTailProperties, LenProperties, EmptySeq
<1> HIDE DEF T
<1>2. ASSUME NEW k \in ResponsesIn(T)
      PROVE  k + 1 \in ResponsesIn(q) /\ T[k] = q[k + 1] /\ k \in Nat /\ k >= 1
  BY <1>1 DEF ResponsesIn
<1>3. Distinct(T)
  <2> SUFFICES ASSUME NEW i \in ResponsesIn(T), NEW j \in ResponsesIn(T), i # j
               PROVE  T[i].n # T[j].n
    BY DEF Distinct
  <2>1. i + 1 \in ResponsesIn(q) /\ j + 1 \in ResponsesIn(q) /\ i + 1 # j + 1
    BY <1>2
  <2> QED BY <1>2, <2>1 DEF Distinct
<1>4. ASSUME NEW id \in ResponseIDs(T)
      PROVE  id \in ResponseIDs(q) /\ id \notin ResponseIDOf(Head(q))
  <2>1. PICK k \in ResponsesIn(T) : id = T[k].n
    BY DEF ResponseIDs
  <2>2. k + 1 \in ResponsesIn(q) /\ id = q[k + 1].n /\ k + 1 # 1
    BY <1>2, <2>1
  <2>3. IsResponse(q[1]) => 1 \in ResponsesIn(q) /\ q[1].n # q[k + 1].n
    BY <1>1, <2>2 DEF ResponsesIn, Distinct
  <2> QED BY <1>1, <2>2, <2>3 DEF ResponseIDs, ResponseIDOf
<1>5. ASSUME NEW id \in ResponseIDs(q), id \notin ResponseIDOf(Head(q))
      PROVE  id \in ResponseIDs(T)
  <2>1. PICK k \in ResponsesIn(q) : id = q[k].n
    BY DEF ResponseIDs
  <2>2. k # 1
    BY <1>1, <1>5, <2>1 DEF ResponseIDOf, ResponsesIn
  <2>3. k - 1 \in ResponsesIn(T) /\ T[k - 1] = q[k]
    BY <1>1, <2>2 DEF ResponsesIn
  <2> QED BY <2>1, <2>3 DEF ResponseIDs
<1>6. ResponseIDOf(Head(q)) \subseteq ResponseIDs(q)
  <2>1. 1 \in 1 .. Len(q)
    BY <1>1
  <2> QED BY <1>1, <2>1 DEF ResponseIDOf, ResponseIDs, ResponsesIn
<1> QED BY <1>3, <1>4, <1>5, <1>6 DEF T

LEMMA AscendingAppend ==
  ASSUME NEW q \in Seq(Outbound), Ascending(q), NEW m \in Outbound,
         m.type = "request" => \A id \in RequestIDs(q) : id < m.n
  PROVE  Ascending(Append(q, m))
<1>1. /\ Len(Append(q, m)) = Len(q) + 1 /\ Len(q) \in Nat
      /\ \A i \in 1 .. Len(q) : Append(q, m)[i] = q[i]
      /\ Append(q, m)[Len(q) + 1] = m
  BY AppendProperties, LenProperties
<1>2. SUFFICES ASSUME NEW i \in RequestsIn(Append(q, m)),
                      NEW j \in RequestsIn(Append(q, m)), i < j
               PROVE  Append(q, m)[i].n < Append(q, m)[j].n
  BY DEF Ascending
<1>3. i \in RequestsIn(q) /\ Append(q, m)[i] = q[i] /\ q[i].n \in RequestIDs(q)
  BY <1>1, <1>2 DEF RequestsIn, RequestIDs
<1>4. CASE j = Len(q) + 1
  BY <1>1, <1>3, <1>4 DEF RequestsIn
<1>5. CASE j # Len(q) + 1
  <2>1. j \in RequestsIn(q) /\ Append(q, m)[j] = q[j]
    BY <1>1, <1>5 DEF RequestsIn
  <2> QED BY <1>2, <1>3, <2>1 DEF Ascending
<1> QED BY <1>4, <1>5

LEMMA DistinctAppend ==
  ASSUME NEW q \in Seq(Inbound), Distinct(q), NEW m \in Inbound,
         IsResponse(m) => m.n \notin ResponseIDs(q)
  PROVE  Distinct(Append(q, m))
<1>1. /\ Len(Append(q, m)) = Len(q) + 1 /\ Len(q) \in Nat
      /\ \A i \in 1 .. Len(q) : Append(q, m)[i] = q[i]
      /\ Append(q, m)[Len(q) + 1] = m
  BY AppendProperties, LenProperties
<1>2. \A i \in ResponsesIn(Append(q, m)) :
        i # Len(q) + 1 => /\ i \in ResponsesIn(q) /\ Append(q, m)[i] = q[i]
                          /\ q[i].n \in ResponseIDs(q)
  BY <1>1 DEF ResponsesIn, ResponseIDs
<1>3. Len(q) + 1 \in ResponsesIn(Append(q, m)) => IsResponse(m)
  BY <1>1 DEF ResponsesIn
<1> QED BY <1>1, <1>2, <1>3 DEF Distinct

(* The inductive invariant about calls.  The call under way has the newest   *)
(* ID; every other request that can still be answered was given up; no ID is *)
(* outstanding twice, so that an answer taken is not to come again.          *)

Sending == {"call_node", "call_send", "call_write"}
Emitting == {"fail_node", "send_lock", "send_write"}

DraftInv ==
    \A t \in Threads :
        /\ pc[t] \in InCall =>
             /\ draft[t].type = "request" /\ draft[t].n = nextRequestID
             /\ nextRequestID # 0 /\ nextRequestID \notin answered \cup abandoned
        /\ pc[t] \in Emitting => draft[t].type # "request"
        /\ pc[t] \in Sending => nextRequestID \notin Outstanding

KnownInv ==
    /\ Outstanding \cup answered \cup abandoned \subseteq 1 .. nextRequestID
    /\ answered \cap abandoned = {}
    /\ \A id \in Outstanding \ abandoned :
         id = nextRequestID /\ \E t \in Threads : pc[t] \in Waiting

OnceInv ==
    /\ RequestIDs(outbound) \cap unanswered = {}
    /\ RequestIDs(outbound) \cap ResponseIDs(inbound) = {}
    /\ unanswered \cap ResponseIDs(inbound) = {}
    /\ Ascending(outbound) /\ Distinct(inbound)

ResultInv == Correlated

CallInv == Typed /\ LockInv /\ DraftInv /\ KnownInv /\ OnceInv /\ ResultInv

LEMMA ReadPipe ==
  ASSUME TypeOK, Distinct(inbound),
         \/ inbound' = inbound
         \/ inbound # <<>> /\ inbound' = Tail(inbound)
  PROVE  ResponseIDs(inbound') \subseteq ResponseIDs(inbound) /\ Distinct(inbound')
<1>1. inbound \in Seq(Inbound)
  BY DEF TypeOK
<1>2. CASE inbound' = inbound
  BY <1>2
<1>3. CASE inbound # <<>> /\ inbound' = Tail(inbound)
  BY <1>1, <1>3, ResponseTakenOut
<1> QED BY <1>2, <1>3

LEMMA OneCall ==
  ASSUME LockInv, NEW t \in Threads, pc[t] \in InCall, NEW u \in Threads, u # t
  PROVE  pc[u] \notin InCall
  BY DEF LockInv, HoldsDecoder

(* Steps that add no request and end no call.                                *)
LEMMA CallFrame ==
  ASSUME CallInv, UNCHANGED <<nextRequestID, answered, abandoned>>,
         unanswered' \subseteq unanswered,
         RequestIDs(outbound') \subseteq RequestIDs(outbound), Ascending(outbound'),
         ResponseIDs(inbound') \subseteq ResponseIDs(inbound), Distinct(inbound'),
         \A u \in Threads :
            /\ pc'[u] \in InCall =>
                 /\ pc[u] \in InCall
                 /\ draft'[u].type = draft[u].type /\ draft'[u].n = draft[u].n
            /\ pc'[u] \in Sending => pc[u] \in Sending
            /\ pc[u] \in Waiting => pc'[u] \in Waiting
            /\ pc'[u] \in Emitting => draft'[u].type # "request"
  PROVE  DraftInv' /\ KnownInv' /\ OnceInv'
<1> USE DEF CallInv
<1>1. Outstanding' \subseteq Outstanding
  BY DEF Outstanding
<1>2. DraftInv'
  BY <1>1 DEF DraftInv
<1>3. KnownInv'
  BY <1>1 DEF KnownInv
<1>4. OnceInv'
  BY DEF OnceInv
<1> QED BY <1>2, <1>3, <1>4

LEMMA ResultFrame ==
  ASSUME CallInv, answered \subseteq answered', (answered \cap abandoned)' = {},
         abandoned \subseteq abandoned',
         \A u \in Threads :
            \/ result'[u] = result[u]
            \/ result'[u].kind \notin {"unsolicited", "mismatch", "answer"}
            \/ /\ result'[u].kind \in {"unsolicited", "mismatch"}
               /\ result'[u].got \in abandoned'
            \/ /\ result'[u].kind = "answer"
               /\ result'[u].got = result'[u].want /\ result'[u].got \in answered'
  PROVE  ResultInv'
  BY DEF CallInv, ResultInv, Correlated

LEMMA CallBeginStep ==
  ASSUME CallInv, NEW t \in Threads, Begin(t) \/ Cancel(t)
  PROVE  DraftInv' /\ KnownInv' /\ OnceInv' /\ ResultInv'
<1> USE DEF CallInv, pipes, host, session, locals, history, calls, Goto, InCall, Waiting,
            Sending, Emitting
<1>1. pc \in [Threads -> Locations] /\ draft \in [Threads -> Outbound]
  BY DEF Typed, TypeOK
<1>2. Ascending(outbound) /\ Distinct(inbound) /\ answered \cap abandoned = {}
  BY DEF OnceInv, KnownInv
<1>3. ASSUME NEW operation \in Calls, Start(t, operation)
      PROVE  DraftInv' /\ KnownInv' /\ OnceInv' /\ ResultInv'
  BY <1>1, <1>2, <1>3, CallFrame, ResultFrame DEF Start, EntryPoint, Calls, DraftInv
<1>4. CASE StartEmit(t) \/ StartFail(t)
  BY <1>1, <1>2, <1>4, CallFrame, ResultFrame
     DEF StartEmit, StartFail, NoDraft, DraftInv
<1>5. CASE Cancel(t)
  BY <1>1, <1>2, <1>5, CallFrame, ResultFrame DEF Cancel, DraftInv
<1> QED BY <1>3, <1>4, <1>5 DEF Begin

LEMMA CallAcquireStep ==
  ASSUME CallInv, NEW t \in Threads, Acquire(t)
  PROVE  DraftInv' /\ KnownInv' /\ OnceInv' /\ ResultInv'
<1> USE DEF CallInv, pipes, host, session, locals, history, calls, Goto, InCall, Waiting,
            Sending, Emitting
<1>1. /\ pc \in [Threads -> Locations] /\ draft \in [Threads -> Outbound]
      /\ result \in [Threads -> Result] /\ nextRequestID \in Nat
  BY DEF Typed, TypeOK
<1>2. Ascending(outbound) /\ Distinct(inbound) /\ answered \cap abandoned = {}
  BY DEF OnceInv, KnownInv
<1>3. CASE EnterReader(t)
  BY <1>1, <1>2, <1>3, CallFrame, ResultFrame DEF EnterReader, AfterLock, DraftInv
<1>4. CASE CallUninitialized(t)
  BY <1>1, <1>2, <1>4, CallFrame, ResultFrame
     DEF CallUninitialized, CallReturns, Return, Returned, DraftInv
<1>5. CASE EnterWriter(t)
  BY <1>1, <1>2, <1>5, CallFrame, ResultFrame DEF EnterWriter, DraftInv
<1>6. CASE CallPrepare(t)
  <2>1. /\ decoderMu = NoThread /\ nextRequestID' = nextRequestID + 1
        /\ pc' = [pc EXCEPT ![t] = "call_node"]
        /\ draft' = [draft EXCEPT ![t] =
                       [type |-> "request", n |-> nextRequestID + 1,
                        execution |-> executionID, node |-> "empty"]]
        /\ UNCHANGED <<outbound, inbound, unanswered, answered, abandoned, result>>
    BY <1>6 DEF CallPrepare, LockDecoder, NewID
  <2>2. \A u \in Threads : pc[u] \notin InCall
    BY <2>1 DEF LockInv, HoldsDecoder
  <2>3. Outstanding' = Outstanding
    BY <2>1 DEF Outstanding
  <2>4. Outstanding \subseteq abandoned
    BY <2>2 DEF KnownInv
  <2>5. nextRequestID + 1 \notin Outstanding \cup answered \cup abandoned
    BY <1>1 DEF KnownInv
  <2>6. DraftInv'
    BY <1>1, <2>1, <2>2, <2>3, <2>5 DEF DraftInv
  <2>7. KnownInv'
    BY <1>1, <2>1, <2>3, <2>4 DEF KnownInv
  <2>8. OnceInv'
    BY <2>1 DEF OnceInv
  <2>9. ResultInv'
    BY <1>2, <2>1, ResultFrame
  <2> QED BY <2>6, <2>7, <2>8, <2>9
<1> QED BY <1>3, <1>4, <1>5, <1>6 DEF Acquire

(* A response at the head of the pipe, while no call waits for one, is the   *)
(* answer to a request that was given up.                                    *)
LEMMA StaleHead ==
  ASSUME CallInv, inbound # <<>>, IsResponse(Head(inbound)),
         Head(inbound).n # nextRequestID \/ \A t \in Threads : pc[t] \notin Waiting
  PROVE  Head(inbound).n \in abandoned
<1>1. inbound \in Seq(Inbound) /\ Distinct(inbound)
  BY DEF CallInv, Typed, TypeOK, OnceInv
<1>2. Head(inbound).n \in Outstanding
  BY <1>1, ResponseTakenOut DEF ResponseIDOf, Outstanding
<1> QED BY <1>2 DEF CallInv, KnownInv

(* TakeMessage takes the head of the pipe or leaves the pipe alone.          *)
LEMMA TakePipe ==
  ASSUME CallInv, TakeMessage
  PROVE  /\ ResponseIDs(inbound') \subseteq ResponseIDs(inbound) /\ Distinct(inbound')
         /\ IsResponse(HeadOfInput) => inbound # <<>> /\ HeadOfInput = Head(inbound)
<1>1. TypeOK /\ Distinct(inbound)
  BY DEF CallInv, Typed, OnceInv
<1>2. ResponseIDs(inbound') \subseteq ResponseIDs(inbound) /\ Distinct(inbound')
  BY <1>1, ReadPipe DEF TakeMessage
<1>3. CASE buffered # <<>>
  <2>1. buffered \in Seq([type : InputTypes, n : Nat])
    BY <1>1 DEF TypeOK
  <2>2. Head(buffered) \in [type : InputTypes, n : Nat]
    BY <1>3, <2>1, HeadTailProperties
  <2> QED BY <1>2, <1>3, <2>2 DEF HeadOfInput, IsResponse, InputTypes
<1>4. CASE buffered = <<>>
  BY <1>2, <1>4 DEF TakeMessage, HeadOfInput
<1> QED BY <1>3, <1>4

LEMMA CallNextStep ==
  ASSUME CallInv, NEW t \in Threads,
         \/ NextUnsolicited(t) \/ NextEnd(t) \/ NextInput(t) \/ NextInitialize(t)
         \/ NextAssignExecution(t) \/ NextAssignNode(t) \/ NextClosed(t)
         \/ NextUndecoded(t) \/ DecodeMessage(t) \/ DecodeClosed(t)
         \/ DecodeUndecoded(t) \/ IdentifyExecution(t) \/ IdentifyNode(t)
  PROVE  DraftInv' /\ KnownInv' /\ OnceInv' /\ ResultInv'
<1>1. /\ pc \in [Threads -> Locations] /\ draft \in [Threads -> Outbound]
      /\ result \in [Threads -> Result]
  BY DEF CallInv, Typed, TypeOK
<1>2. /\ Ascending(outbound) /\ Distinct(inbound) /\ answered \cap abandoned = {}
      /\ \A u \in Threads : pc[u] \in Emitting => draft[u].type # "request"
  BY DEF CallInv, OnceInv, KnownInv, DraftInv
<1>3. /\ pc[t] \in {"next_take", "decode_read"} \cup Recording \cup Identifying
      /\ UNCHANGED <<outbound, unanswered, nextRequestID, draft, answered, abandoned>>
      /\ \E location \in {"idle", "next_assign", "next_assign_node",
                          "identify_assign_node"} : pc' = [pc EXCEPT ![t] = location]
  <2> USE DEF Return, Goto, readOnly, host, history, calls, Recording, Identifying
  <2>1. CASE NextUnsolicited(t) \/ NextEnd(t) \/ NextInput(t)
    BY <2>1 DEF NextUnsolicited, NextEnd, NextInput, NextReturns
  <2>2. CASE NextInitialize(t) \/ NextAssignExecution(t) \/ NextAssignNode(t)
    BY <2>2 DEF NextInitialize, NextAssignExecution, NextAssignNode
  <2>3. CASE NextClosed(t) \/ NextUndecoded(t) \/ DecodeMessage(t)
    BY <2>3 DEF NextClosed, NextUndecoded, DecodeMessage
  <2>4. CASE DecodeClosed(t) \/ DecodeUndecoded(t)
    BY <2>4 DEF DecodeClosed, DecodeUndecoded
  <2>5. CASE IdentifyExecution(t) \/ IdentifyNode(t)
    BY <2>5 DEF IdentifyExecution, IdentifyNode
  <2> QED BY <2>1, <2>2, <2>3, <2>4, <2>5
<1>4. ResponseIDs(inbound') \subseteq ResponseIDs(inbound) /\ Distinct(inbound')
  <2>1. CASE TakeMessage
    BY <2>1, TakePipe
  <2>2. CASE ~TakeMessage
    <3>1. \/ inbound' = inbound
          \/ inbound # <<>> /\ inbound' = Tail(inbound)
      BY <2>2 DEF NextUnsolicited, NextEnd, NextInitialize, NextInput, NextReturns,
         NextAssignExecution, NextAssignNode, NextClosed, NextUndecoded, DecodeMessage,
         DecodeClosed, DecodeUndecoded, IdentifyExecution, IdentifyNode, ReadSpoiled
    <3> QED BY <1>2, <3>1, ReadPipe DEF CallInv, Typed
  <2> QED BY <2>1, <2>2
<1>5. DraftInv' /\ KnownInv' /\ OnceInv'
  BY <1>1, <1>2, <1>3, <1>4, CallFrame
     DEF Sending, Emitting, InCall, Waiting, Recording, Identifying
<1>6. ResultInv'
  <2>1. CASE NextUnsolicited(t)
    <3>1. \A u \in Threads : pc[u] \notin Waiting
      <4>1. pc[t] \in HoldsDecoder /\ pc[t] \notin Waiting
        BY <2>1 DEF NextUnsolicited, NextReturns, HoldsDecoder, Waiting
      <4>2. Waiting \subseteq HoldsDecoder
        BY DEF HoldsDecoder, InCall
      <4> QED BY <4>1, <4>2 DEF CallInv, LockInv
    <3>2. TakeMessage /\ IsResponse(HeadOfInput)
          /\ result' = [result EXCEPT ![t] = Returned("unsolicited", 0, HeadOfInput.n)]
      BY <2>1 DEF NextUnsolicited, NextReturns, Return
    <3>3. HeadOfInput.n \in abandoned
      BY <3>1, <3>2, TakePipe, StaleHead
    <3> QED BY <1>1, <1>2, <1>3, <3>2, <3>3, ResultFrame DEF Returned
  <2>2. CASE ~NextUnsolicited(t)
    <3>1. \/ result' = result
          \/ \E kind \in {"eof", "input", "closed", "undecoded", "raw", "done"}, got \in Nat :
               result' = [result EXCEPT ![t] = Returned(kind, 0, got)]
      <4>1. HeadOfInput.n \in Nat \/ ~TakeMessage
        BY TakeTyped DEF CallInv, Typed, Inbound
      <4>2. inbound # <<>> => Head(inbound).n \in Nat
        BY ReadTyped DEF CallInv, Typed, Inbound
      <4>3. taken[t] \in Nat
        BY DEF CallInv, Typed, TypeOK
      <4>4. CASE NextEnd(t) \/ NextInput(t)
        BY <4>1, <4>4 DEF NextEnd, NextInput, NextReturns, Return
      <4>5. CASE NextInitialize(t) \/ NextAssignExecution(t) \/ NextAssignNode(t)
        BY <4>3, <4>5 DEF NextInitialize, NextAssignExecution, NextAssignNode, Return
      <4>6. CASE NextClosed(t) \/ NextUndecoded(t)
        BY <4>6 DEF NextClosed, NextUndecoded, Return
      <4>7. CASE DecodeMessage(t) \/ DecodeClosed(t) \/ DecodeUndecoded(t)
        BY <4>2, <4>7 DEF DecodeMessage, DecodeClosed, DecodeUndecoded, Return
      <4>8. CASE IdentifyExecution(t) \/ IdentifyNode(t)
        BY <4>8 DEF IdentifyExecution, IdentifyNode, Return
      <4> QED BY <2>2, <4>4, <4>5, <4>6, <4>7, <4>8
    <3>2. \A u \in Threads :
            \/ result'[u] = result[u]
            \/ result'[u].kind \notin {"unsolicited", "mismatch", "answer"}
      BY <1>1, <3>1 DEF Returned
    <3> QED BY <1>2, <1>3, <3>2, ResultFrame
  <2> QED BY <2>1, <2>2
<1> QED BY <1>5, <1>6

(* A call that waits for its answer ends, answered or not.                   *)
LEMMA CallEnds ==
  ASSUME CallInv, NEW t \in Threads, pc[t] \in Waiting,
         pc' = [pc EXCEPT ![t] = "idle"], draft' = [draft EXCEPT ![t] = NoDraft],
         UNCHANGED <<outbound, unanswered, nextRequestID>>,
         ResponseIDs(inbound') \subseteq ResponseIDs(inbound), Distinct(inbound'),
         \/ abandoned' = abandoned \cup {nextRequestID} /\ answered' = answered
         \/ /\ answered' = answered \cup {nextRequestID} /\ abandoned' = abandoned
            /\ nextRequestID \in ResponseIDs(inbound) \ ResponseIDs(inbound')
  PROVE  DraftInv' /\ KnownInv' /\ OnceInv'
<1> USE DEF CallInv
<1>1. /\ pc \in [Threads -> Locations] /\ draft \in [Threads -> Outbound]
      /\ nextRequestID \in Nat
  BY DEF Typed, TypeOK
<1>2. \A u \in Threads : u # t => pc[u] \notin InCall
  BY OneCall DEF InCall
<1>3. nextRequestID \notin answered \cup abandoned
  BY DEF DraftInv, InCall
<1>4. Outstanding' \subseteq Outstanding
  BY DEF Outstanding
<1>5. DraftInv'
  BY <1>1, <1>2 DEF DraftInv, InCall, Waiting, Sending, Emitting
<1>6. OnceInv'
  BY DEF OnceInv
<1>7. nextRequestID \in 1 .. nextRequestID
  BY <1>1 DEF DraftInv, InCall
<1>8. KnownInv'
  <2>1. \A id \in Outstanding' : id # nextRequestID \/ nextRequestID \in abandoned'
    BY DEF OnceInv, Outstanding
  <2>2. (Outstanding \ abandoned)' = {}
    BY <1>4, <2>1 DEF KnownInv
  <2> QED BY <1>1, <1>3, <1>4, <1>7, <2>2 DEF KnownInv
<1> QED BY <1>5, <1>6, <1>8

LEMMA CallStep ==
  ASSUME CallInv, NEW t \in Threads,
         \/ CallNode(t) \/ CallWrite(t) \/ CallRefused(t) \/ CallCancelled(t)
         \/ CallRead(t) \/ CallBuffer(t) \/ CallAnswered(t) \/ CallMismatch(t)
         \/ CallClosed(t) \/ CallUndecoded(t)
  PROVE  DraftInv' /\ KnownInv' /\ OnceInv' /\ ResultInv'
<1> USE DEF CallInv, Goto
<1>1. /\ pc \in [Threads -> Locations] /\ draft \in [Threads -> Outbound]
      /\ result \in [Threads -> Result] /\ nextRequestID \in Nat
      /\ inbound \in Seq(Inbound) /\ outbound \in Seq(Outbound)
  BY DEF Typed, TypeOK
<1>2. /\ Ascending(outbound) /\ Distinct(inbound) /\ answered \cap abandoned = {}
      /\ \A u \in Threads : pc[u] \in Emitting => draft[u].type # "request"
  BY DEF OnceInv, KnownInv, DraftInv
<1>3. pc[t] \in Waiting =>
        /\ draft[t].n = nextRequestID /\ nextRequestID \notin answered \cup abandoned
  BY DEF DraftInv, InCall
<1>4. CASE CallWrite(t)
  <2>1. /\ pc[t] = "call_write" /\ outbound' = Append(outbound, draft[t])
        /\ pc' = [pc EXCEPT ![t] = "call_check"]
        /\ UNCHANGED <<inbound, unanswered, nextRequestID, draft, answered,
                       abandoned, result>>
    BY <1>4 DEF CallWrite, Write, host, session, locals, history, calls
  <2>2. draft[t].type = "request" /\ draft[t].n = nextRequestID
        /\ nextRequestID # 0 /\ nextRequestID \notin answered \cup abandoned
        /\ nextRequestID \notin Outstanding
    BY <2>1 DEF DraftInv, InCall, Sending
  <2>3. draft[t] \in Outbound
    BY <1>1
  <2>4. RequestIDs(outbound') = RequestIDs(outbound) \cup {nextRequestID}
    BY <1>1, <2>1, <2>2, <2>3, RequestAppended DEF RequestIDOf
  <2>5. Outstanding' = Outstanding \cup {nextRequestID}
    BY <2>1, <2>4 DEF Outstanding
  <2>6. \A u \in Threads : u # t => pc[u] \notin InCall
    BY <2>1, OneCall DEF InCall
  <2>7. DraftInv'
    BY <1>1, <2>1, <2>6 DEF DraftInv, InCall, Waiting, Sending, Emitting
  <2>8. KnownInv'
    <3>1. pc'[t] \in Waiting
      BY <1>1, <2>1 DEF Waiting
    <3> QED BY <1>1, <2>1, <2>2, <2>5, <3>1 DEF KnownInv
  <2>9. OnceInv'
    <3>1. \A id \in RequestIDs(outbound) : id < nextRequestID
      BY <1>1, <2>2 DEF KnownInv, Outstanding
    <3>2. Ascending(outbound')
      BY <1>1, <1>2, <2>1, <2>2, <2>3, <3>1, AscendingAppend
    <3>3. nextRequestID \notin unanswered \cup ResponseIDs(inbound)
      BY <2>2 DEF Outstanding
    <3> QED BY <2>1, <2>4, <3>2, <3>3 DEF OnceInv
  <2>10. ResultInv'
    BY <1>2, <2>1, ResultFrame
  <2> QED BY <2>7, <2>8, <2>9, <2>10
<1>5. CASE CallRefused(t)
  <2>1. /\ pc[t] = "call_write" /\ pc' = [pc EXCEPT ![t] = "idle"]
        /\ draft' = [draft EXCEPT ![t] = NoDraft]
        /\ result' = [result EXCEPT ![t] = Returned("refused", draft[t].n, 0)]
        /\ UNCHANGED <<inbound, outbound, unanswered, nextRequestID, answered,
                       abandoned>>
    BY <1>5 DEF CallRefused, CallReturns, Return, pipes, host, session, history, calls
  <2> QED BY <1>1, <1>2, <2>1, CallFrame, ResultFrame
        DEF InCall, Waiting, Sending, Emitting, Returned
<1>6. CASE CallRead(t)
  <2>1. /\ pc[t] = "call_check" /\ pc' = [pc EXCEPT ![t] = "call_read"]
        /\ UNCHANGED <<inbound, outbound, unanswered, nextRequestID, draft, answered,
                       abandoned, result>>
    BY <1>6 DEF CallRead, pipes, host, session, locals, history, calls
  <2> QED BY <1>1, <1>2, <2>1, CallFrame, ResultFrame
        DEF InCall, Waiting, Sending, Emitting
<1>7. CASE CallBuffer(t)
  <2>1. /\ pc[t] = "call_read" /\ pc' = [pc EXCEPT ![t] = "call_check"]
        /\ inbound # <<>> /\ inbound' = Tail(inbound)
        /\ UNCHANGED <<outbound, unanswered, nextRequestID, draft, answered,
                       abandoned, result>>
    BY <1>7 DEF CallBuffer, host, locals, history, calls
  <2>2. ResponseIDs(inbound') \subseteq ResponseIDs(inbound) /\ Distinct(inbound')
    BY <1>2, <2>1, ReadPipe DEF Typed
  <2> QED BY <1>1, <1>2, <2>1, <2>2, CallFrame, ResultFrame
        DEF InCall, Waiting, Sending, Emitting
<1>8. ASSUME NEW kind \in {"cancelled", "mismatch", "closed", "undecoded"}, NEW got,
             GiveUp(t, kind, got), pc[t] \in Waiting,
             kind = "mismatch" => got \in abandoned,
             \/ inbound' = inbound
             \/ inbound # <<>> /\ inbound' = Tail(inbound)
      PROVE  DraftInv' /\ KnownInv' /\ OnceInv' /\ ResultInv'
  <2>1. /\ pc' = [pc EXCEPT ![t] = "idle"] /\ draft' = [draft EXCEPT ![t] = NoDraft]
        /\ result' = [result EXCEPT ![t] = Returned(kind, draft[t].n, got)]
        /\ abandoned' = abandoned \cup {nextRequestID} /\ answered' = answered
        /\ UNCHANGED <<outbound, unanswered, nextRequestID>>
    BY <1>3, <1>8 DEF GiveUp, EndCall, CallReturns, Return, host, session
  <2>2. ResponseIDs(inbound') \subseteq ResponseIDs(inbound) /\ Distinct(inbound')
    BY <1>2, <1>8, ReadPipe DEF Typed
  <2>3. DraftInv' /\ KnownInv' /\ OnceInv'
    BY <1>8, <2>1, <2>2, CallEnds
  <2>4. \A u \in Threads :
          \/ result'[u] = result[u]
          \/ result'[u].kind \notin {"unsolicited", "mismatch", "answer"}
          \/ result'[u].kind = "mismatch" /\ result'[u].got \in abandoned'
    BY <1>1, <1>8, <2>1 DEF Returned
  <2>5. ResultInv'
    BY <1>2, <1>3, <1>8, <2>1, <2>4, ResultFrame
  <2> QED BY <2>3, <2>5
<1>9. CASE CallCancelled(t)
  BY <1>8, <1>9 DEF CallCancelled, Waiting
<1>10. CASE CallClosed(t)
  BY <1>8, <1>10 DEF CallClosed, Waiting
<1>11. CASE CallMismatch(t)
  <2>1. /\ pc[t] \in Waiting /\ inbound # <<>> /\ inbound' = Tail(inbound)
        /\ IsResponse(Head(inbound)) /\ Head(inbound).n # nextRequestID
        /\ GiveUp(t, "mismatch", Head(inbound).n)
    BY <1>3, <1>11 DEF CallMismatch, ReadResponse, Matches, Waiting
  <2>2. Head(inbound).n \in abandoned
    BY <2>1, StaleHead
  <2> QED BY <1>8, <2>1, <2>2
<1>12. CASE CallAnswered(t)
  <2>1. /\ pc[t] \in Waiting /\ inbound # <<>> /\ inbound' = Tail(inbound)
        /\ IsResponse(Head(inbound)) /\ Head(inbound).n = nextRequestID
        /\ pc' = [pc EXCEPT ![t] = "idle"] /\ draft' = [draft EXCEPT ![t] = NoDraft]
        /\ result' = [result EXCEPT ![t] =
                        Returned("answer", nextRequestID, nextRequestID)]
        /\ answered' = answered \cup {nextRequestID} /\ abandoned' = abandoned
        /\ UNCHANGED <<outbound, unanswered, nextRequestID>>
    BY <1>3, <1>12 DEF CallAnswered, ReadResponse, Matches, Waiting, EndCall,
                       CallReturns, Return, host, session
  <2>2. /\ ResponseIDs(inbound') = ResponseIDs(inbound) \ {nextRequestID}
        /\ nextRequestID \in ResponseIDs(inbound) /\ Distinct(inbound')
    BY <1>1, <1>2, <2>1, ResponseTakenOut DEF ResponseIDOf
  <2>3. DraftInv' /\ KnownInv' /\ OnceInv'
    BY <2>1, <2>2, CallEnds
  <2>4. ResultInv'
    BY <1>1, <1>2, <1>3, <2>1, ResultFrame DEF Returned
  <2> QED BY <2>3, <2>4
<1>13. CASE CallUndecoded(t)
  BY <1>8, <1>13 DEF CallUndecoded, ReadSpoiled, Waiting
<1>14. CASE CallNode(t)
  <2>1. /\ pc[t] = "call_node" /\ pc' = [pc EXCEPT ![t] = "call_send"]
        /\ draft' = [draft EXCEPT ![t].node = nodeID]
        /\ UNCHANGED <<inbound, outbound, unanswered, nextRequestID, answered,
                       abandoned, result>>
    BY <1>14 DEF CallNode, pipes, host, session, locals, history, calls
  <2>2. \A u \in Threads : draft'[u].type = draft[u].type /\ draft'[u].n = draft[u].n
    BY <1>1, <2>1 DEF Outbound
  <2> QED BY <1>1, <1>2, <2>1, <2>2, CallFrame, ResultFrame
        DEF InCall, Waiting, Sending, Emitting
<1> QED BY <1>4, <1>5, <1>6, <1>7, <1>9, <1>10, <1>11, <1>12, <1>13, <1>14

LEMMA CallFailStep ==
  ASSUME CallInv, NEW t \in Threads, FailNode(t)
  PROVE  DraftInv' /\ KnownInv' /\ OnceInv' /\ ResultInv'
<1>1. pc \in [Threads -> Locations] /\ draft \in [Threads -> Outbound]
  BY DEF CallInv, Typed, TypeOK
<1>2. /\ Ascending(outbound) /\ Distinct(inbound) /\ answered \cap abandoned = {}
      /\ \A u \in Threads : pc[u] \in Emitting => draft[u].type # "request"
  BY DEF CallInv, OnceInv, KnownInv, DraftInv
<1>3. PICK n : /\ pc[t] = "fail_node" /\ pc' = [pc EXCEPT ![t] = "send_lock"]
               /\ draft' = [draft EXCEPT ![t].node = n]
               /\ UNCHANGED <<inbound, outbound, unanswered, nextRequestID, answered,
                              abandoned, result>>
  BY DEF FailNode, Goto, pipes, host, session, history, calls
<1>4. \A u \in Threads : draft'[u].type = draft[u].type /\ draft'[u].n = draft[u].n
  BY <1>1, <1>3 DEF Outbound
<1> QED BY <1>1, <1>2, <1>3, <1>4, CallFrame, ResultFrame
      DEF InCall, Waiting, Sending, Emitting

LEMMA CallSendStep ==
  ASSUME CallInv, NEW t \in Threads, SendWrite(t) \/ SendRefused(t)
  PROVE  DraftInv' /\ KnownInv' /\ OnceInv' /\ ResultInv'
<1>1. /\ pc \in [Threads -> Locations] /\ draft \in [Threads -> Outbound]
      /\ result \in [Threads -> Result] /\ outbound \in Seq(Outbound)
  BY DEF CallInv, Typed, TypeOK
<1>2. /\ Ascending(outbound) /\ Distinct(inbound) /\ answered \cap abandoned = {}
      /\ \A u \in Threads : pc[u] \in Emitting => draft[u].type # "request"
  BY DEF CallInv, OnceInv, KnownInv, DraftInv
<1>3. \E kind \in {"done", "refused"} :
        /\ pc[t] = "send_write" /\ pc' = [pc EXCEPT ![t] = "idle"]
        /\ draft' = [draft EXCEPT ![t] = NoDraft]
        /\ result' = [result EXCEPT ![t] = Returned(kind, 0, 0)]
        /\ UNCHANGED <<inbound, unanswered, nextRequestID, answered, abandoned>>
        /\ outbound' = outbound \/ outbound' = Append(outbound, draft[t])
  BY DEF SendWrite, SendRefused, SendReturns, Write, Return, Goto, pipes, host,
         session, history, calls
<1>4. draft[t] \in Outbound /\ draft[t].type # "request"
  BY <1>1, <1>2, <1>3 DEF Emitting
<1>5. RequestIDs(outbound') = RequestIDs(outbound) /\ Ascending(outbound')
  <2>1. RequestIDs(Append(outbound, draft[t])) = RequestIDs(outbound)
    BY <1>1, <1>4, RequestAppended DEF RequestIDOf
  <2>2. Ascending(Append(outbound, draft[t]))
    BY <1>1, <1>2, <1>4, AscendingAppend
  <2> QED BY <1>2, <1>3, <2>1, <2>2
<1>6. DraftInv' /\ KnownInv' /\ OnceInv'
  BY <1>1, <1>2, <1>3, <1>5, CallFrame DEF InCall, Waiting, Sending, Emitting
<1>7. ResultInv'
  BY <1>1, <1>2, <1>3, ResultFrame DEF Returned
<1> QED BY <1>6, <1>7

LEMMA CallHostStep ==
  ASSUME CallInv, HostStep
  PROVE  DraftInv' /\ KnownInv' /\ OnceInv' /\ ResultInv'
<1> USE DEF CallInv
<1>1. inbound \in Seq(Inbound) /\ outbound \in Seq(Outbound) /\ sent \in Nat
  BY DEF Typed, TypeOK
<1>2. /\ Ascending(outbound) /\ Distinct(inbound) /\ answered \cap abandoned = {}
      /\ \A u \in Threads : pc[u] \in Emitting => draft[u].type # "request"
  BY DEF OnceInv, KnownInv, DraftInv
<1>3. UNCHANGED <<pc, draft, result, nextRequestID, answered, abandoned>>
  BY HostFrame
<1>4. ResultInv'
  BY <1>2, <1>3, ResultFrame
<1>5. ASSUME NEW m \in Inbound, inbound' = Append(inbound, m), ~IsResponse(m),
             outbound' = outbound, unanswered' \subseteq unanswered
      PROVE  DraftInv' /\ KnownInv' /\ OnceInv' /\ ResultInv'
  <2>1. ResponseIDs(inbound') = ResponseIDs(inbound)
    BY <1>1, <1>5, ResponseAppended DEF ResponseIDOf
  <2>2. Distinct(inbound')
    BY <1>1, <1>2, <1>5, DistinctAppend
  <2> QED BY <1>2, <1>3, <1>4, <1>5, <2>1, <2>2, CallFrame
<1>6. CASE HostSend \/ HostSpoilInput
  <2>1. PICK m \in {InputMessage(sent + 1), SpoiledInput(sent + 1)} : SendInput(m)
    BY <1>6 DEF HostSend, HostSpoilInput
  <2>2. m \in Inbound /\ ~IsResponse(m)
    BY <1>1, <2>1 DEF InputMessage, SpoiledInput, Inbound, InputTypes, SpoiledTypes, IsResponse
  <2> QED BY <1>5, <2>1, <2>2 DEF SendInput
<1>7. CASE HostClose
  <2>1. UNCHANGED <<inbound, outbound, unanswered>>
    BY <1>7 DEF HostClose, host
  <2> QED BY <1>2, <1>3, <1>4, <2>1, CallFrame
<1>8. CASE HostRead
  <2>1. /\ outbound # <<>> /\ outbound' = Tail(outbound) /\ inbound' = inbound
        /\ unanswered' = unanswered \cup RequestIDOf(Head(outbound))
    BY <1>8 DEF HostRead, RequestIDOf
  <2>2. /\ RequestIDs(outbound') = RequestIDs(outbound) \ RequestIDOf(Head(outbound))
        /\ RequestIDOf(Head(outbound)) \subseteq RequestIDs(outbound)
        /\ Ascending(outbound')
    BY <1>1, <1>2, <2>1, RequestTaken
  <2>3. Outstanding' = Outstanding
    BY <2>1, <2>2 DEF Outstanding
  <2>4. DraftInv' /\ KnownInv'
    BY <1>3, <2>3 DEF DraftInv, KnownInv
  <2>5. OnceInv'
    BY <2>1, <2>2 DEF OnceInv
  <2> QED BY <1>4, <2>4, <2>5
<1>9. ASSUME NEW id \in 1 .. MaxRequests, HostAnswer(id)
      PROVE  DraftInv' /\ KnownInv' /\ OnceInv' /\ ResultInv'
  <2>1. /\ id \in unanswered /\ outbound' = outbound
        /\ inbound' = Append(inbound, Response(id))
        /\ unanswered' = unanswered \ {id}
        /\ Response(id) \in Inbound /\ IsResponse(Response(id)) /\ Response(id).n = id
    BY <1>9 DEF HostAnswer, SendAnswer, Response, Inbound, IsResponse
  <2>2. ResponseIDs(inbound') = ResponseIDs(inbound) \cup {id}
    BY <1>1, <2>1, ResponseAppended DEF ResponseIDOf
  <2>3. id \notin ResponseIDs(inbound) /\ id \notin RequestIDs(outbound)
    BY <2>1 DEF OnceInv
  <2>4. Distinct(inbound')
    BY <1>1, <1>2, <2>1, <2>3, DistinctAppend
  <2>5. Outstanding' = Outstanding
    BY <2>1, <2>2 DEF Outstanding
  <2>6. DraftInv' /\ KnownInv'
    BY <1>3, <2>5 DEF DraftInv, KnownInv
  <2>7. OnceInv'
    BY <2>1, <2>2, <2>3, <2>4 DEF OnceInv
  <2> QED BY <1>4, <2>6, <2>7
<1>10. ASSUME NEW id \in 1 .. MaxRequests, HostSpoilAnswer(id)
       PROVE  DraftInv' /\ KnownInv' /\ OnceInv' /\ ResultInv'
  <2>1. SpoiledAnswer(id) \in Inbound /\ ~IsResponse(SpoiledAnswer(id))
    BY DEF SpoiledAnswer, Inbound, SpoiledTypes, IsResponse
  <2> QED BY <1>5, <1>10, <2>1 DEF HostSpoilAnswer, SendAnswer
<1> QED BY <1>6, <1>7, <1>8, <1>9, <1>10 DEF HostStep

LEMMA CallInvStep == CallInv /\ [Next]_vars => CallInv'
<1> SUFFICES ASSUME CallInv, [Next]_vars PROVE CallInv'
  OBVIOUS
<1>1. Typed' /\ LockInv'
  BY StepTyped, LockStep DEF CallInv
<1>2. CASE UNCHANGED vars
  <2>1. UNCHANGED <<inbound, outbound, unanswered, decoderMu, nextRequestID, pc, draft,
                    result, answered, abandoned>>
    BY <1>2 DEF vars, pipes, host, session, locals, history, calls
  <2>2. DraftInv' /\ KnownInv' /\ OnceInv'
    BY <2>1 DEF CallInv, DraftInv, KnownInv, OnceInv, Outstanding
  <2>3. ResultInv'
    BY <2>1, ResultFrame DEF CallInv, KnownInv
  <2> QED BY <1>1, <2>2, <2>3 DEF CallInv
<1>3. CASE GuestEnded
  BY <1>2, <1>3 DEF GuestEnded
<1>4. ASSUME NEW t \in Threads, Begin(t) \/ Cancel(t) \/ Acquire(t) \/ Step(t)
      PROVE  CallInv'
  BY <1>1, <1>4, CallBeginStep, CallAcquireStep, CallNextStep, CallStep, CallFailStep,
     CallSendStep DEF Step, CallInv
<1>5. ASSUME HostStep PROVE CallInv'
  BY <1>1, <1>5, CallHostStep DEF CallInv
<1> QED BY <1>2, <1>3, <1>4, <1>5 DEF Next

LEMMA InitCallInv == Init => CallInv
<1> SUFFICES ASSUME Init PROVE CallInv
  OBVIOUS
<1>1. Typed /\ LockInv
  BY InitTyped DEF Init, LockInv, HoldsDecoder, HoldsEncoder, Recording, Identifying, InCall,
     Waiting
<1>2. RequestsIn(outbound) = {} /\ ResponsesIn(inbound) = {}
  BY EmptySeq DEF Init, RequestsIn, ResponsesIn
<1>3. Outstanding = {} /\ OnceInv
  BY <1>2 DEF Init, Outstanding, OnceInv, RequestIDs, ResponseIDs, Ascending, Distinct
<1>4. DraftInv /\ KnownInv
  BY <1>3 DEF Init, DraftInv, KnownInv, InCall, Waiting, Sending, Emitting
<1>5. ResultInv
  BY DEF Init, ResultInv, Correlated, Returned
<1> QED BY <1>1, <1>3, <1>4, <1>5 DEF CallInv

LEMMA CallInvariant == Spec => []CallInv
  BY InitCallInv, CallInvStep, PTL DEF Spec

(* A call that succeeds returns the answer to its own request, whatever late *)
(* answers to cancelled calls are still under way, and an unsolicited or     *)
(* mismatched response is always such a late answer.                         *)
THEOREM AnswersCorrelated == Spec => []Correlated
<1>1. CallInv => Correlated
  BY DEF CallInv, ResultInv
<1> QED BY <1>1, CallInvariant, PTL

(* At most one request that still has a call waiting for it is out.          *)
THEOREM OneRequestInFlight == Spec => []OneInFlight
<1>1. CallInv => OneInFlight
  <2> SUFFICES ASSUME CallInv, NEW id \in Outstanding \ abandoned
               PROVE  \E t \in Threads :
                        decoderMu = t /\ InFlight(t) /\ draft[t].n = id
    BY DEF OneInFlight
  <2>1. PICK t \in Threads : pc[t] \in Waiting /\ id = nextRequestID
    BY DEF CallInv, KnownInv
  <2>2. decoderMu = t /\ draft[t].n = id
    BY <2>1 DEF CallInv, LockInv, DraftInv, HoldsDecoder, InCall
  <2> QED BY <2>1, <2>2 DEF InFlight
<1> QED BY <1>1, CallInvariant, PTL

(* Callers that wait, of a host whose messages the decoder takes. A call     *)
(* then ends without its answer only at the end of the stream, and no answer *)
(* is left for another operation to read.                                    *)
Unspoiled(q) == \A i \in 1 .. Len(q) : ~Spoiled(q[i])

PatientInv ==
    /\ \A t \in Threads : ~cancelled[t]
    /\ abandoned # {} => stdinClosed /\ inbound = <<>>
    /\ \A t \in Threads : result[t].kind \notin {"unsolicited", "mismatch"}
    /\ Unspoiled(inbound)

LEMMA UnspoiledQueue ==
  ASSUME NEW q \in Seq(Inbound), Unspoiled(q)
  PROVE  /\ q # <<>> => ~Spoiled(Head(q)) /\ Unspoiled(Tail(q))
         /\ \A m \in Inbound : ~Spoiled(m) => Unspoiled(Append(q, m))
<1>1. ASSUME q # <<>> PROVE ~Spoiled(Head(q)) /\ Unspoiled(Tail(q))
  <2>1. /\ Len(q) \in Nat /\ Len(q) >= 1 /\ Head(q) = q[1] /\ Len(Tail(q)) = Len(q) - 1
        /\ \A i \in 1 .. Len(Tail(q)) : Tail(q)[i] = q[i + 1]
    BY <1>1, HeadTailProperties, LenProperties, EmptySeq
  <2>2. \A i \in 1 .. Len(Tail(q)) : i + 1 \in 1 .. Len(q)
    BY <2>1
  <2> QED BY <2>1, <2>2 DEF Unspoiled
<1>2. ASSUME NEW m \in Inbound, ~Spoiled(m) PROVE Unspoiled(Append(q, m))
  <2>1. /\ Len(Append(q, m)) = Len(q) + 1 /\ Len(q) \in Nat
        /\ \A i \in 1 .. Len(q) : Append(q, m)[i] = q[i]
        /\ Append(q, m)[Len(q) + 1] = m
    BY AppendProperties, LenProperties
  <2> QED BY <1>2, <2>1 DEF Unspoiled
<1> QED BY <1>1, <1>2

(* Nobody reads an answer that is not his, or a message that is refused.     *)
LEMMA OnlyOwnAnswers ==
  ASSUME CallInv, PatientInv, NEW t \in Threads
  PROVE  ~NextUnsolicited(t) /\ ~CallMismatch(t) /\ ~ReadSpoiled
<1>1. ASSUME inbound # <<>>, IsResponse(Head(inbound))
      PROVE  /\ Head(inbound).n = nextRequestID
             /\ \E u \in Threads : pc[u] \in Waiting
  BY <1>1, StaleHead DEF PatientInv
<1>2. ASSUME NextUnsolicited(t) PROVE FALSE
  <2>1. pc[t] = "next_take" /\ inbound # <<>> /\ IsResponse(Head(inbound))
    BY <1>2, TakePipe DEF NextUnsolicited, NextReturns
  <2>2. PICK u \in Threads : pc[u] \in Waiting
    BY <1>1, <2>1
  <2>3. decoderMu = t /\ decoderMu = u
    BY <2>1, <2>2 DEF CallInv, LockInv, HoldsDecoder, InCall
  <2> QED BY <2>1, <2>2, <2>3 DEF Waiting
<1>3. ASSUME CallMismatch(t) PROVE FALSE
  <2>1. /\ pc[t] = "call_read" /\ inbound # <<>> /\ IsResponse(Head(inbound))
        /\ draft[t].n # Head(inbound).n
    BY <1>3 DEF CallMismatch, ReadResponse, Matches
  <2>2. draft[t].n = nextRequestID
    BY <2>1 DEF CallInv, DraftInv, InCall, Waiting
  <2> QED BY <1>1, <2>1, <2>2
<1>4. ~ReadSpoiled
  BY UnspoiledQueue DEF CallInv, Typed, TypeOK, PatientInv, ReadSpoiled
<1> QED BY <1>2, <1>3, <1>4

LEMMA PatientKeeps ==
  ASSUME CallInv, PatientInv, [PatientStep]_vars
  PROVE  PatientInv'
<1>1. /\ cancelled \in [Threads -> BOOLEAN] /\ result \in [Threads -> Result]
      /\ inbound \in Seq(Inbound)
  BY DEF CallInv, Typed, TypeOK
<1> USE DEF PatientInv, Return, pipes, host, session, locals, history, calls
<1>2. ASSUME NEW t \in Threads, NEW kind \in Kinds \ {"unsolicited", "mismatch"},
             NEW want, NEW got, Return(t, Returned(kind, want, got))
      PROVE  \A u \in Threads : result'[u].kind \notin {"unsolicited", "mismatch"}
  BY <1>1, <1>2 DEF Returned
<1>3. \A t \in Threads :
        cancelled' = [cancelled EXCEPT ![t] = FALSE] => \A u \in Threads : ~cancelled'[u]
  BY <1>1
<1>4. Unspoiled(inbound) /\ (inbound # <<>> => Unspoiled(Tail(inbound)))
  BY <1>1, UnspoiledQueue
<1>5. ASSUME NEW t \in Threads, Begin(t) \/ Acquire(t) PROVE PatientInv'
  <2>1. CASE Begin(t)
    BY <2>1 DEF Begin, Start, StartEmit, StartFail
  <2>2. CASE EnterReader(t) \/ CallPrepare(t) \/ EnterWriter(t)
    BY <2>2 DEF EnterReader, CallPrepare, EnterWriter
  <2>3. CASE CallUninitialized(t)
    <3>1. \A u \in Threads : ~cancelled'[u]
      BY <1>3, <2>3 DEF CallUninitialized, CallReturns
    <3> QED BY <1>2, <2>3, <3>1 DEF CallUninitialized, CallReturns, Kinds
  <2> QED BY <1>5, <2>1, <2>2, <2>3 DEF Acquire
<1>6. ASSUME NEW t \in Threads, Step(t) PROVE PatientInv'
  <2>1. CASE NextEnd(t) \/ NextInput(t)
    <3>1. TakeMessage /\ UNCHANGED <<stdinClosed, cancelled, abandoned>>
          /\ \/ Return(t, Returned("eof", 0, HeadOfInput.n))
             \/ Return(t, Returned("input", 0, HeadOfInput.n))
      BY <2>1 DEF NextEnd, NextInput, NextReturns, readOnly
    <3>2. \A u \in Threads : result'[u].kind \notin {"unsolicited", "mismatch"}
      BY <1>2, <3>1 DEF Kinds
    <3> QED BY <1>4, <3>1, <3>2 DEF TakeMessage
  <2>2. CASE NextInitialize(t)
    BY <1>4, <2>2 DEF NextInitialize, TakeMessage, readOnly
  <2>3. CASE \/ NextAssignExecution(t) \/ IdentifyExecution(t) \/ CallNode(t) \/ FailNode(t)
    BY <2>3 DEF NextAssignExecution, IdentifyExecution, CallNode, FailNode, readOnly
  <2>4. CASE NextAssignNode(t) \/ IdentifyNode(t) \/ NextClosed(t) \/ DecodeClosed(t)
    <3>1. UNCHANGED <<stdinClosed, inbound, cancelled, abandoned>>
      BY <2>4 DEF NextAssignNode, IdentifyNode, NextClosed, DecodeClosed, readOnly
    <3>2. \A u \in Threads : result'[u].kind \notin {"unsolicited", "mismatch"}
      BY <1>2, <2>4 DEF NextAssignNode, IdentifyNode, NextClosed, DecodeClosed, Kinds
    <3> QED BY <3>1, <3>2
  <2>5. CASE DecodeMessage(t)
    <3>1. inbound # <<>> /\ inbound' = Tail(inbound)
          /\ UNCHANGED <<stdinClosed, cancelled, abandoned>>
      BY <2>5 DEF DecodeMessage, readOnly
    <3>2. \A u \in Threads : result'[u].kind \notin {"unsolicited", "mismatch"}
      BY <1>2, <2>5 DEF DecodeMessage, Kinds
    <3> QED BY <1>4, <3>1, <3>2
  <2>6. CASE CallWrite(t) \/ CallRead(t)
    BY <2>6 DEF CallWrite, Write, CallRead
  <2>7. CASE SendWrite(t) \/ SendRefused(t)
    <3>1. UNCHANGED <<stdinClosed, inbound, cancelled, abandoned>>
      BY <2>7 DEF SendWrite, SendRefused, SendReturns, Write
    <3>2. \A u \in Threads : result'[u].kind \notin {"unsolicited", "mismatch"}
      BY <1>2, <2>7 DEF SendWrite, SendRefused, SendReturns, Kinds
    <3> QED BY <3>1, <3>2
  <2>8. CASE CallRefused(t)
    <3>1. UNCHANGED <<stdinClosed, inbound, abandoned>> /\ \A u \in Threads : ~cancelled'[u]
      BY <1>3, <2>8 DEF CallRefused, CallReturns
    <3>2. \A u \in Threads : result'[u].kind \notin {"unsolicited", "mismatch"}
      BY <1>2, <2>8 DEF CallRefused, CallReturns, Kinds
    <3> QED BY <3>1, <3>2
  <2>9. CASE CallBuffer(t)
    BY <1>4, <2>9 DEF CallBuffer
  <2>10. CASE CallAnswered(t)
    <3>1. inbound # <<>> /\ inbound' = Tail(inbound) /\ UNCHANGED abandoned
          /\ \A u \in Threads : ~cancelled'[u]
      BY <1>3, <2>10 DEF CallAnswered, ReadResponse, EndCall, CallReturns
    <3>2. \A u \in Threads : result'[u].kind \notin {"unsolicited", "mismatch"}
      BY <1>2, <2>10 DEF CallAnswered, EndCall, CallReturns, Kinds
    <3> QED BY <1>4, <3>1, <3>2
  <2>11. CASE CallClosed(t)
    <3>1. inbound = <<>> /\ inbound' = inbound /\ stdinClosed'
          /\ \A u \in Threads : ~cancelled'[u]
      BY <1>3, <2>11 DEF CallClosed, AtEOF, GiveUp, EndCall, CallReturns
    <3>2. \A u \in Threads : result'[u].kind \notin {"unsolicited", "mismatch"}
      BY <1>2, <2>11 DEF CallClosed, GiveUp, EndCall, CallReturns, Kinds
    <3> QED BY <3>1, <3>2
  <2>12. ~CallCancelled(t)
    BY DEF CallCancelled
  <2>13. ~NextUndecoded(t) /\ ~DecodeUndecoded(t) /\ ~CallUndecoded(t)
    BY OnlyOwnAnswers DEF NextUndecoded, DecodeUndecoded, CallUndecoded
  <2> QED BY <1>6, <2>1, <2>2, <2>3, <2>4, <2>5, <2>6, <2>7, <2>8, <2>9, <2>10, <2>11,
          <2>12, <2>13, OnlyOwnAnswers DEF Step
<1>7. ASSUME HostStep, spoiled' = 0 PROVE PatientInv'
  <2>1. UNCHANGED <<cancelled, abandoned, result>> /\ (stdinClosed => stdinClosed')
    BY <1>7 DEF HostStep, HostSend, HostSpoilInput, SendInput, HostRead, HostAnswer,
         HostSpoilAnswer, SendAnswer, HostClose, hostLeaves
  <2>2. CASE HostRead \/ HostClose
    BY <2>1, <2>2 DEF HostRead, HostClose, hostLeaves
  <2>3. ASSUME NEW m \in Inbound, ~Spoiled(m), inbound' = Append(inbound, m), ~stdinClosed
        PROVE  PatientInv'
    BY <1>1, <2>1, <2>3, UnspoiledQueue
  <2>4. CASE HostSend
    <3>1. sent + 1 \in Nat
      BY DEF CallInv, Typed, TypeOK
    <3>2. InputMessage(sent + 1) \in Inbound /\ ~Spoiled(InputMessage(sent + 1))
      BY <3>1 DEF InputMessage, Inbound, InputTypes, Spoiled, SpoiledTypes
    <3> QED BY <2>3, <2>4, <3>2 DEF HostSend, SendInput
  <2>5. ASSUME NEW id \in 1 .. MaxRequests, HostAnswer(id) PROVE PatientInv'
    <3>1. Response(id) \in Inbound /\ ~Spoiled(Response(id))
      BY MaxRequestsAssumption DEF Response, Inbound, Spoiled, SpoiledTypes
    <3> QED BY <2>3, <2>5, <3>1 DEF HostAnswer, SendAnswer
  <2>6. ~HostSpoilInput /\ \A id \in 1 .. MaxRequests : ~HostSpoilAnswer(id)
    <3>1. spoiled + 1 # 0
      BY MaxSpoiledAssumption DEF CallInv, Typed, TypeOK
    <3> QED BY <1>7, <3>1 DEF HostSpoilInput, HostSpoilAnswer
  <2> QED BY <1>7, <2>2, <2>4, <2>5, <2>6 DEF HostStep
<1>8. CASE UNCHANGED vars \/ GuestEnded
  BY <1>8 DEF vars, GuestEnded
<1> QED BY <1>5, <1>6, <1>7, <1>8 DEF PatientStep, Next

(* Where no call is cancelled and no message refused, Next calls a response  *)
(* unsolicited only if it is one: what goes wrong otherwise comes from calls *)
(* that gave up alone.                                                       *)
THEOREM UnsolicitedIfPatient == PatientSpec => []UnsolicitedIsUnrequested
<1>1. Init => PatientInv
  BY EmptySeq DEF Init, PatientInv, Returned, Unspoiled
<1>2. [PatientStep]_vars => [Next]_vars
  BY DEF PatientStep
<1>3. PatientSpec => Spec
  BY <1>2, PTL DEF PatientSpec, Spec
<1>4. PatientInv => UnsolicitedIsUnrequested
  BY DEF PatientInv, UnsolicitedIsUnrequested
<1> QED BY <1>1, <1>3, <1>4, PatientKeeps, CallInvariant, PTL DEF PatientSpec

(* Requests leave in the order of their IDs, although the ID is drawn under  *)
(* decoderMu and the request written under encoderMu.                        *)
THEOREM RequestsOrdered == Spec => []RequestsInOrder
<1>1. CallInv => RequestsInOrder
  BY DEF CallInv, OnceInv, Ascending, RequestsInOrder
<1> QED BY <1>1, CallInvariant, PTL

-----------------------------------------------------------------------------
(* The session implements SessionPromise.                                    *)

Open == {draft[t].n : t \in {u \in Threads : pc[u] \in InCall}}

LEMMA OpenFrame ==
  ASSUME \A u \in Threads :
           /\ pc'[u] \in InCall <=> pc[u] \in InCall
           /\ pc[u] \in InCall => draft'[u].n = draft[u].n
  PROVE  Open' = Open
  BY DEF Open

(* The call of the one goroutine that is in one.                             *)
LEMMA OpenIsOne ==
  ASSUME LockInv, NEW t \in Threads, pc[t] \in InCall PROVE Open = {draft[t].n}
  BY OneCall DEF Open

LEMMA CloseStep ==
  ASSUME Typed, LockInv, NEW t \in Threads, pc[t] \in InCall,
         pc' = [pc EXCEPT ![t] = "idle"]
  PROVE  Open' = {}
<1>1. pc \in [Threads -> Locations]
  BY DEF Typed, TypeOK
<1>2. \A u \in Threads : pc'[u] \notin InCall
  BY <1>1, OneCall DEF InCall, Waiting
<1> QED BY <1>2 DEF Open

(* Nobody else is in a call while a goroutine reads under decoderMu.         *)
LEMMA NoneOpen ==
  ASSUME LockInv, NEW t \in Threads, pc[t] \in HoldsDecoder \ InCall PROVE Open = {}
<1>1. ASSUME NEW u \in Threads, pc[u] \in InCall PROVE FALSE
  <2>1. decoderMu = t /\ decoderMu = u
    BY <1>1 DEF LockInv, HoldsDecoder
  <2> QED BY <1>1, <2>1
<1>2. {u \in Threads : pc[u] \in InCall} = {}
  BY <1>1, Zenon
<1> QED BY <1>2 DEF Open

(* What the decoder refuses is an answer, or an input still to come.         *)
LEMMA RefusedIsToCome ==
  ASSUME InputInv, NEW t \in Threads, pc[t] \in HoldsDecoder \ Recording, ReadSpoiled,
         lost' # lost
  PROVE  \E n \in (delivered + 1 .. sent) \ lost : lost' = lost \cup {n}
<1> USE DEF InputInv
<1>1. /\ inbound # <<>> /\ lost' = lost \cup {Head(inbound).n}
      /\ CarriesInput(Head(inbound))
  BY DEF ReadSpoiled, CarriesInput
<1>2. Claimed = delivered
  BY NothingClaimed
<1>3. inbound \in Seq(Inbound) /\ delivered \in Nat /\ sent \in Nat
  BY QueuesTyped, ClaimedTyped DEF Typed
<1>4. PICK r \in delivered .. sent : Follows(inbound, r, sent, lost)
  BY <1>2, Conserved
<1>5. r \in Nat
  BY <1>3
<1>6. Head(inbound).n \in r + 1 .. sent /\ Head(inbound).n \notin lost
  BY <1>1, <1>3, <1>4, <1>5, HeadIsNext DEF NextAfter
<1>7. Head(inbound).n \in (delivered + 1 .. sent) \ lost
  BY <1>3, <1>4, <1>6
<1> QED BY <1>1, <1>7

(* Steps of a goroutine that the promise does not see.                       *)
OtherStep(t) ==
    \/ NextUnsolicited(t) \/ NextInitialize(t) \/ NextAssignExecution(t) \/ NextClosed(t)
    \/ DecodeClosed(t) \/ IdentifyExecution(t) \/ IdentifyNode(t)
    \/ CallNode(t) \/ CallWrite(t) \/ CallRead(t) \/ CallBuffer(t)
    \/ FailNode(t) \/ SendWrite(t) \/ SendRefused(t)

LEMMA OtherStutters ==
  ASSUME Typed, NEW t \in Threads,
         \/ OtherStep(t) \/ EnterReader(t) \/ CallUninitialized(t) \/ EnterWriter(t)
  PROVE  UNCHANGED <<sent, delivered, lost, nextRequestID, answered, Open>>
<1>1. pc \in [Threads -> Locations] /\ draft \in [Threads -> Outbound]
  BY DEF Typed, TypeOK
<1> USE DEF InCall, Waiting, Goto, Return, pipes, host, session, locals, history, calls,
            readOnly
<1>2. CASE \/ NextUnsolicited(t) \/ NextInitialize(t) \/ NextAssignExecution(t)
           \/ NextClosed(t)
  BY <1>1, <1>2, OpenFrame DEF NextUnsolicited, NextInitialize, NextAssignExecution,
     NextClosed, NextReturns
<1>3. CASE DecodeClosed(t) \/ IdentifyExecution(t) \/ IdentifyNode(t)
  BY <1>1, <1>3, OpenFrame DEF DecodeClosed, IdentifyExecution, IdentifyNode
<1>4. CASE CallNode(t)
  <2>1. /\ pc[t] = "call_node" /\ pc' = [pc EXCEPT ![t] = "call_send"]
        /\ UNCHANGED <<sent, delivered, lost, nextRequestID, answered>>
        /\ draft' = [draft EXCEPT ![t].node = nodeID]
    BY <1>4 DEF CallNode
  <2>2. draft'[t].n = draft[t].n /\ \A u \in Threads \ {t} : draft'[u] = draft[u]
    BY <1>1, <2>1 DEF Outbound
  <2>3. \A u \in Threads : pc'[u] \in InCall <=> pc[u] \in InCall
    BY <1>1, <2>1
  <2>4. Open' = Open
    BY <2>2, <2>3, OpenFrame
  <2> QED BY <2>1, <2>4
<1>5. CASE CallWrite(t) \/ CallRead(t) \/ CallBuffer(t)
  BY <1>1, <1>5, OpenFrame DEF CallWrite, CallRead, CallBuffer
<1>6. CASE FailNode(t) \/ SendWrite(t) \/ SendRefused(t)
  <2>1. /\ pc[t] \in {"fail_node", "send_write"} /\ pc'[t] \in {"send_lock", "idle"}
        /\ \A u \in Threads \ {t} : pc'[u] = pc[u] /\ draft'[u] = draft[u]
        /\ UNCHANGED <<sent, delivered, lost, nextRequestID, answered>>
    BY <1>1, <1>6 DEF FailNode, SendWrite, SendRefused, SendReturns
  <2>2. \A u \in Threads : /\ pc'[u] \in InCall <=> pc[u] \in InCall
                           /\ pc[u] \in InCall => draft'[u].n = draft[u].n
    BY <2>1
  <2> QED BY <2>1, <2>2, OpenFrame
<1>7. CASE EnterReader(t)
  BY <1>1, <1>7, OpenFrame DEF EnterReader, AfterLock
<1>8. CASE CallUninitialized(t)
  BY <1>1, <1>8, OpenFrame DEF CallUninitialized, CallReturns
<1>9. CASE EnterWriter(t)
  BY <1>1, <1>9, OpenFrame DEF EnterWriter
<1> QED BY <1>2, <1>3, <1>4, <1>5, <1>6, <1>7, <1>8, <1>9 DEF OtherStep

LEMMA PromiseStep ==
  ASSUME InputInv, CallInv, [Next]_vars
  PROVE  [Promise!Next]_(Promise!vars)
<1> USE DEF CallInv
<1>1. /\ pc \in [Threads -> Locations] /\ draft \in [Threads -> Outbound]
      /\ sent \in Nat /\ delivered \in Nat
  BY DEF Typed, TypeOK
<1>2. ASSUME UNCHANGED <<sent, delivered, lost, nextRequestID, answered, Open>>
      PROVE  [Promise!Next]_(Promise!vars)
  BY <1>2 DEF Promise!vars, Promise!inputs, Promise!calls, Open
<1>3. CASE delivered' # delivered
  <2>1. /\ NextAfter(delivered', delivered, lost)
        /\ delivered' \in Nat /\ delivered' <= sent
        /\ UNCHANGED <<sent, lost, nextRequestID, answered, draft>>
        /\ \E t \in Threads : /\ pc[t] \in {"next_take", "next_assign_node", "decode_read"}
                              /\ pc' = [pc EXCEPT ![t] = "idle"]
    BY <1>3, DeliveryStep
  <2>2. Open' = Open
    BY <1>1, <2>1, OpenFrame DEF InCall, Waiting
  <2>3. delivered' \in delivered + 1 .. sent /\ delivered' \notin lost
    BY <1>1, <2>1 DEF NextAfter
  <2>4. delivered + 1 .. delivered' - 1 \subseteq lost
    BY <2>1 DEF NextAfter
  <2>5. Promise!Consume
    BY <2>1, <2>2, <2>3, <2>4 DEF Promise!Consume, Promise!calls, Open
  <2> QED BY <2>5 DEF Promise!Next
<1>4. ASSUME NEW t \in Threads, Begin(t) \/ Cancel(t)
      PROVE  UNCHANGED <<sent, delivered, lost, nextRequestID, answered, Open>>
  <2> USE DEF InCall, Waiting, Goto, host, session, locals, history, calls
  <2>1. ASSUME NEW operation \in Calls, Start(t, operation)
        PROVE  UNCHANGED <<sent, delivered, lost, nextRequestID, answered, Open>>
    BY <1>1, <2>1, OpenFrame DEF Start, EntryPoint, Calls
  <2>2. CASE StartEmit(t)
    BY <1>1, <2>2, OpenFrame DEF StartEmit
  <2>3. CASE StartFail(t)
    <3>1. /\ pc[t] = "idle" /\ pc'[t] = "fail_node"
          /\ \A u \in Threads \ {t} : pc'[u] = pc[u] /\ draft'[u] = draft[u]
          /\ UNCHANGED <<sent, delivered, lost, nextRequestID, answered>>
      BY <1>1, <2>3 DEF StartFail
    <3>2. \A u \in Threads : /\ pc'[u] \in InCall <=> pc[u] \in InCall
                             /\ pc[u] \in InCall => draft'[u].n = draft[u].n
      BY <3>1
    <3> QED BY <3>1, <3>2, OpenFrame
  <2>4. CASE Cancel(t)
    BY <1>1, <2>4, OpenFrame DEF Cancel
  <2> QED BY <1>4, <2>1, <2>2, <2>3, <2>4 DEF Begin
<1>5. ASSUME NEW t \in Threads, CallPrepare(t) PROVE Promise!Next
  <2>1. /\ decoderMu = NoThread /\ pc[t] = "call_lock"
        /\ nextRequestID' = nextRequestID + 1
        /\ pc' = [pc EXCEPT ![t] = "call_node"]
        /\ draft' = [draft EXCEPT ![t] =
                       [type |-> "request", n |-> nextRequestID + 1,
                        execution |-> executionID, node |-> "empty"]]
        /\ UNCHANGED <<sent, delivered, lost, answered>>
    BY <1>5 DEF CallPrepare, LockDecoder, NewID, Goto, host, history, calls
  <2>2. \A u \in Threads : pc[u] \notin InCall
    BY <2>1, ThreadsAssumption DEF LockInv, HoldsDecoder
  <2>3. Open = {}
    BY <2>2 DEF Open
  <2>4. \A u \in Threads : pc'[u] \in InCall <=> u = t
    BY <1>1, <2>1, <2>2 DEF InCall
  <2>5. draft'[t].n = nextRequestID + 1
    BY <1>1, <2>1
  <2>6. Open' = {nextRequestID + 1}
    BY <2>4, <2>5 DEF Open
  <2>7. nextRequestID < MaxRequests
    BY <2>1 DEF Typed, CallBound
  <2>8. Promise!Issue
    BY <2>1, <2>3, <2>6, <2>7 DEF Promise!Issue, Promise!inputs, Open
  <2> QED BY <2>8 DEF Promise!Next
<1>6. ASSUME NEW t \in Threads,
             \/ CallRefused(t) \/ CallCancelled(t) \/ CallMismatch(t) \/ CallClosed(t)
             \/ CallUndecoded(t)
      PROVE  Promise!Next
  <2>1. /\ pc[t] \in InCall /\ pc' = [pc EXCEPT ![t] = "idle"]
        /\ UNCHANGED <<sent, delivered, nextRequestID, answered>>
        /\ CallUndecoded(t) \/ UNCHANGED lost
    BY <1>6 DEF CallRefused, CallCancelled, CallMismatch, CallClosed, CallUndecoded,
         ReadResponse, GiveUp, EndCall, CallReturns, Return, Goto, InCall, Waiting, host,
         session, history, calls
  <2>2. Open = {draft[t].n} /\ Open' = {}
    BY <2>1, OpenIsOne, CloseStep
  <2>3. CASE UNCHANGED lost
    <3>1. Promise!GiveUp
      BY <2>1, <2>2, <2>3 DEF Promise!GiveUp, Promise!inputs, Open
    <3> QED BY <3>1 DEF Promise!Next
  <2>4. CASE lost' # lost
    <3>1. ReadSpoiled /\ pc[t] \in HoldsDecoder \ Recording
      BY <2>1, <2>4 DEF CallUndecoded, HoldsDecoder, InCall, Waiting, Recording
    <3>2. \E n \in (delivered + 1 .. sent) \ lost : lost' = lost \cup {n}
      BY <2>4, <3>1, RefusedIsToCome
    <3>3. Promise!Refuse
      BY <2>1, <2>2, <3>2 DEF Promise!Refuse, Open
    <3> QED BY <3>3 DEF Promise!Next
  <2> QED BY <2>3, <2>4
<1>7. ASSUME NEW t \in Threads, CallAnswered(t) PROVE Promise!Next
  <2>1. /\ pc[t] \in InCall /\ pc' = [pc EXCEPT ![t] = "idle"]
        /\ answered' = answered \cup {draft[t].n}
        /\ UNCHANGED <<sent, delivered, lost, nextRequestID>>
    BY <1>7 DEF CallAnswered, ReadResponse, EndCall, CallReturns, Return, Goto, InCall,
         Waiting, host, session
  <2>2. Open = {draft[t].n} /\ Open' = {}
    BY <2>1, OpenIsOne, CloseStep
  <2>3. Promise!Answer
    BY <2>1, <2>2 DEF Promise!Answer, Promise!inputs, Open
  <2> QED BY <2>3 DEF Promise!Next
<1>8. ASSUME NEW t \in Threads, NextUndecoded(t) \/ DecodeUndecoded(t)
      PROVE  [Promise!Next]_(Promise!vars)
  <2>1. /\ pc[t] \in {"next_take", "decode_read"} /\ pc' = [pc EXCEPT ![t] = "idle"]
        /\ UNCHANGED <<sent, delivered, nextRequestID, answered, draft>> /\ ReadSpoiled
    BY <1>8 DEF NextUndecoded, DecodeUndecoded, Return, Goto, readOnly, host, calls
  <2>2. pc[t] \in HoldsDecoder \ InCall /\ pc[t] \in HoldsDecoder \ Recording
    BY <2>1 DEF HoldsDecoder, InCall, Waiting, Recording
  <2>3. Open = {} /\ Open' = Open
    BY <1>1, <2>1, <2>2, NoneOpen, OpenFrame DEF InCall, Waiting
  <2>4. CASE UNCHANGED lost
    BY <1>2, <2>1, <2>3, <2>4
  <2>5. CASE lost' # lost
    <3>1. \E n \in (delivered + 1 .. sent) \ lost : lost' = lost \cup {n}
      BY <2>1, <2>2, <2>5, RefusedIsToCome
    <3>2. Promise!Refuse
      BY <2>1, <2>3, <3>1 DEF Promise!Refuse, Open
    <3> QED BY <3>2 DEF Promise!Next
  <2> QED BY <2>4, <2>5
<1>9. CASE HostSend \/ HostSpoilInput
  <2>1. /\ sent < InputCount /\ sent' = sent + 1
        /\ UNCHANGED <<delivered, lost, nextRequestID, answered, pc, draft>>
    BY <1>9 DEF HostSend, HostSpoilInput, SendInput, hostLeaves, session, locals, history,
         calls
  <2>2. Open' = Open
    BY <2>1, OpenFrame
  <2>3. Promise!Produce
    BY <2>1, <2>2 DEF Promise!Produce, Promise!calls, Open
  <2> QED BY <2>3 DEF Promise!Next
<1>10. ASSUME \/ HostRead \/ HostClose \/ UNCHANGED vars \/ GuestEnded
             \/ \E id \in 1 .. MaxRequests : HostAnswer(id) \/ HostSpoilAnswer(id)
      PROVE  UNCHANGED <<sent, delivered, lost, nextRequestID, answered, Open>>
  <2>1. UNCHANGED <<sent, delivered, lost, nextRequestID, answered, pc, draft>>
    BY <1>10 DEF HostRead, HostClose, HostAnswer, HostSpoilAnswer, SendAnswer, GuestEnded,
         vars, hostLeaves, host, session, locals, history, calls
  <2> QED BY <2>1, OpenFrame
<1>11. ASSUME NEW t \in Threads, Step(t), delivered' = delivered
       PROVE  [Promise!Next]_(Promise!vars)
  <2>1. CASE NextEnd(t) \/ NextInput(t) \/ NextAssignNode(t) \/ DecodeMessage(t)
    <3>1. /\ pc[t] \in {"next_take", "next_assign_node", "decode_read"}
          /\ pc' = [pc EXCEPT ![t] = "idle"]
          /\ UNCHANGED <<sent, lost, nextRequestID, answered, draft>>
      BY <2>1 DEF NextEnd, NextInput, NextAssignNode, NextReturns, DecodeMessage,
           Return, Goto, readOnly, host, calls
    <3>2. Open' = Open
      BY <1>1, <3>1, OpenFrame DEF InCall, Waiting
    <3> QED BY <1>2, <1>11, <3>1, <3>2
  <2>2. CASE OtherStep(t)
    BY <1>2, <2>2, OtherStutters
  <2>3. CASE \/ CallRefused(t) \/ CallCancelled(t) \/ CallMismatch(t)
             \/ CallClosed(t) \/ CallUndecoded(t) \/ CallAnswered(t)
    BY <1>6, <1>7, <2>3
  <2>4. CASE NextUndecoded(t) \/ DecodeUndecoded(t)
    BY <1>8, <2>4
  <2> QED BY <1>11, <2>1, <2>2, <2>3, <2>4 DEF Step, OtherStep
<1>12. ASSUME NEW t \in Threads, Acquire(t) PROVE [Promise!Next]_(Promise!vars)
  BY <1>2, <1>5, <1>12, OtherStutters DEF Acquire
<1> QED BY <1>2, <1>3, <1>4, <1>9, <1>10, <1>11, <1>12 DEF Next, HostStep

(* Whatever its goroutines do, the guest sees a queue of the host's inputs   *)
(* and remote calls made one after the other.                                *)
THEOREM PromiseKept == HeaderSpec => KeepsPromise
<1>1. Init => Promise!Init
  BY DEF Init, Promise!Init, InCall, Waiting
<1>2. InputInv /\ CallInv /\ [Next]_vars => [Promise!Next]_(Promise!vars)
  BY PromiseStep
<1>3. HeaderSpec => Spec
  BY HeaderIsSpec
<1> QED BY <1>1, <1>2, <1>3, InputInvariant, CallInvariant, PTL
        DEF Spec, KeepsPromise, Promise!Spec

-----------------------------------------------------------------------------
(* The end comes last, whatever the guest decodes.                           *)

(* The terminal input is the last of the inputs in a queue.                  *)
EndsWell(q) ==
    \A i \in 1 .. Len(q) :
        q[i].type = "terminal" =>
            q[i].n = InputCount /\ \A j \in i + 1 .. Len(q) : ~IsInput(q[j])

HasEnd(q) == \E i \in 1 .. Len(q) : q[i].type = "terminal"
NoInputIn(q) == \A i \in 1 .. Len(q) : ~IsInput(q[i])

(* What a call has set aside comes before what the pipe holds, and the host  *)
(* sends nothing after the end.                                              *)
QueueInv ==
    /\ EndsWell(buffered) /\ EndsWell(inbound)
    /\ HasEnd(buffered) => NoInputIn(inbound)
    /\ HasEnd(buffered) \/ HasEnd(inbound) => sent = InputCount

(* The end has been returned: no input is left, on any way to the guest.     *)
Over ==
    /\ delivered = InputCount /\ sent = InputCount
    /\ buffered = <<>> /\ NoInputIn(inbound)
    /\ \A t \in Threads : pc[t] \notin Recording

EndInv == QueueInv /\ ((\E t \in Threads : result[t].kind = "eof") => Over)

LEMMA EndsWellTail ==
  ASSUME NEW q \in Seq(Inbound), q # <<>>, EndsWell(q)
  PROVE  /\ EndsWell(Tail(q))
         /\ HasEnd(Tail(q)) => HasEnd(q)
         /\ NoInputIn(q) => NoInputIn(Tail(q)) /\ ~IsInput(Head(q))
         /\ Head(q).type = "terminal" =>
               Head(q).n = InputCount /\ HasEnd(q) /\ NoInputIn(Tail(q))
<1>1. Len(q) \in Nat \ {0} /\ Len(Tail(q)) = Len(q) - 1 /\ Head(q) = q[1]
      /\ \A i \in 1 .. Len(Tail(q)) : Tail(q)[i] = q[i + 1]
  BY HeadTailProperties, EmptySeq
<1>2. 1 \in 1 .. Len(q)
  BY <1>1
<1>3. ASSUME NEW i \in 1 .. Len(Tail(q))
      PROVE  i + 1 \in 1 .. Len(q) /\ i + 1 \in 1 + 1 .. Len(q) /\ Tail(q)[i] = q[i + 1]
  BY <1>1
<1>4. ASSUME NEW i \in 1 .. Len(Tail(q)), Tail(q)[i].type = "terminal"
      PROVE  /\ Tail(q)[i].n = InputCount
             /\ \A j \in i + 1 .. Len(Tail(q)) : ~IsInput(Tail(q)[j])
  <2>1. q[i + 1].n = InputCount /\ \A j \in (i + 1) + 1 .. Len(q) : ~IsInput(q[j])
    BY <1>3, <1>4 DEF EndsWell
  <2>2. ASSUME NEW j \in i + 1 .. Len(Tail(q)) PROVE ~IsInput(Tail(q)[j])
    <3>1. j \in 1 .. Len(Tail(q)) /\ j + 1 \in (i + 1) + 1 .. Len(q)
      BY <1>1
    <3> QED BY <1>3, <2>1, <3>1
  <2> QED BY <1>3, <2>1, <2>2
<1>5. EndsWell(Tail(q))
  BY <1>4 DEF EndsWell
<1>6. HasEnd(Tail(q)) => HasEnd(q)
  BY <1>3 DEF HasEnd
<1>7. NoInputIn(q) => NoInputIn(Tail(q)) /\ ~IsInput(Head(q))
  BY <1>1, <1>2, <1>3 DEF NoInputIn
<1>8. Head(q).type = "terminal" => Head(q).n = InputCount /\ HasEnd(q) /\ NoInputIn(Tail(q))
  BY <1>1, <1>2, <1>3 DEF EndsWell, HasEnd, NoInputIn
<1> QED BY <1>5, <1>6, <1>7, <1>8

LEMMA EndsWellAppend ==
  ASSUME NEW q \in Seq(Inbound), NEW m \in Inbound, EndsWell(q),
         m.type = "terminal" => m.n = InputCount,
         IsInput(m) => ~HasEnd(q)
  PROVE  /\ EndsWell(Append(q, m))
         /\ HasEnd(Append(q, m)) => HasEnd(q) \/ m.type = "terminal"
         /\ NoInputIn(q) /\ ~IsInput(m) => NoInputIn(Append(q, m))
<1>1. /\ Len(Append(q, m)) = Len(q) + 1 /\ Len(q) \in Nat
      /\ \A i \in 1 .. Len(q) : Append(q, m)[i] = q[i]
      /\ Append(q, m)[Len(q) + 1] = m
  BY AppendProperties, LenProperties
<1>2. \A i \in 1 .. Len(Append(q, m)) : i \in 1 .. Len(q) \/ i = Len(q) + 1
  BY <1>1
<1>3. ASSUME NEW i \in 1 .. Len(Append(q, m)), Append(q, m)[i].type = "terminal",
             NEW j \in i + 1 .. Len(Append(q, m))
      PROVE  ~IsInput(Append(q, m)[j])
  <2>1. i \in 1 .. Len(q) /\ q[i].type = "terminal" /\ HasEnd(q)
    BY <1>1, <1>3 DEF HasEnd
  <2>2. CASE j = Len(q) + 1
    BY <1>1, <2>1, <2>2
  <2>3. CASE j # Len(q) + 1
    <3>1. j \in i + 1 .. Len(q) /\ j \in 1 .. Len(q)
      BY <1>1, <2>1, <2>3
    <3> QED BY <1>1, <2>1, <3>1 DEF EndsWell
  <2> QED BY <2>2, <2>3
<1>4. EndsWell(Append(q, m))
  BY <1>1, <1>2, <1>3 DEF EndsWell
<1> QED BY <1>1, <1>2, <1>4 DEF HasEnd, NoInputIn

(* A queue that holds nothing but inputs ends with the terminal one.         *)
LEMMA EndOfBuffer ==
  ASSUME NEW q \in Seq(Inbound), q # <<>>, NoInputIn(Tail(q)),
         \A i \in 1 .. Len(q) : IsInput(q[i])
  PROVE  Tail(q) = <<>>
<1>1. Len(q) \in Nat \ {0} /\ Len(Tail(q)) = Len(q) - 1 /\ Tail(q) \in Seq(Inbound)
      /\ \A i \in 1 .. Len(Tail(q)) : Tail(q)[i] = q[i + 1]
  BY HeadTailProperties, EmptySeq
<1>2. SUFFICES ASSUME Len(Tail(q)) # 0 PROVE FALSE
  BY <1>1, EmptySeq
<1>3. 1 \in 1 .. Len(Tail(q)) /\ 1 + 1 \in 1 .. Len(q)
  BY <1>1, <1>2
<1> QED BY <1>1, <1>3 DEF NoInputIn

(* What nextInput takes.                                                     *)
LEMMA EndTaken ==
  ASSUME Typed, QueueInv, TakeMessage, sent' = sent
  PROVE  /\ QueueInv'
         /\ NoInputIn(inbound) => NoInputIn(inbound')
         /\ IsTerminal(HeadOfInput) =>
               /\ HeadOfInput.n = InputCount /\ sent = InputCount
               /\ buffered' = <<>> /\ NoInputIn(inbound')
<1>1. /\ buffered \in Seq(Inbound) /\ inbound \in Seq(Inbound)
      /\ \A i \in 1 .. Len(buffered) : IsInput(buffered[i])
  BY QueuesTyped DEF Typed
<1>2. CASE buffered # <<>>
  <2>1. buffered' = Tail(buffered) /\ inbound' = inbound /\ HeadOfInput = Head(buffered)
    BY <1>2 DEF TakeMessage, HeadOfInput
  <2>2. Head(buffered).type = "terminal" => Tail(buffered) = <<>>
    BY <1>1, <1>2, EndsWellTail, EndOfBuffer DEF QueueInv
  <2> QED BY <1>1, <1>2, <2>1, <2>2, EndsWellTail DEF QueueInv, IsTerminal
<1>3. CASE buffered = <<>>
  <2>1. inbound # <<>> /\ inbound' = Tail(inbound) /\ buffered' = buffered
        /\ HeadOfInput = Head(inbound)
    BY <1>3 DEF TakeMessage, HeadOfInput
  <2> QED BY <1>1, <1>3, <2>1, EndsWellTail DEF QueueInv, IsTerminal
<1> QED BY <1>2, <1>3

(* Steps inside an operation that leave both queues alone.                   *)
QuietStep(t) ==
    \/ NextClosed(t) \/ DecodeClosed(t) \/ IdentifyExecution(t) \/ IdentifyNode(t)
    \/ CallNode(t) \/ CallWrite(t) \/ CallRefused(t) \/ CallCancelled(t) \/ CallRead(t)
    \/ CallClosed(t) \/ FailNode(t) \/ SendWrite(t) \/ SendRefused(t)

(* Steps inside an operation that take a message from the pipe and leave     *)
(* buffered alone.                                                           *)
PipeStep(t) ==
    \/ DecodeMessage(t) \/ CallAnswered(t) \/ CallMismatch(t)
    \/ NextUndecoded(t) \/ DecodeUndecoded(t) \/ CallUndecoded(t)

LEMMA PipeStepTakes ==
  ASSUME NEW t \in Threads, PipeStep(t)
  PROVE  inbound # <<>> /\ inbound' = Tail(inbound) /\ UNCHANGED <<buffered, sent>>
<1>1. CASE DecodeMessage(t) \/ NextUndecoded(t) \/ DecodeUndecoded(t)
  BY <1>1 DEF DecodeMessage, NextUndecoded, DecodeUndecoded, ReadSpoiled, readOnly, host
<1>2. CASE CallAnswered(t) \/ CallMismatch(t) \/ CallUndecoded(t)
  BY <1>2 DEF CallAnswered, CallMismatch, CallUndecoded, ReadResponse, ReadSpoiled, GiveUp,
     EndCall, session, host
<1> QED BY <1>1, <1>2 DEF PipeStep

LEMMA QuietStepFrame ==
  ASSUME NEW t \in Threads, QuietStep(t)
  PROVE  /\ UNCHANGED <<delivered, sent, buffered, inbound>>
         /\ \E location \in {"idle", "identify_assign_node", "call_send", "call_check",
                             "call_read", "send_lock"} : Goto(t, location)
<1> USE DEF Return, CallReturns, session, pipes, readOnly, host, history
<1>1. CASE NextClosed(t) \/ DecodeClosed(t) \/ IdentifyExecution(t) \/ IdentifyNode(t)
  BY <1>1 DEF NextClosed, DecodeClosed, IdentifyExecution, IdentifyNode
<1>2. CASE CallNode(t) \/ CallWrite(t) \/ CallRefused(t) \/ CallRead(t)
  BY <1>2 DEF CallNode, CallWrite, Write, CallRefused, CallRead
<1>3. CASE CallCancelled(t) \/ CallClosed(t)
  BY <1>3 DEF CallCancelled, CallClosed, GiveUp, EndCall
<1>4. CASE FailNode(t) \/ SendWrite(t) \/ SendRefused(t)
  BY <1>4 DEF FailNode, Write, SendWrite, SendReturns, SendRefused
<1> QED BY <1>1, <1>2, <1>3, <1>4 DEF QuietStep

LEMMA QueuesEnd ==
  ASSUME Typed, QueueInv, [Next]_vars PROVE QueueInv'
<1>1. buffered \in Seq(Inbound) /\ inbound \in Seq(Inbound)
  BY QueuesTyped DEF Typed
<1>2. CASE UNCHANGED <<buffered, inbound, sent>>
  BY <1>2 DEF QueueInv
<1>3. ASSUME NEW t \in Threads,
             NextUnsolicited(t) \/ NextEnd(t) \/ NextInput(t) \/ NextInitialize(t)
      PROVE  QueueInv'
  <2>1. TakeMessage /\ sent' = sent
    BY <1>3 DEF NextUnsolicited, NextEnd, NextInput, NextInitialize, NextReturns, readOnly, host
  <2> QED BY <2>1, EndTaken
<1>4. ASSUME NEW t \in Threads, PipeStep(t) PROVE QueueInv'
  <2>1. inbound # <<>> /\ inbound' = Tail(inbound) /\ UNCHANGED <<buffered, sent>>
    BY <1>4, PipeStepTakes
  <2> QED BY <1>1, <2>1, EndsWellTail DEF QueueInv
<1>5. ASSUME NEW t \in Threads, CallBuffer(t) PROVE QueueInv'
  <2> DEFINE m == Head(inbound)
  <2>1. inbound # <<>> /\ IsInput(m) /\ inbound' = Tail(inbound)
        /\ buffered' = Append(buffered, m) /\ sent' = sent
    BY <1>5 DEF CallBuffer, SetAside, host
  <2>2. m \in Inbound
    BY <1>1, <2>1, HeadTailProperties
  <2>3. ~HasEnd(buffered)
    BY <1>1, <2>1, EndsWellTail DEF QueueInv
  <2> HIDE DEF m
  <2>4. /\ EndsWell(Tail(inbound)) /\ (HasEnd(Tail(inbound)) => HasEnd(inbound))
        /\ m.type = "terminal" =>
              m.n = InputCount /\ HasEnd(inbound) /\ NoInputIn(Tail(inbound))
    BY <1>1, <2>1, EndsWellTail DEF QueueInv, m
  <2>5. /\ EndsWell(Append(buffered, m))
        /\ HasEnd(Append(buffered, m)) => m.type = "terminal"
    BY <1>1, <2>2, <2>3, <2>4, EndsWellAppend DEF QueueInv
  <2> QED BY <2>1, <2>4, <2>5 DEF QueueInv
<1>6. ASSUME NEW m \in Inbound, m.type = "terminal" => m.n = InputCount /\ sent + 1 = InputCount,
             sent # InputCount, sent' = sent + 1, inbound' = Append(inbound, m),
             buffered' = buffered
      PROVE  QueueInv'
  <2>1. ~HasEnd(buffered) /\ ~HasEnd(inbound)
    BY <1>6 DEF QueueInv
  <2>2. EndsWell(Append(inbound, m)) /\ (HasEnd(Append(inbound, m)) => m.type = "terminal")
    BY <1>1, <1>6, <2>1, EndsWellAppend DEF QueueInv
  <2> QED BY <1>6, <2>1, <2>2 DEF QueueInv
<1>7. CASE HostSend \/ HostSpoilInput
  <2> DEFINE m == IF HostSend THEN InputMessage(sent + 1) ELSE SpoiledInput(sent + 1)
  <2>1. /\ sent' = sent + 1 /\ inbound' = Append(inbound, m) /\ buffered' = buffered
        /\ sent # InputCount
    BY <1>7 DEF HostSend, HostSpoilInput, SendInput, hostLeaves, session, Typed, TypeOK
  <2>2. /\ m \in Inbound
        /\ m.type = "terminal" => m.n = InputCount /\ sent + 1 = InputCount
    BY DEF InputMessage, SpoiledInput, Inbound, InputTypes, SpoiledTypes, Typed, TypeOK
  <2> HIDE DEF m
  <2> QED BY <1>6, <2>1, <2>2
<1>8. ASSUME NEW id \in 1 .. MaxRequests, HostAnswer(id) \/ HostSpoilAnswer(id)
      PROVE  QueueInv'
  <2> DEFINE m == IF HostAnswer(id) THEN Response(id) ELSE SpoiledAnswer(id)
  <2>1. inbound' = Append(inbound, m) /\ UNCHANGED <<buffered, sent>>
    BY <1>8 DEF HostAnswer, HostSpoilAnswer, SendAnswer, hostLeaves, session
  <2>2. m \in Inbound /\ m.type # "terminal" /\ ~IsInput(m)
    BY MaxRequestsAssumption DEF Response, SpoiledAnswer, Inbound, IsInput, InputTypes,
       SpoiledTypes
  <2> HIDE DEF m
  <2>3. /\ EndsWell(Append(inbound, m)) /\ (HasEnd(Append(inbound, m)) => HasEnd(inbound))
        /\ NoInputIn(inbound) => NoInputIn(Append(inbound, m))
    BY <1>1, <2>2, EndsWellAppend DEF QueueInv
  <2> QED BY <2>1, <2>3 DEF QueueInv
<1>9. CASE HostRead \/ HostClose \/ GuestEnded \/ UNCHANGED vars
  BY <1>2, <1>9 DEF HostRead, HostClose, GuestEnded, hostLeaves, session, vars, pipes, host
<1>10. ASSUME NEW t \in Threads, Begin(t) \/ Cancel(t) \/ Acquire(t)
       PROVE  UNCHANGED <<buffered, inbound, sent>>
  BY <1>10 DEF Begin, Start, StartEmit, StartFail, Cancel, Acquire, EnterReader,
              CallUninitialized, CallPrepare, EnterWriter, session, pipes, host
<1>11. ASSUME NEW t \in Threads, QuietStep(t) \/ NextAssignExecution(t) \/ NextAssignNode(t)
       PROVE  UNCHANGED <<buffered, inbound, sent>>
  BY <1>11, QuietStepFrame DEF NextAssignExecution, NextAssignNode, readOnly, host
<1> QED BY <1>2, <1>3, <1>4, <1>5, <1>7, <1>8, <1>9, <1>10, <1>11
        DEF Next, Step, HostStep, QuietStep, PipeStep

(* Nothing comes after the end: no step hands over, sets aside or sends one  *)
(* more input.                                                               *)
LEMMA OverStays ==
  ASSUME Typed, QueueInv, Over, [Next]_vars PROVE Over'
<1>1. inbound \in Seq(Inbound)
  BY QueuesTyped DEF Typed
<1>2. inbound # <<>> =>
        ~IsInput(Head(inbound)) /\ NoInputIn(Tail(inbound))
  BY <1>1, EndsWellTail DEF Over, QueueInv
<1>3. TakeMessage => ~IsInput(HeadOfInput)
  BY <1>2 DEF Over, TakeMessage, HeadOfInput
<1>4. pc \in [Threads -> Locations]
  BY DEF Typed, TypeOK
<1>5. ASSUME NEW t \in Threads, Goto(t, "idle") PROVE \A u \in Threads : pc'[u] \notin Recording
  BY <1>4, <1>5 DEF Over, Goto, Recording
<1>6. ASSUME NEW t \in Threads, Begin(t) \/ Cancel(t) \/ Acquire(t) PROVE Over'
  <2>1. UNCHANGED <<delivered, sent, buffered, inbound>>
    BY <1>6 DEF Begin, Start, StartEmit, StartFail, Cancel, Acquire, EnterReader,
                CallUninitialized, CallPrepare, EnterWriter, session, pipes, host, history
  <2>2. \A u \in Threads : pc'[u] \notin Recording
    <3>1. CASE Begin(t) \/ Cancel(t)
      BY <1>4, <3>1 DEF Over, Begin, Start, EntryPoint, Calls, StartEmit, StartFail, Goto,
                        Cancel, Recording
    <3>2. CASE Acquire(t)
      BY <1>4, <3>2 DEF Over, Acquire, EnterReader, AfterLock, CallUninitialized, CallPrepare,
                        CallReturns, EnterWriter, Return, Goto, Recording
    <3> QED BY <1>6, <3>1, <3>2
  <2> QED BY <2>1, <2>2 DEF Over
<1>7. ASSUME NEW t \in Threads, NextUnsolicited(t) PROVE Over'
  BY <1>2, <1>5, <1>7 DEF NextUnsolicited, NextReturns, Return, TakeMessage, Over, readOnly, host
<1>8. ASSUME NEW t \in Threads,
             \/ NextEnd(t) \/ NextInput(t) \/ NextInitialize(t) \/ NextAssignExecution(t)
             \/ NextAssignNode(t) \/ CallBuffer(t)
      PROVE  FALSE
  BY <1>2, <1>3, <1>8 DEF NextEnd, NextInput, NextReturns, NextInitialize,
     NextAssignExecution, NextAssignNode, CallBuffer, IsInput, InputTypes, Over, Recording
<1>9. ASSUME NEW t \in Threads, PipeStep(t) PROVE Over'
  <2>1. inbound # <<>> /\ inbound' = Tail(inbound) /\ UNCHANGED <<buffered, sent>>
    BY <1>9, PipeStepTakes
  <2>2. delivered' = delivered
    BY <1>2, <2>1, <1>9 DEF PipeStep, DecodeMessage, NextUndecoded, DecodeUndecoded,
       CallAnswered, CallMismatch, CallUndecoded, GiveUp, EndCall
  <2>3. Goto(t, "idle")
    BY <1>9 DEF PipeStep, DecodeMessage, NextUndecoded, DecodeUndecoded,
       CallAnswered, CallMismatch, CallUndecoded, GiveUp, EndCall, CallReturns, Return
  <2> QED BY <1>2, <1>5, <2>1, <2>2, <2>3 DEF Over
<1>10. ASSUME NEW t \in Threads, QuietStep(t) PROVE Over'
  <2>1. \A u \in Threads : pc'[u] \notin Recording
    BY <1>4, <1>10, QuietStepFrame DEF Over, Goto, Recording
  <2> QED BY <1>10, <2>1, QuietStepFrame DEF Over
<1>11. ~HostSend /\ ~HostSpoilInput
  BY DEF HostSend, HostSpoilInput, SendInput, Over, Typed, TypeOK
<1>12. ASSUME NEW id \in 1 .. MaxRequests, NEW m \in {Response(id), SpoiledAnswer(id)},
              SendAnswer(id, m)
       PROVE  Over'
  <2>1. m \in Inbound /\ ~IsInput(m) /\ m.type # "terminal"
    BY <1>12, MaxRequestsAssumption DEF Response, SpoiledAnswer, Inbound, IsInput, InputTypes,
       SpoiledTypes
  <2>2. NoInputIn(Append(inbound, m))
    BY <1>1, <2>1, EndsWellAppend DEF QueueInv, Over
  <2> QED BY <1>12, <2>2 DEF SendAnswer, hostLeaves, session, history, Over
<1>13. CASE HostRead \/ HostClose \/ GuestEnded \/ UNCHANGED vars
  BY <1>13 DEF HostRead, HostClose, GuestEnded, hostLeaves, session, history, vars, pipes, host,
               Over
<1>14. CASE HostStep
  BY <1>11, <1>12, <1>13, <1>14 DEF HostStep, HostAnswer, HostSpoilAnswer
<1> QED BY <1>6, <1>7, <1>8, <1>9, <1>10, <1>13, <1>14 DEF Next, Step, QuietStep, PipeStep

(* Returning the end is the step that leaves nothing.                        *)
LEMMA EndIsOver ==
  ASSUME Typed, LockInv, QueueInv, NEW t \in Threads, NextEnd(t)
  PROVE  Over'
<1>1. /\ TakeMessage /\ IsTerminal(HeadOfInput) /\ delivered' = HeadOfInput.n
      /\ pc[t] = "next_take" /\ sent' = sent /\ Goto(t, "idle")
  BY DEF NextEnd, NextReturns, Return, readOnly, host
<1>2. \A u \in Threads : pc'[u] \notin Recording
  <2>1. \A u \in Threads : pc[u] \in HoldsDecoder => u = t
    BY <1>1 DEF LockInv, HoldsDecoder
  <2> QED BY <1>1, <2>1 DEF Goto, HoldsDecoder, Recording, Typed, TypeOK
<1> QED BY <1>1, <1>2, EndTaken DEF Over

LEMMA NewEnd ==
  ASSUME Typed, [Next]_vars, NEW t \in Threads, result'[t] # result[t],
         result'[t].kind = "eof"
  PROVE  NextEnd(t)
<1>0. result \in [Threads -> Result]
  BY DEF Typed, TypeOK
<1>1. ASSUME NEW kind \in Kinds \ {"eof"}, NEW want, NEW got, NEW u \in Threads,
             Return(u, Returned(kind, want, got))
      PROVE  FALSE
  <2>1. result'[t] = IF t = u THEN Returned(kind, want, got) ELSE result[t]
    BY <1>0, <1>1 DEF Return
  <2> QED BY <2>1 DEF Returned
<1>2. ASSUME NEW u \in Threads, NextEnd(u)
      PROVE  u = t
  BY <1>0, <1>2 DEF NextEnd, NextReturns, Return
<1>3. ASSUME NEW u \in Threads,
             \/ NextUnsolicited(u) \/ NextInput(u) \/ NextAssignNode(u) \/ NextClosed(u)
             \/ NextUndecoded(u) \/ DecodeMessage(u) \/ DecodeClosed(u) \/ DecodeUndecoded(u)
             \/ IdentifyNode(u)
      PROVE  FALSE
  BY <1>1, <1>3 DEF NextUnsolicited, NextInput, NextReturns, NextAssignNode, NextClosed,
     NextUndecoded, DecodeMessage, DecodeClosed, DecodeUndecoded, IdentifyNode, Kinds
<1>4. ASSUME NEW u \in Threads,
             \/ CallUninitialized(u) \/ CallRefused(u) \/ CallCancelled(u) \/ CallAnswered(u)
             \/ CallMismatch(u) \/ CallClosed(u) \/ CallUndecoded(u) \/ SendWrite(u)
             \/ SendRefused(u)
      PROVE  FALSE
  BY <1>1, <1>4 DEF CallUninitialized, CallRefused, CallCancelled, CallAnswered, CallMismatch,
                  CallClosed, CallUndecoded, GiveUp, EndCall, CallReturns, SendWrite,
                  SendRefused, SendReturns, Kinds
<1>5. ASSUME NEW u \in Threads,
             \/ Begin(u) \/ Cancel(u) \/ EnterReader(u) \/ CallPrepare(u) \/ EnterWriter(u)
             \/ NextInitialize(u) \/ NextAssignExecution(u) \/ IdentifyExecution(u)
             \/ CallNode(u) \/ CallWrite(u) \/ CallRead(u) \/ CallBuffer(u) \/ FailNode(u)
      PROVE  FALSE
  BY <1>5 DEF Begin, Start, StartEmit, StartFail, Cancel, EnterReader, CallPrepare,
     EnterWriter, NextInitialize, NextAssignExecution, IdentifyExecution, CallNode,
     CallWrite, CallRead, CallBuffer, FailNode, locals
<1>6. CASE HostStep \/ GuestEnded \/ UNCHANGED vars
  BY <1>6, HostFrame DEF GuestEnded, locals, vars
<1> QED BY <1>2, <1>3, <1>4, <1>5, <1>6 DEF Next, Acquire, Step

(* Next reports io.EOF only for the terminal input_end, after every input    *)
(* before it, those that calls set aside included.                           *)
THEOREM EndComesLast == Spec => []EndIsLast
<1>1. EndInv => EndIsLast
  BY DEF EndInv, Over, EndIsLast
<1>2. Init => EndInv
  <2>1. Len(<<>>) = 0
    BY EmptySeq
  <2> QED BY <2>1 DEF Init, EndInv, QueueInv, EndsWell, HasEnd, Returned
<1>3. Typed /\ LockInv /\ EndInv /\ [Next]_vars => EndInv'
  <2> SUFFICES ASSUME Typed, LockInv, QueueInv, [Next]_vars,
                      (\E t \in Threads : result[t].kind = "eof") => Over,
                      NEW t \in Threads, result'[t].kind = "eof"
               PROVE  Over'
    BY QueuesEnd DEF EndInv
  <2>1. CASE result'[t] = result[t]
    BY <2>1, OverStays
  <2>2. CASE result'[t] # result[t]
    BY <2>2, NewEnd, EndIsOver
  <2> QED BY <2>1, <2>2
<1> QED BY <1>1, <1>2, <1>3, TypedInvariant, LocksHeld, PTL DEF Spec

-----------------------------------------------------------------------------
(* The identity in requests.                                                 *)

Origins == {"initialize", "header"}
Halfway == {"next_assign_node", "identify_assign_node"}

(* The two strings name the same message unless a goroutine is between the   *)
(* two assignments, with decoderMu in its hand.                              *)
StringsInv ==
    /\ executionID \in Origins \cup {"empty"}
    /\ (\A t \in Threads : pc[t] \notin Halfway) => nodeID = executionID
    /\ \A t \in Threads :
        /\ pc[t] = "next_assign_node" => executionID = "initialize"
        /\ pc[t] = "identify_assign_node" => executionID = "header"

(* A request that has the one string still has to get the other.             *)
RequestWhole(t) ==
    draft[t].type = "request" =>
        /\ draft[t].execution \in Origins
        /\ pc[t] = "call_node" => draft[t].execution = executionID
        /\ pc[t] # "call_node" => draft[t].node = draft[t].execution

IdentityInv ==
    /\ StringsInv
    /\ \A t \in Threads : RequestWhole(t)
    /\ RequestIdentityWhole

(* Whoever else is inside decoderMu, nobody is between the two assignments.  *)
LEMMA StringsAgree ==
  ASSUME LockInv, StringsInv,
         decoderMu = NoThread \/ \E t \in Threads : pc[t] \in HoldsDecoder \ Halfway
  PROVE  nodeID = executionID /\ \A u \in Threads : pc[u] \notin Halfway
<1>1. ASSUME NEW u \in Threads, pc[u] \in Halfway PROVE FALSE
  <2>1. decoderMu = u /\ decoderMu # NoThread
    BY <1>1, ThreadsAssumption DEF Halfway, LockInv, HoldsDecoder, Recording, Identifying
  <2>2. PICK t \in Threads : pc[t] \in HoldsDecoder \ Halfway
    BY <2>1
  <2>3. decoderMu = t
    BY <2>2 DEF LockInv
  <2> QED BY <1>1, <2>1, <2>2, <2>3
<1> QED BY <1>1 DEF StringsInv

(* Steps that assign neither string.                                         *)
Assigns(t) ==
    \/ NextAssignExecution(t) \/ NextAssignNode(t) \/ IdentifyExecution(t) \/ IdentifyNode(t)

LEMMA StringsFrame ==
  ASSUME Typed, NEW t \in Threads, Begin(t) \/ Cancel(t) \/ Acquire(t) \/ Step(t), ~Assigns(t)
  PROVE  /\ UNCHANGED <<executionID, nodeID>>
         /\ \A u \in Threads : pc'[u] # pc[u] => pc[u] \notin Halfway /\ pc'[u] \notin Halfway
<1>1. pc \in [Threads -> Locations]
  BY DEF Typed, TypeOK
<1>2. ASSUME NEW from \in Locations \ Halfway, NEW to \in Locations \ Halfway,
             pc[t] = from, Goto(t, to)
      PROVE  \A u \in Threads : pc'[u] # pc[u] => pc[u] \notin Halfway /\ pc'[u] \notin Halfway
  BY <1>1, <1>2 DEF Goto
<1> USE DEF session, identity, readOnly, Return, CallReturns
<1>3. UNCHANGED <<executionID, nodeID>>
  <2>1. CASE Begin(t) \/ Cancel(t) \/ Acquire(t)
    BY <2>1 DEF Begin, Start, StartEmit, StartFail, Cancel, Acquire, EnterReader,
       CallUninitialized, CallPrepare, EnterWriter
  <2>2. CASE Step(t)
    BY <2>2 DEF Step, Assigns, NextUnsolicited, NextEnd, NextInput, NextReturns,
       NextInitialize, NextClosed, NextUndecoded, DecodeMessage, DecodeClosed,
       DecodeUndecoded, CallNode, CallWrite, CallRefused, CallCancelled, CallRead, CallBuffer,
       CallAnswered, CallMismatch, CallClosed, CallUndecoded, GiveUp, EndCall, FailNode,
       SendWrite, SendRefused, SendReturns
  <2> QED BY <2>1, <2>2
<1> USE DEF Locations, Halfway, HoldsDecoder, HoldsEncoder, Recording, Identifying, InCall,
            Waiting
<1>4. CASE Begin(t)
  <2>1. ASSUME NEW operation \in Calls, Start(t, operation)
        PROVE  pc[t] = "idle" /\ \E to \in Locations \ Halfway : Goto(t, to)
    BY <2>1 DEF Start, EntryPoint, Calls
  <2> QED BY <1>2, <1>3, <1>4, <2>1 DEF Begin, StartEmit, StartFail
<1>5. CASE Cancel(t)
  BY <1>3, <1>5 DEF Cancel
<1>6. CASE Acquire(t)
  <2>1. CASE EnterReader(t)
    <3>1. /\ pc[t] \in {"next_lock", "decode_lock", "identify_lock"}
          /\ \E to \in {"next_take", "decode_read", "identify_assign"} : Goto(t, to)
      BY <2>1 DEF EnterReader, AfterLock
    <3> QED BY <1>2, <1>3, <3>1
  <2>2. CASE EnterWriter(t)
    <3>1. /\ pc[t] \in {"call_send", "send_lock"}
          /\ \E to \in {"call_write", "send_write"} : Goto(t, to)
      BY <2>2 DEF EnterWriter
    <3> QED BY <1>2, <1>3, <3>1
  <2>3. CASE CallUninitialized(t) \/ CallPrepare(t)
    BY <1>2, <1>3, <2>3 DEF CallUninitialized, CallPrepare
  <2> QED BY <1>6, <2>1, <2>2, <2>3 DEF Acquire
<1>7. CASE Step(t)
  <2>1. CASE \/ NextUnsolicited(t) \/ NextEnd(t) \/ NextInput(t) \/ NextInitialize(t)
             \/ NextClosed(t) \/ NextUndecoded(t)
    BY <1>2, <1>3, <2>1 DEF NextUnsolicited, NextEnd, NextInput, NextReturns, NextInitialize,
       NextClosed, NextUndecoded
  <2>2. CASE DecodeMessage(t) \/ DecodeClosed(t) \/ DecodeUndecoded(t)
    BY <1>2, <1>3, <2>2 DEF DecodeMessage, DecodeClosed, DecodeUndecoded
  <2>3. CASE CallNode(t) \/ CallWrite(t) \/ CallRefused(t) \/ CallRead(t) \/ CallBuffer(t)
    BY <1>2, <1>3, <2>3 DEF CallNode, CallWrite, CallRefused, CallRead, CallBuffer
  <2>4. CASE \/ CallCancelled(t) \/ CallAnswered(t) \/ CallMismatch(t) \/ CallClosed(t)
             \/ CallUndecoded(t)
    BY <1>2, <1>3, <2>4 DEF CallCancelled, CallAnswered, CallMismatch, CallClosed,
       CallUndecoded, ReadResponse, GiveUp, EndCall
  <2>5. CASE FailNode(t) \/ SendWrite(t) \/ SendRefused(t)
    BY <1>2, <1>3, <2>5 DEF FailNode, SendWrite, SendRefused, SendReturns
  <2> QED BY <1>7, <2>1, <2>2, <2>3, <2>4, <2>5 DEF Step, Assigns
<1> QED BY <1>3, <1>4, <1>5, <1>6, <1>7

LEMMA StringsStep ==
  ASSUME Typed, LockInv, StringsInv, [Next]_vars PROVE StringsInv'
<1>1. pc \in [Threads -> Locations]
  BY DEF Typed, TypeOK
<1>2. ASSUME NEW t \in Threads, pc[t] \in HoldsDecoder
      PROVE  \A u \in Threads \ {t} : pc[u] \notin Halfway
  BY <1>2 DEF LockInv, HoldsDecoder, Halfway, Recording, Identifying
<1>3. ASSUME NEW t \in Threads, Assigns(t) PROVE StringsInv'
  <2>1. pc[t] \in Recording \cup Identifying /\ pc[t] \in HoldsDecoder
    BY <1>3 DEF Assigns, NextAssignExecution, NextAssignNode, IdentifyExecution,
       IdentifyNode, Recording, Identifying, HoldsDecoder
  <2>2. \A u \in Threads \ {t} : pc[u] \notin Halfway
    BY <1>2, <2>1
  <2>3. CASE NextAssignExecution(t)
    <3>1. executionID' = "initialize" /\ pc' = [pc EXCEPT ![t] = "next_assign_node"]
      BY <2>3 DEF NextAssignExecution, Goto
    <3> QED BY <1>1, <2>2, <3>1 DEF StringsInv, Halfway, Origins
  <2>4. CASE IdentifyExecution(t)
    <3>1. executionID' = "header" /\ pc' = [pc EXCEPT ![t] = "identify_assign_node"]
      BY <2>4 DEF IdentifyExecution, Goto
    <3> QED BY <1>1, <2>2, <3>1 DEF StringsInv, Halfway, Origins
  <2>5. CASE NextAssignNode(t)
    <3>1. /\ pc[t] = "next_assign_node" /\ nodeID' = "initialize" /\ UNCHANGED executionID
          /\ pc' = [pc EXCEPT ![t] = "idle"]
      BY <2>5 DEF NextAssignNode, Return, Goto
    <3> QED BY <1>1, <2>2, <3>1 DEF StringsInv, Halfway, Origins
  <2>6. CASE IdentifyNode(t)
    <3>1. /\ pc[t] = "identify_assign_node" /\ nodeID' = "header" /\ UNCHANGED executionID
          /\ pc' = [pc EXCEPT ![t] = "idle"]
      BY <2>6 DEF IdentifyNode, Return, Goto
    <3> QED BY <1>1, <2>2, <3>1 DEF StringsInv, Halfway, Origins
  <2> QED BY <1>3, <2>3, <2>4, <2>5, <2>6 DEF Assigns
<1>4. ASSUME UNCHANGED <<executionID, nodeID>>,
             \A u \in Threads : pc'[u] # pc[u] => pc[u] \notin Halfway /\ pc'[u] \notin Halfway
      PROVE  StringsInv'
  <2>1. \A u \in Threads : /\ pc'[u] \in Halfway <=> pc[u] \in Halfway
                           /\ pc'[u] \in Halfway => pc'[u] = pc[u]
    BY <1>4
  <2> QED BY <1>4, <2>1 DEF StringsInv, Halfway
<1>5. CASE HostStep \/ GuestEnded \/ UNCHANGED vars
  <2>1. UNCHANGED <<executionID, nodeID, pc>>
    BY <1>5, HostFrame DEF GuestEnded, vars, session, identity
  <2> QED BY <1>4, <2>1
<1>6. ASSUME NEW t \in Threads, Begin(t) \/ Cancel(t) \/ Acquire(t) \/ Step(t), ~Assigns(t)
      PROVE  StringsInv'
  BY <1>4, <1>6, StringsFrame
<1> QED BY <1>3, <1>5, <1>6 DEF Next

(* A goroutine's step leaves the others' drafts alone, and the identity too  *)
(* while another prepares a request.                                         *)
LEMMA OthersFrame ==
  ASSUME Typed, LockInv, NEW t \in Threads, Begin(t) \/ Cancel(t) \/ Acquire(t) \/ Step(t),
         NEW u \in Threads \ {t}, RequestWhole(u)
  PROVE  RequestWhole(u)'
<1>1. /\ pc \in [Threads -> Locations] /\ draft \in [Threads -> Outbound]
  BY DEF Typed, TypeOK
<1> USE DEF locals, Return, CallReturns
<1>2. pc'[u] = pc[u] /\ draft'[u] = draft[u]
  <2>1. CASE Begin(t) \/ Cancel(t) \/ Acquire(t)
    BY <1>1, <2>1 DEF Begin, Start, StartEmit, StartFail, Cancel, Acquire, EnterReader,
       CallUninitialized, CallPrepare, EnterWriter, Goto
  <2>2. CASE Step(t)
    <3>1. /\ \E location : Goto(t, location)
          /\ draft' = draft \/ \E m : draft' = [draft EXCEPT ![t] = m]
      BY <2>2 DEF Step, NextUnsolicited, NextEnd, NextInput, NextReturns,
         NextInitialize, NextAssignExecution, NextAssignNode, NextClosed, NextUndecoded,
         DecodeMessage, DecodeClosed, DecodeUndecoded, IdentifyExecution, IdentifyNode,
         CallNode, CallWrite, CallRefused, CallCancelled, CallRead, CallBuffer,
         CallAnswered, CallMismatch, CallClosed, CallUndecoded, GiveUp, EndCall, FailNode,
         SendWrite, SendRefused, SendReturns
    <3> QED BY <1>1, <3>1 DEF Goto
  <2> QED BY <2>1, <2>2
<1>3. pc[u] = "call_node" => executionID' = executionID
  <2>1. CASE Assigns(t)
    <3>1. pc[t] \in HoldsDecoder
      BY <2>1 DEF Assigns, NextAssignExecution, NextAssignNode, IdentifyExecution,
         IdentifyNode, Recording, Identifying, HoldsDecoder
    <3> QED BY <3>1 DEF LockInv, HoldsDecoder, InCall
  <2>2. CASE ~Assigns(t)
    BY <2>2, StringsFrame
  <2> QED BY <2>1, <2>2
<1> QED BY <1>2, <1>3 DEF RequestWhole

(* The steps that write a draft.                                             *)
Drafts(t) ==
    \/ StartEmit(t) \/ StartFail(t) \/ CallUninitialized(t) \/ CallPrepare(t) \/ CallNode(t)
    \/ CallRefused(t) \/ CallCancelled(t) \/ CallAnswered(t) \/ CallMismatch(t)
    \/ CallClosed(t) \/ CallUndecoded(t) \/ FailNode(t) \/ SendWrite(t) \/ SendRefused(t)

LEMMA OwnDraftStep ==
  ASSUME CallInv, IdentityInv, NEW t \in Threads, Drafts(t)
  PROVE  RequestWhole(t)'
<1>1. /\ pc \in [Threads -> Locations] /\ draft \in [Threads -> Outbound]
      /\ LockInv /\ StringsInv /\ RequestWhole(t)
  BY DEF CallInv, Typed, TypeOK, IdentityInv
<1>2. CASE draft' = [draft EXCEPT ![t] = NoDraft]
  BY <1>1, <1>2 DEF RequestWhole, NoDraft
<1>3. CASE CallPrepare(t)
  <2>1. /\ decoderMu = NoThread /\ executionID # "empty" /\ UNCHANGED executionID
        /\ draft'[t].execution = executionID /\ pc'[t] = "call_node"
    BY <1>1, <1>3 DEF CallPrepare, LockDecoder, Identified, Goto, identity
  <2> QED BY <1>1, <2>1 DEF RequestWhole, StringsInv, Origins
<1>4. CASE CallNode(t)
  <2>1. /\ pc[t] = "call_node" /\ pc'[t] = "call_send"
        /\ draft'[t].type = draft[t].type
        /\ draft'[t].execution = draft[t].execution /\ draft'[t].node = nodeID
    BY <1>1, <1>4 DEF CallNode, Goto, Outbound
  <2>2. pc[t] \in HoldsDecoder \ Halfway
    BY <2>1 DEF HoldsDecoder, InCall, Halfway
  <2>3. nodeID = executionID
    BY <1>1, <2>2, StringsAgree
  <2> QED BY <1>1, <2>1, <2>3 DEF RequestWhole
<1>5. CASE StartFail(t)
  <2>1. draft'[t].type = "failed"
    BY <1>1, <1>5 DEF StartFail
  <2> QED BY <2>1 DEF RequestWhole
<1>6. CASE FailNode(t)
  <2>1. pc[t] = "fail_node" /\ draft'[t].type = draft[t].type
    BY <1>1, <1>6 DEF FailNode, Outbound
  <2>2. draft[t].type # "request"
    BY <2>1 DEF CallInv, DraftInv, Emitting
  <2> QED BY <2>1, <2>2 DEF RequestWhole
<1>7. ASSUME \/ StartEmit(t) \/ CallUninitialized(t) \/ CallRefused(t) \/ CallCancelled(t)
             \/ CallAnswered(t) \/ CallMismatch(t) \/ CallClosed(t) \/ CallUndecoded(t)
             \/ SendWrite(t) \/ SendRefused(t)
      PROVE  draft' = [draft EXCEPT ![t] = NoDraft]
  BY <1>7 DEF StartEmit, CallUninitialized, CallRefused, CallCancelled, CallAnswered,
     CallMismatch, CallClosed, CallUndecoded, GiveUp, EndCall, CallReturns, SendWrite,
     SendRefused, SendReturns
<1> QED BY <1>2, <1>3, <1>4, <1>5, <1>6, <1>7 DEF Drafts

(* The other steps of a goroutine neither write its draft nor begin a call.  *)
LEMMA OwnOtherStep ==
  ASSUME CallInv, IdentityInv, NEW t \in Threads,
         Begin(t) \/ Cancel(t) \/ Acquire(t) \/ Step(t), ~Drafts(t)
  PROVE  RequestWhole(t)'
<1>1. pc \in [Threads -> Locations] /\ RequestWhole(t)
  BY DEF CallInv, Typed, TypeOK, IdentityInv
<1> USE DEF locals, Return, CallReturns, Goto
<1>2. ASSUME UNCHANGED draft, pc[t] # "call_node", pc'[t] # "call_node"
      PROVE  RequestWhole(t)'
  BY <1>1, <1>2 DEF RequestWhole
<1>3. ASSUME NEW operation \in Calls, Start(t, operation) PROVE RequestWhole(t)'
  BY <1>1, <1>2, <1>3 DEF Start, EntryPoint, Calls
<1>4. CASE Cancel(t)
  BY <1>1, <1>4 DEF Cancel, RequestWhole, session, identity
<1>5. CASE EnterReader(t)
  BY <1>1, <1>2, <1>5 DEF EnterReader, AfterLock
<1>6. CASE EnterWriter(t)
  BY <1>1, <1>2, <1>6 DEF EnterWriter
<1>7. CASE \/ NextUnsolicited(t) \/ NextEnd(t) \/ NextInput(t) \/ NextInitialize(t)
           \/ NextAssignExecution(t) \/ NextAssignNode(t) \/ NextClosed(t)
           \/ NextUndecoded(t)
  BY <1>1, <1>2, <1>7 DEF NextUnsolicited, NextEnd, NextInput, NextReturns, NextInitialize,
     NextAssignExecution, NextAssignNode, NextClosed, NextUndecoded
<1>8. CASE \/ DecodeMessage(t) \/ DecodeClosed(t) \/ DecodeUndecoded(t)
           \/ IdentifyExecution(t) \/ IdentifyNode(t)
  BY <1>1, <1>2, <1>8 DEF DecodeMessage, DecodeClosed, DecodeUndecoded, IdentifyExecution,
     IdentifyNode
<1>9. CASE CallWrite(t) \/ CallRead(t) \/ CallBuffer(t)
  BY <1>1, <1>2, <1>9 DEF CallWrite, CallRead, CallBuffer
<1> QED BY <1>3, <1>4, <1>5, <1>6, <1>7, <1>8, <1>9 DEF Begin, Acquire, Step, Drafts

(* What is written to stdout.                                                *)
LEMMA WrittenWhole ==
  ASSUME CallInv, IdentityInv, [Next]_vars PROVE RequestIdentityWhole'
<1>1. draft \in [Threads -> Outbound] /\ outbound \in Seq(Outbound)
  BY DEF CallInv, Typed, TypeOK
<1>2. CASE UNCHANGED outbound
  BY <1>2 DEF IdentityInv, RequestIdentityWhole, RequestsIn
<1>3. ASSUME NEW t \in Threads, CallWrite(t) \/ SendWrite(t) PROVE RequestIdentityWhole'
  <2>1. /\ outbound' = Append(outbound, draft[t])
        /\ pc[t] \in {"call_write", "send_write"}
    BY <1>3 DEF CallWrite, SendWrite, SendReturns, Write
  <2>2. /\ Len(outbound') = Len(outbound) + 1 /\ Len(outbound) \in Nat
        /\ \A i \in 1 .. Len(outbound) : outbound'[i] = outbound[i]
        /\ outbound'[Len(outbound) + 1] = draft[t]
    BY <1>1, <2>1, AppendProperties, LenProperties
  <2>3. \A i \in 1 .. Len(outbound') : i \in 1 .. Len(outbound) \/ i = Len(outbound) + 1
    BY <2>2
  <2>4. draft[t].type = "request" =>
           draft[t].execution \in Origins /\ draft[t].node = draft[t].execution
    BY <2>1 DEF IdentityInv, RequestWhole
  <2> QED BY <2>2, <2>3, <2>4 DEF IdentityInv, RequestIdentityWhole, RequestsIn, Origins
<1>4. CASE HostRead
  <2>1. /\ outbound # <<>> /\ outbound' = Tail(outbound)
        /\ Len(outbound') = Len(outbound) - 1 /\ Len(outbound) \in Nat
        /\ \A i \in 1 .. Len(outbound') : outbound'[i] = outbound[i + 1]
    BY <1>1, <1>4, HeadTailProperties, LenProperties DEF HostRead
  <2>2. \A i \in 1 .. Len(outbound') : i + 1 \in 1 .. Len(outbound)
    BY <2>1
  <2> QED BY <2>1, <2>2 DEF IdentityInv, RequestIdentityWhole, RequestsIn
<1>5. ASSUME NEW t \in Threads, Begin(t) \/ Cancel(t) \/ Acquire(t)
      PROVE  UNCHANGED outbound
  BY <1>5 DEF Begin, Start, StartEmit, StartFail, Cancel, Acquire, EnterReader,
              CallUninitialized, CallPrepare, EnterWriter, pipes
<1>6. ASSUME NEW t \in Threads, Step(t), ~CallWrite(t), ~SendWrite(t)
      PROVE  UNCHANGED outbound
  BY <1>6 DEF Step, NextUnsolicited, NextEnd, NextInput, NextReturns, NextInitialize,
     NextAssignExecution, NextAssignNode, NextClosed, NextUndecoded, DecodeMessage,
     DecodeClosed, DecodeUndecoded, IdentifyExecution, IdentifyNode, CallNode, CallRefused,
     CallCancelled, CallRead, CallBuffer, CallAnswered, CallMismatch, CallClosed,
     CallUndecoded, ReadResponse, GiveUp, EndCall, FailNode, SendRefused, readOnly, pipes
<1>7. ASSUME HostStep, ~HostRead PROVE UNCHANGED outbound
  BY <1>7 DEF HostStep, HostSend, HostSpoilInput, SendInput, HostAnswer, HostSpoilAnswer,
     SendAnswer, HostClose
<1>8. CASE GuestEnded \/ UNCHANGED vars
  BY <1>2, <1>8 DEF GuestEnded, vars, pipes
<1> QED BY <1>2, <1>3, <1>4, <1>5, <1>6, <1>7, <1>8 DEF Next

LEMMA IdentityStep ==
  ASSUME CallInv, IdentityInv, [Next]_vars PROVE IdentityInv'
<1>1. StringsInv'
  BY StringsStep DEF CallInv, IdentityInv
<1>2. RequestIdentityWhole'
  BY WrittenWhole
<1>3. ASSUME NEW u \in Threads PROVE RequestWhole(u)'
  <2>1. ASSUME NEW t \in Threads, Begin(t) \/ Cancel(t) \/ Acquire(t) \/ Step(t)
        PROVE  RequestWhole(u)'
    <3>1. CASE t = u
      BY <2>1, <3>1, OwnDraftStep, OwnOtherStep
    <3>2. CASE t # u
      BY <2>1, <3>2, OthersFrame DEF CallInv, IdentityInv
    <3> QED BY <3>1, <3>2
  <2>2. CASE HostStep \/ GuestEnded \/ UNCHANGED vars
    <3>1. UNCHANGED <<executionID, pc, draft>>
      BY <2>2, HostFrame DEF GuestEnded, vars, session, identity, locals
    <3> QED BY <3>1 DEF IdentityInv, RequestWhole
  <2> QED BY <2>1, <2>2 DEF Next
<1> QED BY <1>1, <1>2, <1>3 DEF IdentityInv

(* A capability request names the execution and the node of one and the same *)
(* message, although the two strings are written and read one after the      *)
(* other: decoderMu is held from the first to the second, by the goroutine   *)
(* that assigns them and by the one that tests and copies them.              *)
THEOREM RequestsIdentified == Spec => []RequestIdentityWhole
<1>1. Init => IdentityInv
  <2>1. Len(<<>>) = 0
    BY EmptySeq
  <2> QED BY <2>1 DEF Init, IdentityInv, StringsInv, RequestWhole, RequestIdentityWhole,
                      RequestsIn, NoDraft
<1>2. CallInv /\ IdentityInv /\ [Next]_vars => IdentityInv'
  BY IdentityStep
<1>3. IdentityInv => RequestIdentityWhole
  BY DEF IdentityInv
<1> QED BY <1>1, <1>2, <1>3, CallInvariant, PTL DEF Spec
=============================================================================
