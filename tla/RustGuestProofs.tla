--------------------------- MODULE RustGuestProofs ---------------------------
(***************************************************************************)
(* Proofs about RustGuest: for any ports, any bounds, and a host that does *)
(* what it likes.                                                          *)
(***************************************************************************)
EXTENDS RustGuest, SequenceTheorems, FiniteSetTheorems, TLAPS

InFrame == [kind : {"initialize", "input_batch", "input_end", "cancel"},
            port : Ports \cup {AllPorts} \cup Identities, n : 0 .. MaxBatches]
OutFrame == [kind : {"ready", "output_batch", "completed", "failed", "torn"},
             identity : Identities, port : Ports \cup {AllPorts}, n : 0 .. MaxBatches]

(* What a frame from the host carries.                                       *)
Meant(frame) ==
    /\ frame.kind = "initialize" => frame.port = "identity"
    /\ frame.kind = "input_batch" => frame.port \in Ports /\ frame.n \in 1 .. MaxBatches

MeantInv == \A i \in 1 .. Len(stdin) : Meant(stdin[i])
Typed == TypeOK /\ MeantInv /\ (pc = "run" => batch \in Batches)

-----------------------------------------------------------------------------
(* What the steps do to the two streams.                                     *)

LEMMA StreamsTyped ==
  ASSUME TypeOK
  PROVE  /\ stdin \in Seq(InFrame) /\ Len(stdin) \in Nat
         /\ stdout \in Seq(OutFrame) /\ Len(stdout) \in Nat /\ hostRead \in 0 .. Len(stdout)
  BY LenProperties DEF TypeOK, InFrame, OutFrame

LEMMA Taking ==
  ASSUME Typed, stdin # <<>>, Took
  PROVE  /\ stdin' \in Seq(InFrame) /\ Len(stdin') \in Nat /\ Len(stdin) = Len(stdin') + 1
         /\ Head(stdin) \in InFrame /\ Head(stdin) = stdin[1] /\ Meant(Head(stdin))
         /\ \A i \in 1 .. Len(stdin') : stdin'[i] = stdin[i + 1]
         /\ MeantInv'
  <1>1. stdin \in Seq(InFrame) /\ stdin \in Seq(InFrame)
    BY StreamsTyped DEF Typed
  <1>2. /\ stdin' \in Seq(InFrame) /\ Len(stdin') = Len(stdin) - 1 /\ Len(stdin) \in Nat \ {0}
        /\ Head(stdin) \in InFrame /\ Head(stdin) = stdin[1]
        /\ \A i \in 1 .. Len(stdin') : stdin'[i] = stdin[i + 1]
    BY <1>1, HeadTailProperties, EmptySeq DEF Took
  <1>3. \A i \in 1 .. Len(stdin') : Meant(stdin'[i])
    BY <1>2 DEF Typed, MeantInv
  <1>4. Meant(Head(stdin))
    BY <1>2 DEF Typed, MeantInv
  <1> QED
    BY <1>2, <1>3, <1>4 DEF MeantInv

LEMMA Giving ==
  ASSUME Typed, NEW f \in InFrame, Meant(f), Give(f)
  PROVE  /\ stdin' \in Seq(InFrame) /\ Len(stdin') = Len(stdin) + 1 /\ Len(stdin) \in Nat
         /\ \A i \in 1 .. Len(stdin) : stdin'[i] = stdin[i]
         /\ stdin'[Len(stdin) + 1] = f
         /\ MeantInv'
  <1>1. stdin \in Seq(InFrame) /\ Len(stdin) \in Nat
    BY StreamsTyped DEF Typed
  <1>2. /\ stdin' \in Seq(InFrame) /\ Len(stdin') = Len(stdin) + 1
        /\ \A i \in 1 .. Len(stdin) : stdin'[i] = stdin[i]
        /\ stdin'[Len(stdin) + 1] = f
    BY <1>1, AppendProperties DEF Give
  <1>3. ASSUME NEW i \in 1 .. Len(stdin')
        PROVE  Meant(stdin'[i])
    <2>1. i \in 1 .. Len(stdin) \/ i = Len(stdin) + 1
      BY <1>1, <1>2
    <2> QED
      BY <1>2, <2>1 DEF Typed, MeantInv
  <1> QED
    BY <1>1, <1>2, <1>3 DEF MeantInv

LEMMA Putting ==
  ASSUME Typed, NEW f \in OutFrame, Put(f), UNCHANGED hostRead
  PROVE  /\ stdout' \in Seq(OutFrame) /\ Len(stdout') = Len(stdout) + 1 /\ Len(stdout) \in Nat
         /\ \A i \in 1 .. Len(stdout) : stdout'[i] = stdout[i]
         /\ stdout'[Len(stdout) + 1] = f
         /\ hostRead' \in 0 .. Len(stdout')
  <1>1. stdout \in Seq(OutFrame) /\ Len(stdout) \in Nat /\ hostRead \in 0 .. Len(stdout)
    BY StreamsTyped DEF Typed
  <1>2. /\ stdout' \in Seq(OutFrame) /\ Len(stdout') = Len(stdout) + 1
        /\ \A i \in 1 .. Len(stdout) : stdout'[i] = stdout[i]
        /\ stdout'[Len(stdout) + 1] = f
    BY <1>1, AppendProperties DEF Put
  <1> QED
    BY <1>1, <1>2

(* The frames a step writes, and those it is given.                          *)
LEMMA FramesTyped ==
  ASSUME Typed
  PROVE  /\ In("initialize", "identity", 0) \in InFrame /\ In("cancel", "", 0) \in InFrame
         /\ In("input_end", AllPorts, 0) \in InFrame
         /\ \A p \in Ports : In("input_end", p, 0) \in InFrame
         /\ \A p \in Ports, n \in 1 .. MaxBatches : In("input_batch", p, n) \in InFrame
         /\ Due \in OutFrame /\ Torn \in OutFrame
  <1>1. 0 \in 0 .. MaxBatches /\ 1 .. MaxBatches \subseteq 0 .. MaxBatches
    BY BoundsAssumption
  <1>2. context \in Identities
    BY DEF Typed, TypeOK
  <1>3. pc = "run" => batch.port \in Ports /\ batch.n \in 0 .. MaxBatches
    BY <1>1 DEF Typed, Batches
  <1>4. Due \in OutFrame /\ Torn \in OutFrame
    BY <1>1, <1>2, <1>3 DEF Due, Torn, Out, OutFrame, Identities
  <1> QED
    BY <1>1, <1>4 DEF In, InFrame, Identities

(* What a step may write.                                                    *)
LEMMA Writing ==
  ASSUME Typed, Guest
  PROVE  UNCHANGED stdout \/ \E f \in OutFrame : Put(f) /\ f \in {Due, Torn}
  BY FramesTyped
     DEF Guest, ReadInitialize, ReadFrame, ReadFails, WriteReady, WriteOutput, WriteCompleted,
         WriteFailed, RunnerFails, WriteFails, ReportFails, Panic, PutPart

-----------------------------------------------------------------------------
(* Types.                                                                    *)

(* What TypeOK says of everything but the streams.                           *)
HostTyped ==
    /\ stdinOpen \in BOOLEAN /\ hostReads \in BOOLEAN /\ started \in BOOLEAN
    /\ sent \in [Ports -> 0 .. MaxBatches] /\ ended \subseteq Ports \cup {AllPorts}
GuestTyped ==
    /\ pc \in {"initialize", "ready", "read", "run", "complete", "report",
               "success", "failure", "aborted"}
    /\ context \in Identities
    /\ pc \in {"ready", "read", "run", "complete", "success"} => context = "identity"
    /\ batch \in Batches \cup {NoBatch}
    /\ taken \in Seq(Batches)
    /\ broken \in BOOLEAN
    /\ pc = "run" => batch \in Batches

LEMMA InParts ==
  TypeOK /\ (pc = "run" => batch \in Batches) <=>
      /\ HostTyped /\ GuestTyped
      /\ stdin \in Seq(InFrame) /\ stdout \in Seq(OutFrame) /\ hostRead \in 0 .. Len(stdout)
  BY DEF TypeOK, HostTyped, GuestTyped, InFrame, OutFrame

LEMMA InitTyped == Init => Typed
  <1> SUFFICES ASSUME Init PROVE Typed
    OBVIOUS
  <1>1. <<>> \in Seq(InFrame) /\ <<>> \in Seq(OutFrame) /\ <<>> \in Seq(Batches) /\ Len(<<>>) = 0
    BY EmptySeq
  <1>2. HostTyped
    <2>1. 0 \in 0 .. MaxBatches
      BY BoundsAssumption
    <2> QED
      BY <2>1 DEF Init, HostTyped
  <1>3. GuestTyped
    <2>1. pc = "initialize" /\ context \in Identities /\ batch = NoBatch /\ taken \in Seq(Batches)
          /\ broken \in BOOLEAN
      BY <1>1 DEF Init, Identities
    <2> QED
      BY <2>1 DEF GuestTyped
  <1>4. hostRead \in 0 .. Len(stdout) /\ MeantInv
    <2>1. Len(stdout) = 0 /\ hostRead = 0 /\ Len(stdin) = 0
      BY <1>1 DEF Init
    <2> QED
      BY <2>1 DEF MeantInv
  <1> QED
    BY <1>1, <1>2, <1>3, <1>4, InParts DEF Init, Typed

LEMMA GuestKeepsTypes ==
  ASSUME Typed, Guest
  PROVE  Typed'
  <1>1. /\ HostTyped /\ GuestTyped
        /\ stdin \in Seq(InFrame) /\ stdout \in Seq(OutFrame) /\ hostRead \in 0 .. Len(stdout)
    BY InParts DEF Typed
  <1>2. UNCHANGED host
    BY DEF Guest, ReadInitialize, ReadFrame, ReadFails, WriteReady, WriteOutput, WriteCompleted,
           WriteFailed, RunnerFails, WriteFails, ReportFails, Panic, host
  <1>3. HostTyped'
    BY <1>1, <1>2 DEF HostTyped, host
  <1>4. stdin' \in Seq(InFrame) /\ MeantInv'
    <2>1. CASE ReadInitialize \/ ReadFrame
      BY <2>1, Taking DEF ReadInitialize, ReadFrame
    <2>2. CASE UNCHANGED stdin
      BY <1>1, <2>2 DEF Typed, MeantInv
    <2> QED
      BY <2>1, <2>2
         DEF Guest, ReadFails, WriteReady, WriteOutput, WriteCompleted, WriteFailed,
             RunnerFails, WriteFails, ReportFails, Panic
  <1>5. stdout' \in Seq(OutFrame) /\ hostRead' \in 0 .. Len(stdout')
    <2>1. UNCHANGED hostRead
      BY <1>2 DEF host
    <2>2. ASSUME NEW f \in OutFrame, Put(f)
          PROVE  stdout' \in Seq(OutFrame) /\ hostRead' \in 0 .. Len(stdout')
      BY <2>1, <2>2, Putting
    <2>3. CASE UNCHANGED stdout
      BY <1>1, <2>1, <2>3
    <2> QED
      BY <2>2, <2>3, Writing
  <1>6. GuestTyped'
    <2>1. CASE ReadInitialize
      <3>1. Head(stdin) \in InFrame /\ Meant(Head(stdin))
        BY <2>1, Taking DEF ReadInitialize
      <3> QED
        BY <1>1, <2>1, <3>1
           DEF ReadInitialize, Initializes, Goto, Meant, GuestTyped, Identities
    <2>2. CASE ReadFrame
      <3>1. Head(stdin) \in InFrame /\ Meant(Head(stdin))
        BY <2>2, Taking DEF ReadFrame
      <3>2. pc = "read" /\ context = "identity" /\ UNCHANGED <<context, broken>>
        BY <1>1, <2>2 DEF ReadFrame, GuestTyped
      <3>3. CASE pc' \in {"complete", "report"} /\ UNCHANGED <<batch, taken>>
        BY <1>1, <3>2, <3>3 DEF GuestTyped
      <3>4. CASE /\ Head(stdin).kind = "input_batch" /\ pc' = "run"
                 /\ batch' = [port |-> Head(stdin).port, n |-> Head(stdin).n]
                 /\ taken' = Append(taken, batch')
        <4>1. batch' \in Batches
          BY <3>1, <3>4 DEF Meant, Batches
        <4>2. taken' \in Seq(Batches)
          BY <1>1, <3>4, <4>1, AppendProperties DEF GuestTyped
        <4> QED
          BY <1>1, <3>2, <3>4, <4>1, <4>2 DEF GuestTyped
      <3> QED
        BY <2>2, <3>3, <3>4 DEF ReadFrame, AtTheEnd, Goto
    <2>3. CASE ReadFails
      BY <1>1, <2>3 DEF ReadFails, Goto, GuestTyped
    <2>4. CASE WriteReady \/ WriteOutput \/ WriteCompleted
      BY <1>1, <2>4 DEF WriteReady, WriteOutput, WriteCompleted, Goto, GuestTyped
    <2>5. CASE WriteFailed \/ RunnerFails \/ WriteFails \/ ReportFails \/ Panic
      <3>1. pc' \in {"report", "failure", "aborted"} /\ broken' \in {broken, TRUE}
            /\ UNCHANGED <<context, batch, taken>>
        BY <2>5
           DEF WriteFailed, RunnerFails, WriteFails, ReportFails, Panic, Goto, Propagate
      <3> QED
        BY <1>1, <3>1 DEF GuestTyped
    <2> QED
      BY <2>1, <2>2, <2>3, <2>4, <2>5 DEF Guest
  <1> QED
    BY <1>3, <1>4, <1>5, <1>6, InParts DEF TypeOK, Typed, HostTyped, GuestTyped, InFrame, OutFrame

LEMMA HostKeepsTypes ==
  ASSUME Typed, Host
  PROVE  Typed'
  <1>1. /\ HostTyped /\ GuestTyped
        /\ stdin \in Seq(InFrame) /\ stdout \in Seq(OutFrame) /\ hostRead \in 0 .. Len(stdout)
        /\ Len(stdout) \in Nat
    BY InParts, StreamsTyped DEF Typed
  <1>2. UNCHANGED <<guest, stdout>>
    BY DEF Host, Feed, Initialize, SendBatch, EndPort, EndAll, Cancel, CloseStdin, HostReads,
           HostLeaves, host
  <1>3. GuestTyped'
    BY <1>1, <1>2 DEF GuestTyped, guest
  <1>4. hostRead' \in 0 .. Len(stdout')
    <2>1. CASE HostReads
      BY <1>1, <1>2, <2>1 DEF HostReads
    <2>2. CASE UNCHANGED hostRead
      BY <1>1, <1>2, <2>2
    <2> QED
      BY <2>1, <2>2
         DEF Host, Feed, Initialize, SendBatch, EndPort, EndAll, Cancel, CloseStdin, HostLeaves,
             host
  <1>5. HostTyped'
    <2>1. CASE \E p \in Ports : SendBatch(p)
      <3>1. PICK p \in Ports : SendBatch(p)
        BY <2>1
      <3>2. sent[p] + 1 \in 0 .. MaxBatches
        BY <1>1, <3>1, BoundsAssumption DEF SendBatch, HostTyped
      <3> QED
        BY <1>1, <3>1, <3>2 DEF SendBatch, HostTyped
    <2>2. CASE Initialize \/ EndAll \/ (\E p \in Ports : EndPort(p)) \/ Cancel
      BY <1>1, <2>2 DEF Initialize, EndAll, EndPort, Cancel, host, HostTyped
    <2>3. CASE CloseStdin \/ HostReads \/ HostLeaves
      BY <1>1, <2>3 DEF CloseStdin, HostReads, HostLeaves, HostTyped
    <2> QED
      BY <2>1, <2>2, <2>3 DEF Host, Feed
  <1>6. stdin' \in Seq(InFrame) /\ MeantInv'
    <2>1. CASE Feed \/ Cancel
      <3>1. PICK f \in InFrame : Give(f) /\ Meant(f)
        <4>1. CASE \E p \in Ports : SendBatch(p)
          <5>1. PICK p \in Ports : SendBatch(p)
            BY <4>1
          <5>2. sent[p] + 1 \in 1 .. MaxBatches
            BY <1>1, <5>1, BoundsAssumption DEF SendBatch, HostTyped
          <5>3. In("input_batch", p, sent[p] + 1) \in InFrame
            BY <5>2, FramesTyped
          <5>4. Meant(In("input_batch", p, sent[p] + 1))
            BY <5>2 DEF Meant, In
          <5> QED
            BY <5>1, <5>3, <5>4 DEF SendBatch
        <4>2. CASE Initialize
          BY <4>2, FramesTyped DEF Initialize, Meant, In
        <4>3. CASE EndAll
          BY <4>3, FramesTyped DEF EndAll, Meant, In
        <4>4. CASE \E p \in Ports : EndPort(p)
          BY <4>4, FramesTyped DEF EndPort, Meant, In
        <4>5. CASE Cancel
          BY <4>5, FramesTyped DEF Cancel, Meant, In
        <4> QED
          BY <2>1, <4>1, <4>2, <4>3, <4>4, <4>5 DEF Feed
      <3> QED
        BY <3>1, Giving
    <2>2. CASE UNCHANGED stdin
      BY <1>1, <2>2 DEF Typed, MeantInv
    <2> QED
      BY <2>1, <2>2 DEF Host, CloseStdin, HostReads, HostLeaves
  <1> QED
    BY <1>2, <1>3, <1>4, <1>5, <1>6, <1>1, InParts
       DEF TypeOK, Typed, HostTyped, GuestTyped, InFrame, OutFrame

LEMMA TypedInvariant == Spec => []Typed
  <1>1. ASSUME Typed, UNCHANGED vars
        PROVE  Typed'
    BY <1>1 DEF vars, host, guest, Typed, TypeOK, MeantInv, Meant, Batches, NoBatch
  <1>2. ASSUME Typed, [Next]_vars
        PROVE  Typed'
    BY <1>1, <1>2, GuestKeepsTypes, HostKeepsTypes DEF Next
  <1> QED
    BY <1>2, InitTyped, PTL DEF Spec

(* The types hold, and past initialize the guest knows its identity.         *)
THEOREM TypeCorrect == Spec => []TypeOK
  <1>1. Typed => TypeOK
    BY DEF Typed
  <1> QED
    BY <1>1, TypedInvariant, PTL

-----------------------------------------------------------------------------
(* The promise.                                                              *)

Answers == Written("output_batch")
Intact == \A i \in 1 .. Len(stdout) : stdout[i].kind # "torn"

(* Where the guest is tells what it has written, and what it owes. Until a   *)
(* write fails no frame is torn, and after one only the report is left.      *)
PromiseInv ==
    /\ IsFiniteSet(Answers) /\ Cardinality(Answers) \in Nat
    /\ Len(taken) = Cardinality(Answers)
         \/ (Len(taken) = Cardinality(Answers) + 1
             /\ pc \in {"run", "report", "failure", "aborted"})
    /\ pc = "run" => Len(taken) = Cardinality(Answers) + 1
    /\ pc \in {"initialize", "ready"} => Written("ready") = {}
    /\ pc \in {"read", "run", "complete"} => Written("ready") # {}
    /\ pc # "success" /\ ~broken => Written("completed") = {}
    /\ pc # "failure" => Written("failed") = {}
    /\ ~broken => Intact
    /\ broken => pc \in {"report", "failure"}

LEMMA WrittenGrows ==
  ASSUME Typed, NEW f \in OutFrame, Put(f), UNCHANGED hostRead, NEW kind, kind # "torn"
  PROVE  /\ f.kind # kind => Written(kind)' = Written(kind)
         /\ Written(kind)' \in {Written(kind), Written(kind) \cup {Len(stdout) + 1}}
         /\ Intact /\ f.kind = kind => Written(kind)' = Written(kind) \cup {Len(stdout) + 1}
         /\ Len(stdout) + 1 \notin Written(kind)
         /\ Intact /\ f.kind # "torn" => Intact'
  <1>1. /\ Len(stdout') = Len(stdout) + 1 /\ Len(stdout) \in Nat
        /\ \A i \in 1 .. Len(stdout) : stdout'[i] = stdout[i]
        /\ stdout'[Len(stdout) + 1] = f
    BY Putting
  <1>2. 1 .. Len(stdout') = 1 .. Len(stdout) \cup {Len(stdout) + 1}
    BY <1>1
  <1>3. Len(stdout) + 1 \notin 1 .. Len(stdout)
    BY <1>1
  <1>4. ASSUME NEW i \in 1 .. Len(stdout)
        PROVE  Whole(i)' <=> Whole(i)
    <2>1. \A j \in 1 .. i : stdout'[j] = stdout[j]
      BY <1>1
    <2> QED
      BY <2>1 DEF Whole
  <1>5. PICK n \in Nat : n = Len(stdout) + 1
    BY <1>1
  <1>6. Whole(n)' <=> Intact /\ f.kind # "torn"
    <2>1. \A j \in 1 .. n : j \in 1 .. Len(stdout) \/ j = n
      BY <1>5, <1>1
    <2>2. 1 .. Len(stdout) \subseteq 1 .. n /\ n \in 1 .. n
      BY <1>5, <1>1
    <2> QED
      BY <1>5, <1>1, <2>1, <2>2 DEF Whole, Intact
  <1>7. Intact /\ f.kind # "torn" => Intact'
    BY <1>1, <1>2 DEF Intact
  <1>8. f.kind # kind => Written(kind)' = Written(kind)
    BY <1>1, <1>2, <1>4 DEF Written
  <1>9. Whole(n)' /\ f.kind = kind
          => Written(kind)' = Written(kind) \cup {Len(stdout) + 1}
    BY <1>5, <1>1, <1>2, <1>4 DEF Written
  <1>10. ~Whole(n)' => Written(kind)' = Written(kind)
    BY <1>5, <1>1, <1>2, <1>4 DEF Written
  <1>11. Len(stdout) + 1 \notin Written(kind)
    BY <1>3 DEF Written
  <1> QED
    BY <1>6, <1>7, <1>8, <1>9, <1>10, <1>11

LEMMA InitPromise == Init => PromiseInv /\ Promise!Init
  <1> SUFFICES ASSUME Init PROVE PromiseInv /\ Promise!Init
    OBVIOUS
  <1>1. Len(<<>>) = 0
    BY EmptySeq
  <1>2. 1 .. Len(stdout) = {}
    <2>1. Len(stdout) = 0
      BY <1>1 DEF Init
    <2> QED
      BY <2>1
  <1>3. Intact /\ \A kind : Written(kind) = {}
    BY <1>2 DEF Written, Intact
  <1>4. Cardinality(Answers) = 0 /\ IsFiniteSet(Answers) /\ Len(taken) = 0
    BY <1>1, <1>3, FS_EmptySet DEF Init, Answers
  <1>5. pc = "initialize" /\ broken = FALSE
    BY DEF Init
  <1> QED
    BY <1>3, <1>4, <1>5 DEF PromiseInv, Promise!Init, Answers

LEMMA TakenLength == Typed => taken \in Seq(Batches) /\ Len(taken) \in Nat
  BY LenProperties DEF Typed, TypeOK

(* Steps that write nothing the host can read.                               *)
LEMMA SilentStep ==
  ASSUME Typed, PromiseInv, UNCHANGED taken,
         \A kind : kind # "torn" => Written(kind)' = Written(kind),
         ~broken' => Intact', broken => broken', broken' \in BOOLEAN,
         broken' => broken \/ pc' \in {"report", "failure"},
         \/ pc' = pc
         \/ pc = "initialize" /\ pc' \in {"ready", "report"}
         \/ pc = "read" /\ pc' \in {"complete", "report"}
         \/ pc \in {"ready", "run", "complete"} /\ pc' \in {"report", "aborted"}
         \/ pc = "report" /\ pc' = "failure"
  PROVE  PromiseInv' /\ [Promise!Next]_(Promise!vars)
  <1>1. /\ Written("ready")' = Written("ready") /\ Written("failed")' = Written("failed")
        /\ Written("completed")' = Written("completed")
        /\ Written("output_batch")' = Written("output_batch")
    OBVIOUS
  <1>2. Answers' = Answers
    BY <1>1 DEF Answers
  <1>3. PromiseInv'
    BY <1>1, <1>2 DEF PromiseInv
  <1>4. broken' \in {broken, TRUE}
    BY DEF Typed, TypeOK
  <1>5. ASSUME UNCHANGED <<pc \in {"failure", "aborted"}>> \/ Written("completed") # {}
        PROVE  [Promise!Next]_(Promise!vars)
    BY <1>1, <1>4, <1>5 DEF Promise!Next, Promise!vars
  <1>6. CASE pc \in {"failure", "aborted"} <=> pc' \in {"failure", "aborted"}
    BY <1>3, <1>6, <1>5
  <1>7. CASE pc' \in {"failure", "aborted"} /\ pc \in {"ready", "run", "complete", "report"}
    <2>1. CASE Written("completed") = {}
      <3>1. Promise!GiveUp
        BY <1>1, <1>7, <2>1 DEF Promise!GiveUp, PromiseInv
      <3> QED
        BY <1>3, <1>4, <3>1 DEF Promise!Next
    <2>2. CASE Written("completed") # {}
      BY <1>3, <1>5, <2>2
    <2> QED
      BY <2>1, <2>2
  <1> QED
    BY <1>6, <1>7, <1>3

(* The writes, whether they fail or not.                                     *)
LEMMA ReadyStep ==
  ASSUME Typed, PromiseInv, Put(Due), UNCHANGED <<hostRead, taken>>, pc = "ready",
         (pc' = "read" /\ broken' = broken) \/ (pc' = "report" /\ broken' = TRUE)
  PROVE  PromiseInv' /\ [Promise!Next]_(Promise!vars)
  <1>1. Due \in OutFrame /\ Due.kind = "ready"
    BY FramesTyped DEF Due, Out
  <1>2. Intact /\ broken = FALSE
    BY DEF PromiseInv, Typed, TypeOK
  <1>3. /\ Written("ready")' # {} /\ Intact'
        /\ \A kind : kind \notin {"ready", "torn"} => Written(kind)' = Written(kind)
    BY <1>1, <1>2, WrittenGrows
  <1>4. /\ Answers' = Answers
        /\ Written("failed")' = Written("failed") /\ Written("completed")' = Written("completed")
    BY <1>3 DEF Answers
  <1>5. PromiseInv'
    BY <1>2, <1>3, <1>4 DEF PromiseInv
  <1>6. Promise!GetReady
    BY <1>2, <1>3, <1>4 DEF Promise!GetReady, PromiseInv, Answers
  <1> QED
    BY <1>2, <1>5, <1>6 DEF Promise!Next

LEMMA OutputStep ==
  ASSUME Typed, PromiseInv, Put(Due), UNCHANGED <<hostRead, taken>>, pc = "run",
         (pc' = "read" /\ broken' = broken) \/ (pc' = "report" /\ broken' = TRUE)
  PROVE  PromiseInv' /\ [Promise!Next]_(Promise!vars)
  <1>1. Due \in OutFrame /\ Due.kind = "output_batch"
    BY FramesTyped DEF Due, Out
  <1>2. Intact /\ broken = FALSE
    BY DEF PromiseInv, Typed, TypeOK
  <1>3. /\ Answers' = Answers \cup {Len(stdout) + 1} /\ Len(stdout) + 1 \notin Answers
        /\ Intact'
        /\ \A kind : kind \notin {"output_batch", "torn"} => Written(kind)' = Written(kind)
    BY <1>1, <1>2, WrittenGrows DEF Answers
  <1>4. /\ Written("ready")' = Written("ready")
        /\ Written("failed")' = Written("failed") /\ Written("completed")' = Written("completed")
    BY <1>3
  <1>5. Cardinality(Answers') = Cardinality(Answers) + 1 /\ IsFiniteSet(Answers')
    BY <1>3, FS_AddElement DEF PromiseInv
  <1>6. PromiseInv'
    BY <1>2, <1>3, <1>4, <1>5 DEF PromiseInv
  <1>7. Promise!Answer
    BY <1>2, <1>4, <1>5 DEF Promise!Answer, PromiseInv, Answers
  <1> QED
    BY <1>2, <1>6, <1>7 DEF Promise!Next

LEMMA CompletedStep ==
  ASSUME Typed, PromiseInv, Put(Due), UNCHANGED <<hostRead, taken>>, pc = "complete",
         (pc' = "success" /\ broken' = broken) \/ (pc' = "report" /\ broken' = TRUE)
  PROVE  PromiseInv' /\ [Promise!Next]_(Promise!vars)
  <1>1. Due \in OutFrame /\ Due.kind = "completed"
    BY FramesTyped DEF Due, Out
  <1>2. Intact /\ broken = FALSE
    BY DEF PromiseInv, Typed, TypeOK
  <1>3. /\ Written("completed")' # {} /\ Intact'
        /\ \A kind : kind \notin {"completed", "torn"} => Written(kind)' = Written(kind)
    BY <1>1, <1>2, WrittenGrows
  <1>4. /\ Answers' = Answers
        /\ Written("failed")' = Written("failed") /\ Written("ready")' = Written("ready")
    BY <1>3 DEF Answers
  <1>5. PromiseInv'
    BY <1>2, <1>3, <1>4 DEF PromiseInv
  <1>6. Promise!Complete
    BY <1>2, <1>3, <1>4 DEF Promise!Complete, PromiseInv, Answers
  <1> QED
    BY <1>2, <1>5, <1>6 DEF Promise!Next

LEMMA FailedStep ==
  ASSUME Typed, PromiseInv, Put(Due), UNCHANGED <<hostRead, taken>>, pc = "report",
         pc' = "failure", broken' \in {broken, TRUE}
  PROVE  PromiseInv' /\ [Promise!Next]_(Promise!vars)
  <1>1. Due \in OutFrame /\ Due.kind = "failed"
    BY FramesTyped DEF Due, Out
  <1>2. broken \in BOOLEAN
    BY DEF Typed, TypeOK
  <1>3. /\ Intact => Intact'
        /\ \A kind : kind \notin {"failed", "torn"} => Written(kind)' = Written(kind)
    BY <1>1, WrittenGrows
  <1>4. /\ Answers' = Answers
        /\ Written("completed")' = Written("completed") /\ Written("ready")' = Written("ready")
    BY <1>3 DEF Answers
  <1>5. PromiseInv'
    BY <1>2, <1>3, <1>4 DEF PromiseInv
  <1>6. CASE Written("completed") = {}
    <2>1. Promise!GiveUp
      BY <1>4, <1>6 DEF Promise!GiveUp, PromiseInv, Answers
    <2> QED
      BY <1>5, <2>1 DEF Promise!Next
  <1>7. CASE Written("completed") # {}
    <2>1. broken = TRUE /\ broken' = TRUE
      BY <1>2, <1>7 DEF PromiseInv
    <2>2. CASE Written("failed")' # {}
      <3>1. Promise!Retract
        BY <1>4, <1>7, <2>2 DEF Promise!Retract, PromiseInv, Answers
      <3> QED
        BY <1>5, <2>1, <3>1 DEF Promise!Next
    <2>3. CASE Written("failed")' = {}
      BY <1>4, <1>5, <1>7, <2>1, <2>3 DEF PromiseInv, Promise!vars, Answers
    <2> QED
      BY <2>2, <2>3
  <1> QED
    BY <1>6, <1>7

(* A failed write.                                                           *)
LEMMA FailingStep ==
  ASSUME Typed, Typed', PromiseInv, WriteFails \/ ReportFails
  PROVE  PromiseInv' /\ [Promise!Next]_(Promise!vars)
  <1>1. /\ PutPart /\ broken' = TRUE /\ UNCHANGED <<hostRead, taken>>
        /\ \/ pc \in {"ready", "run", "complete"} /\ pc' = "report"
           \/ pc = "report" /\ pc' = "failure"
    BY DEF WriteFails, ReportFails, Propagate, Goto, host
  <1>2. CASE Put(Due)
    BY <1>1, <1>2, ReadyStep, OutputStep, CompletedStep, FailedStep
  <1>3. CASE \A kind : kind # "torn" => Written(kind)' = Written(kind)
    BY <1>1, <1>3, SilentStep
  <1>4. UNCHANGED stdout => \A kind : Written(kind)' = Written(kind)
    BY DEF Written, Whole
  <1>5. Put(Torn) => \A kind : kind # "torn" => Written(kind)' = Written(kind)
    <2>1. Torn \in OutFrame /\ Torn.kind = "torn"
      BY FramesTyped DEF Torn, Out
    <2> QED
      BY <1>1, <2>1, WrittenGrows
  <1> QED
    BY <1>1, <1>2, <1>3, <1>4, <1>5 DEF PutPart

LEMMA NextPromise ==
  ASSUME Typed, Typed', PromiseInv, [Next]_vars
  PROVE  PromiseInv' /\ [Promise!Next]_(Promise!vars)
  <1>0. UNCHANGED stdout => /\ \A kind : Written(kind)' = Written(kind)
                            /\ Intact' = Intact
    BY DEF Written, Whole, Intact
  <1>1. ASSUME UNCHANGED <<stdout, taken, broken>>,
               \/ pc' = pc
               \/ pc = "initialize" /\ pc' \in {"ready", "report"}
               \/ pc = "read" /\ pc' \in {"complete", "report"}
               \/ pc \in {"ready", "run", "complete"} /\ pc' \in {"report", "aborted"}
        PROVE  PromiseInv' /\ [Promise!Next]_(Promise!vars)
    <2>1. /\ ~broken' => Intact'
          /\ broken' \in BOOLEAN
      BY <1>0, <1>1 DEF PromiseInv, Typed, TypeOK
    <2> QED
      BY <1>0, <1>1, <2>1, SilentStep
  <1>2. CASE UNCHANGED vars \/ Host
    BY <1>1, <1>2
       DEF vars, guest, host, Host, Feed, Initialize, SendBatch, EndPort, EndAll, Cancel,
           CloseStdin, HostReads, HostLeaves
  <1>3. CASE ReadInitialize \/ ReadFails \/ RunnerFails \/ Panic
    <2>1. UNCHANGED <<stdout, taken, broken>>
      BY <1>3 DEF ReadInitialize, ReadFails, RunnerFails, Panic
    <2>2. \/ pc = "initialize" /\ pc' \in {"ready", "report"}
          \/ pc = "read" /\ pc' \in {"complete", "report"}
          \/ pc \in {"ready", "run", "complete"} /\ pc' \in {"report", "aborted"}
      BY <1>3 DEF ReadInitialize, ReadFails, RunnerFails, Panic, Goto
    <2> QED
      BY <1>1, <2>1, <2>2
  <1>4. CASE ReadFrame
    <2>1. CASE pc' \in {"complete", "report"} /\ UNCHANGED taken
      <3>1. pc = "read" /\ UNCHANGED <<stdout, broken>>
        BY <1>4 DEF ReadFrame
      <3> QED
        BY <1>1, <2>1, <3>1
    <2>2. CASE pc' = "run" /\ taken' = Append(taken, batch')
      <3>1. pc = "read" /\ UNCHANGED <<stdout, broken>>
        BY <1>4 DEF ReadFrame
      <3>2. \A kind : Written(kind)' = Written(kind)
        BY <1>0, <3>1
      <3>3. Answers' = Answers
        BY <3>2 DEF Answers
      <3>4. Len(taken') = Len(taken) + 1 /\ Len(taken) \in Nat
        <4>1. batch' \in Batches
          BY <2>2 DEF Typed
        <4> QED
          BY <2>2, <4>1, TakenLength, AppendProperties
      <3>5. Len(taken) = Cardinality(Answers)
        BY <3>1 DEF PromiseInv
      <3>6. ~broken /\ Intact' = Intact /\ ~broken' /\ Written("completed") = {}
        BY <1>0, <3>1 DEF PromiseInv
      <3>7. PromiseInv'
        BY <2>2, <3>1, <3>2, <3>3, <3>4, <3>5, <3>6 DEF PromiseInv
      <3>8. Promise!Take
        BY <2>2, <3>1, <3>2, <3>4, <3>5, <3>6 DEF Promise!Take, PromiseInv, Answers
      <3> QED
        BY <3>1, <3>6, <3>7, <3>8 DEF Promise!Next
    <2> QED
      BY <1>4, <2>1, <2>2 DEF ReadFrame, AtTheEnd, Goto
  <1>5. CASE WriteReady
    BY <1>5, ReadyStep DEF WriteReady, Goto, host
  <1>6. CASE WriteOutput
    BY <1>6, OutputStep DEF WriteOutput, Goto, host
  <1>7. CASE WriteCompleted
    BY <1>7, CompletedStep DEF WriteCompleted, Goto, host
  <1>8. CASE WriteFailed
    BY <1>8, FailedStep DEF WriteFailed, Goto, host
  <1>9. CASE WriteFails \/ ReportFails
    BY <1>9, FailingStep
  <1> QED
    BY <1>2, <1>3, <1>4, <1>5, <1>6, <1>7, <1>8, <1>9 DEF Next, Guest

LEMMA PromiseInvariant == Spec => []PromiseInv
  <1>1. Init => PromiseInv
    BY InitPromise
  <1>2. Typed /\ Typed' /\ PromiseInv /\ [Next]_vars => PromiseInv'
    BY NextPromise
  <1> QED
    BY <1>1, <1>2, TypedInvariant, PTL DEF Spec

(* Whatever fails and whenever the host stops, what the host can read is that*)
(* the guest is ready before it answers, answers each batch before it takes  *)
(* the next, and ends with one verdict and nothing after it; and once a write*)
(* has failed, the guest takes nothing more and adds nothing but that it     *)
(* failed (lib.rs:107-171, 251-259).                                         *)
THEOREM PromiseKept == Spec => KeepsPromise
  <1>1. Init => Promise!Init
    BY InitPromise
  <1>2. Typed /\ Typed' /\ PromiseInv /\ [Next]_vars => [Promise!Next]_(Promise!vars)
    BY NextPromise
  <1> QED
    BY <1>1, <1>2, TypedInvariant, PromiseInvariant, PTL DEF Spec, KeepsPromise, Promise!Spec

-----------------------------------------------------------------------------
(* Completion, for a host that sends no batch once it has ended a port.      *)

Given(f) == \E i \in 1 .. Len(stdin) : stdin[i] = f
Answered(p, n) == \E i \in Answers : stdout[i].port = p /\ stdout[i].n = n

(* Once an end marker is on its way a port has ended, and no batch is behind *)
(* the marker.                                                               *)
EndInv ==
    \A i \in 1 .. Len(stdin) : stdin[i].kind = "input_end" =>
        /\ ended # {}
        /\ \A j \in i .. Len(stdin) : stdin[j].kind # "input_batch"

(* A batch that was sent was answered, is with the runner, or is to come.    *)
AccountInv ==
    pc \notin {"report", "failure", "aborted"} =>
        \A p \in Ports, n \in 1 .. MaxBatches : n <= sent[p] =>
            \/ Answered(p, n)
            \/ pc = "run" /\ batch.port = p /\ batch.n = n
            \/ pc \notin {"complete", "success"} /\ Given(In("input_batch", p, n))

DoneInv == pc \in {"complete", "success"} => ended # {}

ConsumedInv == EndInv /\ AccountInv /\ DoneInv

(* A completion that the host can read stays true, whatever came of writing  *)
(* it.                                                                       *)
ClosedInv ==
    Written("completed") # {} =>
        /\ ended # {}
        /\ \A p \in Ports, n \in 1 .. MaxBatches : n <= sent[p] => Answered(p, n)

LEMMA AnsweredStays ==
  ASSUME Typed, [Next]_vars, NEW p, NEW n, Answered(p, n)
  PROVE  Answered(p, n)'
  <1>1. CASE UNCHANGED stdout
    BY <1>1 DEF Answered, Answers, Written, Whole
  <1>2. CASE \E f \in OutFrame : Put(f) /\ UNCHANGED hostRead
    <2>1. /\ Len(stdout') = Len(stdout) + 1 /\ Len(stdout) \in Nat
          /\ \A i \in 1 .. Len(stdout) : stdout'[i] = stdout[i]
      BY <1>2, Putting
    <2>2. PICK i \in 1 .. Len(stdout) :
            /\ stdout[i].kind = "output_batch" /\ stdout[i].port = p /\ stdout[i].n = n
            /\ Whole(i)
      BY DEF Answered, Answers, Written
    <2>3. i \in 1 .. Len(stdout') /\ \A j \in 1 .. i : stdout'[j] = stdout[j]
      BY <2>1, <2>2
    <2>4. i \in 1 .. i
      BY <2>2
    <2> QED
      BY <2>2, <2>3, <2>4 DEF Answered, Answers, Written, Whole
  <1>3. CASE Guest
    <2>1. UNCHANGED hostRead
      BY <1>3
         DEF Guest, ReadInitialize, ReadFrame, ReadFails, WriteReady, WriteOutput,
             WriteCompleted, WriteFailed, RunnerFails, WriteFails, ReportFails, Panic, host
    <2> QED
      BY <1>1, <1>2, <1>3, <2>1, Writing
  <1>4. CASE Host \/ UNCHANGED vars
    BY <1>1, <1>4
       DEF Host, Feed, Initialize, SendBatch, EndPort, EndAll, Cancel, CloseStdin, HostReads,
           HostLeaves, vars
  <1> QED
    BY <1>3, <1>4 DEF Next

LEMMA InitConsumed == Init => ConsumedInv /\ ClosedInv
  <1> SUFFICES ASSUME Init PROVE ConsumedInv /\ ClosedInv
    OBVIOUS
  <1>1. Len(stdin) = 0 /\ pc = "initialize" /\ \A p \in Ports : sent[p] = 0
    BY EmptySeq DEF Init
  <1>2. \A n \in 1 .. MaxBatches : ~(n <= 0)
    BY BoundsAssumption
  <1>3. Written("completed") = {}
    BY InitPromise DEF Init, PromiseInv
  <1> QED
    BY <1>1, <1>2, <1>3 DEF ConsumedInv, EndInv, AccountInv, DoneInv, ClosedInv

(* The guest's steps.                                                        *)
LEMMA GuestConsumes ==
  ASSUME Typed, PromiseInv, ConsumedInv, Guest, [Next]_vars
  PROVE  ConsumedInv'
  <1>1. UNCHANGED <<ended, sent>>
    BY DEF Guest, ReadInitialize, ReadFrame, ReadFails, WriteReady, WriteOutput, WriteCompleted,
           WriteFailed, RunnerFails, WriteFails, ReportFails, Panic, host
  <1>2. CASE ReadInitialize \/ ReadFrame
    <2>1. /\ Len(stdin') \in Nat /\ Len(stdin) = Len(stdin') + 1
          /\ Head(stdin) = stdin[1] /\ Head(stdin) \in InFrame
          /\ \A i \in 1 .. Len(stdin') : stdin'[i] = stdin[i + 1]
      BY <1>2, Taking DEF ReadInitialize, ReadFrame
    <2>2. EndInv'
      <3> SUFFICES ASSUME NEW i \in 1 .. Len(stdin'), stdin'[i].kind = "input_end"
                   PROVE  /\ ended # {}
                          /\ \A j \in i .. Len(stdin') : stdin'[j].kind # "input_batch"
        BY <1>1 DEF EndInv
      <3>1. i + 1 \in 1 .. Len(stdin) /\ stdin[i + 1].kind = "input_end"
        BY <2>1
      <3>2. \A j \in i .. Len(stdin') : j + 1 \in i + 1 .. Len(stdin) /\ stdin'[j] = stdin[j + 1]
        BY <2>1
      <3> QED
        BY <3>1, <3>2 DEF ConsumedInv, EndInv
    <2>3. \A f : Given(f) => f = Head(stdin) \/ Given(f)'
      <3> SUFFICES ASSUME NEW f, Given(f), f # Head(stdin) PROVE Given(f)'
        OBVIOUS
      <3>1. PICK i \in 1 .. Len(stdin) : stdin[i] = f
        BY DEF Given
      <3>2. i # 1 /\ i - 1 \in 1 .. Len(stdin') /\ stdin'[i - 1] = stdin[(i - 1) + 1]
        BY <2>1, <3>1
      <3>3. (i - 1) + 1 = i
        OBVIOUS
      <3> QED
        BY <3>1, <3>2, <3>3 DEF Given
    <2>4. CASE pc' = "report"
      BY <1>1, <2>2, <2>4 DEF ConsumedInv, AccountInv, DoneInv
    <2>5. CASE pc' = "ready" \/ (pc' = "run" /\ Head(stdin).kind = "input_batch")
      <3>1. /\ pc' = "ready" => Head(stdin).kind = "initialize"
            /\ pc' = "run" => pc = "read" /\ batch' = [port |-> Head(stdin).port, n |-> Head(stdin).n]
            /\ pc \in {"initialize", "read"}
        BY <1>2, <2>5 DEF ReadInitialize, ReadFrame, Initializes, AtTheEnd, Goto
      <3>2. ASSUME NEW p \in Ports, NEW n \in 1 .. MaxBatches, n <= sent[p]
            PROVE  \/ Answered(p, n)'
                   \/ pc' = "run" /\ batch'.port = p /\ batch'.n = n
                   \/ Given(In("input_batch", p, n))'
        <4>1. Answered(p, n) \/ Given(In("input_batch", p, n))
          BY <3>1, <3>2 DEF ConsumedInv, AccountInv
        <4>2. CASE Answered(p, n)
          BY <4>2, AnsweredStays
        <4>3. CASE In("input_batch", p, n) = Head(stdin)
          <5>1. /\ Head(stdin).kind = "input_batch" /\ Head(stdin).port = p
                /\ Head(stdin).n = n
            BY <4>3 DEF In
          <5> QED
            BY <2>5, <3>1, <5>1
        <4> QED
          BY <2>3, <4>1, <4>2, <4>3
      <3>3. AccountInv' /\ DoneInv'
        BY <1>1, <2>5, <3>2 DEF AccountInv, DoneInv
      <3> QED
        BY <2>2, <3>3 DEF ConsumedInv
    <2>6. CASE pc' = "complete" /\ Head(stdin).kind = "input_end"
      <3>1. pc = "read"
        BY <1>2, <2>6 DEF ReadInitialize, ReadFrame, Goto
      <3>2. 1 \in 1 .. Len(stdin) /\ stdin[1].kind = "input_end"
        BY <2>1, <2>6
      <3>3. ended # {} /\ \A j \in 1 .. Len(stdin) : stdin[j].kind # "input_batch"
        BY <3>2 DEF ConsumedInv, EndInv
      <3>4. ASSUME NEW p \in Ports, NEW n \in 1 .. MaxBatches, n <= sent[p]
            PROVE  Answered(p, n)'
        <4>1. ~Given(In("input_batch", p, n))
          BY <3>3 DEF Given, In
        <4>2. Answered(p, n)
          BY <3>1, <3>4, <4>1 DEF ConsumedInv, AccountInv
        <4> QED
          BY <4>2, AnsweredStays
      <3>5. AccountInv' /\ DoneInv'
        BY <1>1, <3>3, <3>4 DEF AccountInv, DoneInv
      <3> QED
        BY <2>2, <3>5 DEF ConsumedInv
    <2>7. CASE ReadInitialize
      BY <2>4, <2>5, <2>7 DEF ReadInitialize, Goto
    <2>8. CASE ReadFrame
      BY <2>4, <2>5, <2>6, <2>8 DEF ReadFrame, Ends, AtTheEnd, Goto
    <2> QED
      BY <1>2, <2>7, <2>8
  <1>3. CASE UNCHANGED stdin /\ (Guest /\ ~ReadInitialize /\ ~ReadFrame)
    <2>1. EndInv'
      BY <1>1, <1>3 DEF ConsumedInv, EndInv
    <2>2. \A f : Given(f)' = Given(f)
      BY <1>3 DEF Given
    <2>3. CASE pc' \in {"report", "failure", "aborted"}
      BY <2>1, <2>3 DEF ConsumedInv, AccountInv, DoneInv
    <2>4. CASE WriteReady \/ WriteCompleted
      <3>1. /\ (pc = "ready" /\ pc' = "read") \/ (pc = "complete" /\ pc' = "success")
            /\ DoneInv /\ AccountInv
        BY <2>4 DEF WriteReady, WriteCompleted, Goto, ConsumedInv
      <3>2. ASSUME NEW p \in Ports, NEW n \in 1 .. MaxBatches, n <= sent[p]
            PROVE  \/ Answered(p, n)'
                   \/ pc' \notin {"complete", "success"} /\ Given(In("input_batch", p, n))'
        <4>1. \/ Answered(p, n)
              \/ pc = "ready" /\ Given(In("input_batch", p, n))
          BY <3>1, <3>2 DEF AccountInv
        <4> QED
          BY <2>2, <3>1, <4>1, AnsweredStays
      <3>3. AccountInv' /\ DoneInv'
        BY <1>1, <3>1, <3>2 DEF AccountInv, DoneInv
      <3> QED
        BY <2>1, <3>3 DEF ConsumedInv
    <2>5. CASE WriteOutput
      <3>1. /\ Due \in OutFrame /\ Put(Due) /\ UNCHANGED hostRead /\ Due.kind = "output_batch"
            /\ Due.port = batch.port /\ Due.n = batch.n
            /\ pc = "run" /\ pc' = "read" /\ Intact
        BY <2>5, FramesTyped DEF WriteOutput, host, Goto, Due, Out, PromiseInv
      <3>2. ASSUME NEW p \in Ports, NEW n \in 1 .. MaxBatches, batch.port = p, batch.n = n
            PROVE  Answered(p, n)'
        <4>1. /\ Len(stdout') = Len(stdout) + 1 /\ Len(stdout) \in Nat
              /\ stdout'[Len(stdout) + 1] = Due
          BY <3>1, Putting
        <4>2. Len(stdout) + 1 \in 1 .. Len(stdout')
          BY <4>1
        <4>3. Len(stdout) + 1 \in Answers'
          BY <3>1, WrittenGrows DEF Answers
        <4> QED
          BY <3>1, <3>2, <4>1, <4>3 DEF Answered
      <3>3. ASSUME NEW p \in Ports, NEW n \in 1 .. MaxBatches, n <= sent[p]
            PROVE  Answered(p, n)' \/ Given(In("input_batch", p, n))'
        <4>1. \/ Answered(p, n)
              \/ batch.port = p /\ batch.n = n
              \/ Given(In("input_batch", p, n))
          BY <3>1, <3>3 DEF ConsumedInv, AccountInv
        <4> QED
          BY <2>2, <3>2, <4>1, AnsweredStays
      <3>4. AccountInv' /\ DoneInv'
        BY <1>1, <3>1, <3>3 DEF AccountInv, DoneInv
      <3> QED
        BY <2>1, <3>4 DEF ConsumedInv
    <2> QED
      BY <1>3, <2>3, <2>4, <2>5
         DEF Guest, ReadFails, WriteFailed, RunnerFails, WriteFails, ReportFails, Panic, Goto,
             Propagate
  <1> QED
    BY <1>2, <1>3
       DEF Guest, ReadFails, WriteReady, WriteOutput, WriteCompleted, WriteFailed, RunnerFails,
           WriteFails, ReportFails, Panic

(* The host's steps.                                                         *)
LEMMA HostConsumes ==
  ASSUME BatchesFirst, Typed, ConsumedInv, Host, [Next]_vars
  PROVE  ConsumedInv'
  <1>1. UNCHANGED <<pc, batch, stdout>>
    BY DEF Host, Feed, Initialize, SendBatch, EndPort, EndAll, Cancel, CloseStdin, HostReads,
           HostLeaves, host, guest
  <1>2. \A p, n : Answered(p, n) => Answered(p, n)'
    BY AnsweredStays
  <1>3. CASE UNCHANGED <<stdin, sent, ended>>
    <2>1. \A f : Given(f)' = Given(f)
      BY <1>3 DEF Given
    <2>2. EndInv' /\ DoneInv'
      BY <1>1, <1>3 DEF ConsumedInv, EndInv, DoneInv
    <2>3. AccountInv'
      BY <1>1, <1>2, <1>3, <2>1 DEF ConsumedInv, AccountInv
    <2> QED
      BY <2>2, <2>3 DEF ConsumedInv
  <1>4. ASSUME NEW f \in InFrame, Meant(f), Give(f), f.kind # "input_batch", UNCHANGED sent,
               ended \subseteq ended', f.kind = "input_end" => ended' # {}
        PROVE  ConsumedInv'
    <2>1. /\ Len(stdin') = Len(stdin) + 1 /\ Len(stdin) \in Nat
          /\ \A i \in 1 .. Len(stdin) : stdin'[i] = stdin[i]
          /\ stdin'[Len(stdin) + 1] = f
      BY <1>4, Giving
    <2>2. \A g : Given(g) => Given(g)'
      BY <2>1 DEF Given
    <2>3. EndInv'
      <3> SUFFICES ASSUME NEW i \in 1 .. Len(stdin'), stdin'[i].kind = "input_end"
                   PROVE  /\ ended' # {}
                          /\ \A j \in i .. Len(stdin') : stdin'[j].kind # "input_batch"
        BY DEF EndInv
      <3>1. \A j \in i .. Len(stdin') : j \in i .. Len(stdin) \/ j = Len(stdin) + 1
        BY <2>1
      <3>2. CASE i = Len(stdin) + 1
        <4>1. \A j \in i .. Len(stdin') : stdin'[j] = f
          BY <2>1, <3>2
        <4> QED
          BY <1>4, <2>1, <3>2, <4>1
      <3>3. CASE i \in 1 .. Len(stdin)
        <4>1. ended # {} /\ \A j \in i .. Len(stdin) : stdin[j].kind # "input_batch"
          BY <2>1, <3>3 DEF ConsumedInv, EndInv
        <4>2. \A j \in i .. Len(stdin) : stdin'[j] = stdin[j]
          BY <2>1, <3>3
        <4> QED
          BY <1>4, <2>1, <3>1, <4>1, <4>2
      <3> QED
        BY <2>1, <3>2, <3>3
    <2>4. DoneInv'
      BY <1>1, <1>4 DEF ConsumedInv, DoneInv
    <2>5. AccountInv'
      BY <1>1, <1>2, <1>4, <2>2 DEF ConsumedInv, AccountInv
    <2> QED
      BY <2>3, <2>4, <2>5 DEF ConsumedInv
  <1>5. ASSUME NEW p \in Ports, SendBatch(p)
        PROVE  ConsumedInv'
    <2> DEFINE f == In("input_batch", p, sent[p] + 1)
    <2>1. /\ sent \in [Ports -> 0 .. MaxBatches] /\ ended = {} /\ sent[p] < MaxBatches
          /\ UNCHANGED ended /\ Give(f) /\ sent' = [sent EXCEPT ![p] = @ + 1]
      BY <1>5 DEF Typed, TypeOK, SendBatch, BatchesFirst
    <2>2. sent[p] + 1 \in 1 .. MaxBatches
      BY <2>1, BoundsAssumption
    <2>3. f \in InFrame /\ Meant(f)
      BY <2>2, FramesTyped DEF Meant, In
    <2>4. /\ Len(stdin') = Len(stdin) + 1 /\ Len(stdin) \in Nat
          /\ \A i \in 1 .. Len(stdin) : stdin'[i] = stdin[i]
          /\ stdin'[Len(stdin) + 1] = f
      BY <2>1, <2>3, Giving
    <2>5. \A g : Given(g) => Given(g)'
      BY <2>4 DEF Given
    <2>6. \A n \in Nat : n = sent[p] + 1 => Given(In("input_batch", p, n))'
      <3>1. Len(stdin) + 1 \in 1 .. Len(stdin')
        BY <2>4
      <3>2. \A g : stdin'[Len(stdin) + 1] = g => Given(g)'
        BY <3>1 DEF Given
      <3> QED
        BY <2>4, <3>2
    <2>7. EndInv'
      <3> SUFFICES ASSUME NEW i \in 1 .. Len(stdin'), stdin'[i].kind = "input_end"
                   PROVE  FALSE
        BY DEF EndInv
      <3>1. i \in 1 .. Len(stdin)
        <4>1. f.kind = "input_batch"
          BY DEF In
        <4> QED
          BY <2>4, <4>1
      <3> QED
        BY <2>1, <2>4, <3>1 DEF ConsumedInv, EndInv
    <2>8. DoneInv' /\ pc \notin {"complete", "success"}
      BY <1>1, <2>1 DEF ConsumedInv, DoneInv
    <2>9. ASSUME NEW q \in Ports, NEW n \in 1 .. MaxBatches, n <= sent'[q],
                 pc \notin {"report", "failure", "aborted"}
          PROVE  \/ Answered(q, n)
                 \/ pc = "run" /\ batch.port = q /\ batch.n = n
                 \/ Given(In("input_batch", q, n))'
      <3>1. CASE n <= sent[q]
        BY <2>5, <2>9, <3>1 DEF ConsumedInv, AccountInv
      <3>2. CASE ~(n <= sent[q])
        <4>1. q = p /\ n = sent[p] + 1 /\ n \in Nat
          BY <2>1, <2>9, <3>2, BoundsAssumption
        <4> QED
          BY <2>6, <4>1
      <3> QED
        BY <3>1, <3>2
    <2>10. AccountInv'
      BY <1>1, <1>2, <2>8, <2>9 DEF AccountInv
    <2> QED
      BY <2>7, <2>8, <2>10 DEF ConsumedInv
  <1>6. CASE Initialize \/ Cancel \/ EndAll
    <2>1. PICK f \in InFrame : Meant(f) /\ Give(f) /\ f.kind # "input_batch"
              /\ (f.kind = "input_end" => ended' # {})
      <3>1. CASE Initialize
        BY <3>1, FramesTyped DEF Initialize, Meant, In
      <3>2. CASE Cancel
        BY <3>2, FramesTyped DEF Cancel, Meant, In
      <3>3. CASE EndAll
        BY <3>3, FramesTyped DEF EndAll, Meant, In
      <3> QED
        BY <1>6, <3>1, <3>2, <3>3
    <2>2. UNCHANGED sent /\ ended \subseteq ended'
      BY <1>6 DEF Initialize, Cancel, EndAll, host
    <2> QED
      BY <1>4, <2>1, <2>2
  <1>7. ASSUME NEW p \in Ports, EndPort(p)
        PROVE  ConsumedInv'
    <2>1. /\ In("input_end", p, 0) \in InFrame /\ Meant(In("input_end", p, 0))
          /\ In("input_end", p, 0).kind = "input_end" /\ Give(In("input_end", p, 0))
      BY <1>7, FramesTyped DEF EndPort, Meant, In
    <2>2. UNCHANGED sent /\ ended' = ended \cup {p}
      BY <1>7 DEF EndPort
    <2>3. ended \subseteq ended' /\ ended' # {}
      BY <2>2
    <2>4. PICK f \in InFrame : Meant(f) /\ Give(f) /\ f.kind # "input_batch"
      BY <2>1
    <2> QED
      BY <1>4, <2>2, <2>3, <2>4
  <1>8. CASE CloseStdin \/ HostReads \/ HostLeaves
    BY <1>3, <1>8 DEF CloseStdin, HostReads, HostLeaves
  <1> QED
    BY <1>5, <1>6, <1>7, <1>8 DEF Host, Feed

LEMMA NextConsumes ==
  ASSUME Typed, PromiseInv, ConsumedInv, [Next /\ BatchesFirst]_vars
  PROVE  ConsumedInv'
  <1>1. CASE UNCHANGED vars
    <2>1. UNCHANGED <<stdin, ended, sent, pc, batch, stdout>>
      BY <1>1 DEF vars, host, guest
    <2>2. /\ \A f : Given(f)' = Given(f)
          /\ \A p, n : Answered(p, n)' = Answered(p, n)
      BY <2>1 DEF Given, Answered, Answers, Written, Whole
    <2>3. EndInv' /\ DoneInv'
      BY <2>1 DEF ConsumedInv, EndInv, DoneInv
    <2>4. AccountInv'
      BY <2>1, <2>2 DEF ConsumedInv, AccountInv
    <2> QED
      BY <2>3, <2>4 DEF ConsumedInv
  <1> QED
    BY <1>1, GuestConsumes, HostConsumes DEF Next

LEMMA NextClosed ==
  ASSUME Typed, PromiseInv, ConsumedInv, ClosedInv, [Next /\ BatchesFirst]_vars
  PROVE  ClosedInv'
  <1>1. Guest \/ UNCHANGED vars => UNCHANGED <<ended, sent>>
    BY DEF Guest, ReadInitialize, ReadFrame, ReadFails, WriteReady, WriteOutput, WriteCompleted,
           WriteFailed, RunnerFails, WriteFails, ReportFails, Panic, host, vars
  <1>2. ASSUME Host, BatchesFirst
        PROVE  ended \subseteq ended' /\ (ended # {} => UNCHANGED sent)
    <2>1. ASSUME NEW p \in Ports, SendBatch(p)
          PROVE  ended = {} /\ UNCHANGED ended
      BY <1>2, <2>1 DEF BatchesFirst, SendBatch
    <2>2. CASE UNCHANGED sent /\ ended \subseteq ended'
      BY <2>2
    <2> QED
      BY <1>2, <2>1, <2>2
         DEF Host, Feed, Initialize, EndPort, EndAll, Cancel, CloseStdin, HostReads, HostLeaves,
             host
  <1>3. ended \subseteq ended' /\ (ended # {} => UNCHANGED sent)
    BY <1>1, <1>2 DEF Next
  <1>4. \A p, n : Answered(p, n) => Answered(p, n)'
    BY AnsweredStays
  <1>5. CASE Written("completed") # {}
    BY <1>3, <1>4, <1>5 DEF ClosedInv
  <1>6. CASE Written("completed") = {} /\ Written("completed")' # {}
    <2>1. stdout' # stdout
      BY <1>6 DEF Written, Whole
    <2>2. Guest
      <3>1. Host \/ UNCHANGED vars => UNCHANGED stdout
        BY DEF Host, Feed, Initialize, SendBatch, EndPort, EndAll, Cancel, CloseStdin,
               HostReads, HostLeaves, vars
      <3> QED
        BY <2>1, <3>1 DEF Next
    <2>3. PICK f \in OutFrame : Put(f) /\ f \in {Due, Torn}
      BY <2>1, <2>2, Writing
    <2>4. f.kind = "completed"
      <3>1. UNCHANGED hostRead
        BY <2>2
           DEF Guest, ReadInitialize, ReadFrame, ReadFails, WriteReady, WriteOutput,
               WriteCompleted, WriteFailed, RunnerFails, WriteFails, ReportFails, Panic, host
      <3>2. f.kind # "completed" => Written("completed")' = Written("completed")
        BY <2>3, <3>1, WrittenGrows
      <3> QED
        BY <1>6, <3>2
    <2>5. pc = "complete"
      <3>1. f = Due
        <4>1. Torn.kind = "torn"
          BY DEF Torn, Out
        <4> QED
          BY <2>3, <2>4, <4>1
      <3>2. Due.kind = IF pc = "ready" THEN "ready" ELSE IF pc = "run" THEN "output_batch"
                       ELSE IF pc = "complete" THEN "completed" ELSE "failed"
        BY DEF Due, Out
      <3> QED
        BY <2>4, <3>1, <3>2
    <2>6. /\ ended # {}
          /\ \A p \in Ports, n \in 1 .. MaxBatches : n <= sent[p] => Answered(p, n)
      BY <2>5 DEF ConsumedInv, AccountInv, DoneInv
    <2> QED
      BY <1>3, <1>4, <2>6 DEF ClosedInv
  <1>7. CASE Written("completed")' = {}
    BY <1>7 DEF ClosedInv
  <1> QED
    BY <1>5, <1>6, <1>7

LEMMA AnsweredIfClosed ==
  ASSUME Typed, ClosedInv
  PROVE  BatchesAnswered /\ (Written("completed") # {} => ended # {})
  <1> SUFFICES ASSUME Written("completed") # {}
               PROVE  /\ ended # {}
                      /\ \A p \in Ports : \A n \in 1 .. sent[p] :
                            \E i \in Written("output_batch") :
                               stdout[i].port = p /\ stdout[i].n = n
    BY DEF BatchesAnswered
  <1>1. ASSUME NEW p \in Ports, NEW n \in 1 .. sent[p]
        PROVE  n \in 1 .. MaxBatches /\ n <= sent[p]
    <2>1. sent[p] \in 0 .. MaxBatches
      BY DEF Typed, TypeOK
    <2> QED
      BY <2>1, BoundsAssumption
  <1> QED
    BY <1>1 DEF ClosedInv, Answered, Answers

(* A guest of any number of ports, whose host ends none before it has sent   *)
(* the batches of all, reports completion only once it has answered every    *)
(* batch: the first end marker (lib.rs:144) has them all before it.          *)
THEOREM CompletionAnswers == BatchesFirstSpec => []BatchesAnswered
  <1>1. BatchesFirstSpec => Spec
    <2>1. [Next /\ BatchesFirst]_vars => [Next]_vars
      OBVIOUS
    <2> QED
      BY <2>1, PTL DEF BatchesFirstSpec, Spec
  <1>2. BatchesFirstSpec => []Typed /\ []PromiseInv
    BY <1>1, TypedInvariant, PromiseInvariant, PTL
  <1>3. Typed /\ PromiseInv /\ (ConsumedInv /\ ClosedInv) /\ [Next /\ BatchesFirst]_vars
          => (ConsumedInv /\ ClosedInv)'
    BY NextConsumes, NextClosed
  <1> QED
    BY <1>2, <1>3, InitConsumed, AnsweredIfClosed, PTL DEF BatchesFirstSpec

-----------------------------------------------------------------------------
(* A node of one input port: no other is left to send to.                    *)

OnePort == \A p, q \in Ports : p = q

(* The last marker of all comes after those of the ports.                    *)
EndedInv == AllPorts \in ended => Ports \subseteq ended

LEMMA NextEnded ==
  ASSUME EndedInv, [Next]_vars
  PROVE  EndedInv'
  <1>1. CASE EndAll
    BY <1>1 DEF EndAll, EndedInv
  <1>2. ASSUME NEW p \in Ports, EndPort(p)
        PROVE  EndedInv'
    BY <1>2, PortsAssumption DEF EndPort, EndedInv
  <1>3. CASE UNCHANGED ended
    BY <1>3 DEF EndedInv
  <1>4. Guest => UNCHANGED ended
    BY DEF Guest, ReadInitialize, ReadFrame, ReadFails, WriteReady, WriteOutput, WriteCompleted,
           WriteFailed, RunnerFails, WriteFails, ReportFails, Panic, host
  <1>5. /\ Initialize \/ Cancel \/ CloseStdin \/ HostReads \/ HostLeaves => UNCHANGED ended
        /\ \A p \in Ports : SendBatch(p) => UNCHANGED ended
        /\ UNCHANGED vars => UNCHANGED ended
    BY DEF Initialize, SendBatch, Cancel, CloseStdin, HostReads, HostLeaves, host, vars
  <1> QED
    BY <1>1, <1>2, <1>3, <1>4, <1>5 DEF Next, Host, Feed

LEMMA EndOfOne ==
  ASSUME OnePort, EndedInv, Typed
  PROVE  BatchesFirst /\ (ended # {} => Ports \subseteq ended)
  <1>1. ended # {} => Ports \subseteq ended
    <2>1. ended \subseteq Ports \cup {AllPorts}
      BY DEF Typed, TypeOK
    <2> QED
      BY <2>1 DEF OnePort, EndedInv
  <1> QED
    BY <1>1 DEF BatchesFirst, SendBatch

(* A guest of one input port reports completion only at the end of its input *)
(* and once it has answered every batch (docs/runner-abi.md:42-44).          *)
THEOREM CompletionConsumes == OnePort => (Spec => []CompletedMeansConsumed)
  <1>1. Init => EndedInv
    BY DEF Init, EndedInv
  <1>2. EndedInv /\ [Next]_vars => EndedInv'
    BY NextEnded
  <1>3. Spec => []EndedInv
    BY <1>1, <1>2, PTL DEF Spec
  <1>4. ASSUME OnePort, EndedInv, Typed, PromiseInv, ConsumedInv, ClosedInv, [Next]_vars
        PROVE  ConsumedInv' /\ ClosedInv'
    BY <1>4, EndOfOne, NextConsumes, NextClosed
  <1>5. OnePort /\ EndedInv /\ Typed /\ ClosedInv => CompletedMeansConsumed
    BY EndOfOne, AnsweredIfClosed DEF CompletedMeansConsumed
  <1>6. OnePort => []OnePort
    <2>1. OnePort => OnePort'
      BY DEF OnePort
    <2> QED
      BY <2>1, PTL
  <1> QED
    BY <1>3, <1>4, <1>5, <1>6, InitConsumed, TypedInvariant, PromiseInvariant, PTL DEF Spec
=============================================================================
