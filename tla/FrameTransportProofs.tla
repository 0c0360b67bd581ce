------------------------- MODULE FrameTransportProofs -------------------------
(***************************************************************************)
(* Proofs about FrameTransport, for every limit, every size, any number of *)
(* senders and every way the stream takes and gives its bytes.             *)
(***************************************************************************)
EXTENDS FrameTransport, SequenceTheorems, TLAPS

(* The encoder writes nothing its reader refuses: the five comparisons of    *)
(* EncodeBatch, limitedWriter and writeFrame imply those of Decode and       *)
(* decodeBatch (transport.go:156-177, 220-226, 255-265, 325-340).            *)
THEOREM LimitsAgree ==
  ASSUME NEW m \in Messages, Fits(m), m.readable
  PROVE  Admits(Size(m)) /\ Decodes(m)
  <1>1. m \in Message
    BY MessagesAssumption
  <1>2. /\ m.kind \in {"control", "batch"}
        /\ m.metadata \in Nat \ {0} /\ m.body \in Nat \ {0}
    BY <1>1 DEF Message
  <1>3. Size(m) \in Nat
    BY <1>2, LimitsAssumption DEF Size
  <1>4. Admits(Size(m))
    BY <1>3, LimitsAssumption DEF Fits, Admits
  <1>5. CASE m.kind = "control"
    BY <1>4, <1>5 DEF Decodes
  <1>6. CASE m.kind = "batch"
    <2>1. Size(m) = LengthPrefix + m.metadata + m.body
      BY <1>6 DEF Size
    <2>2. m.metadata \in 1 .. MaxMetadata
      BY <1>2, <1>6, LimitsAssumption DEF Fits
    <2> QED
      BY <1>2, <1>4, <1>6, <2>1, <2>2, LimitsAssumption DEF Decodes
  <1> QED
    BY <1>2, <1>5, <1>6

-----------------------------------------------------------------------------
(* Who writes and what there is.                                             *)

At(n, part, i) == [n |-> n, part |-> part, i |-> i]

(* Frames of which a unit may have been written.                             *)
Begun ==
    IF encoderMu # NoSender /\ pc[encoderMu] = "header" /\ Done(encoderMu) = 0
    THEN Len(frames) - 1 ELSE Len(frames)

LengthIn(sent, u) == IF u.part = "header" THEN HeaderUnits ELSE Size(sent[u.n])
PartLength(u) == LengthIn(frames, u)

(* The holder of the mutex, and nobody else, writes the last frame.          *)
HoldInv ==
    /\ Len(frames) <= MaxFrames
    /\ \A s \in Senders :
          /\ pc[s] \in {"header", "payload"} <=> encoderMu = s
          /\ encoderMu # s => number[s] = 0 /\ left[s] = 0
          /\ encoderMu = s => /\ number[s] = Len(frames) /\ Len(frames) # 0
                              /\ left[s] \in 1 .. PartSize(s)

FitInv == \A i \in 1 .. Len(frames) : Fits(frames[i])

(* Units are of frames that were begun.                                      *)
UnitInv ==
    /\ \A i \in 1 .. Len(stream) :
          stream[i].n <= Begun /\ stream[i].i <= PartLength(stream[i])
    /\ \A i \in 1 .. Len(got) : got[i].n <= Begun /\ got[i].i <= PartLength(got[i])
    /\ phase = "payload" => expected \in 1 .. Begun
    /\ Len(got) <= Need

ResultInv ==
    \A i \in 1 .. Len(results) :
        /\ results[i].n <= Begun
        /\ results[i].n # 0 => results[i].ok = Decodes(frames[results[i].n])

Typed == TypeOK /\ HoldInv /\ FitInv /\ UnitInv /\ ResultInv

LEMMA SizePositive ==
  ASSUME NEW m \in Messages
  PROVE  Size(m) \in Nat \ {0}
  BY MessagesAssumption, LimitsAssumption DEF Message, Size

LEMMA FrameSize ==
  ASSUME TypeOK, NEW n \in 1 .. Len(frames)
  PROVE  frames[n] \in Messages /\ Size(frames[n]) \in Nat \ {0}
  <1>1. frames[n] \in Messages
    BY ElementOfSeq DEF TypeOK
  <1> QED
    BY <1>1, SizePositive

LEMMA FramesLength == TypeOK => Len(frames) \in Nat
  BY LenProperties DEF TypeOK

LEMMA DecodesBoolean ==
  ASSUME NEW m \in Messages
  PROVE  Decodes(m) \in BOOLEAN
  <1>1. m.readable \in BOOLEAN /\ m.kind \in {"control", "batch"}
    BY MessagesAssumption DEF Message
  <1> QED
    BY <1>1 DEF Decodes

LEMMA UnitsTyped ==
  ASSUME NEW n \in 1 .. MaxFrames, NEW part \in {"header", "payload"},
         NEW from \in Nat, NEW count \in Nat
  PROVE  /\ Units(n, part, from, count) \in Seq(Unit)
         /\ Len(Units(n, part, from, count)) = count
         /\ \A i \in 1 .. count : Units(n, part, from, count)[i] = At(n, part, from + i)
  <1>1. \A i \in 1 .. count : [n |-> n, part |-> part, i |-> from + i] \in Unit
    BY DEF Unit
  <1> QED
    BY <1>1 DEF Units, At

(* What a sender that writes has at hand.                                    *)
LEMMA Writing ==
  ASSUME TypeOK, HoldInv, NEW s \in Senders, pc[s] \in {"header", "payload"}
  PROVE  /\ encoderMu = s /\ encoderMu # NoSender
         /\ number[s] = Len(frames) /\ Len(frames) \in 1 .. MaxFrames
         /\ PartSize(s) \in Nat \ {0} /\ left[s] \in 1 .. PartSize(s)
         /\ Done(s) \in 0 .. PartSize(s) - 1 /\ Done(s) + left[s] = PartSize(s)
         /\ PartSize(s) = PartLength(At(number[s], pc[s], 1))
         /\ Begun \in {Len(frames) - 1, Len(frames)}
         /\ Begun = Len(frames) \/ (pc[s] = "header" /\ Done(s) = 0)
  <1>1. encoderMu = s /\ encoderMu # NoSender /\ number[s] = Len(frames) /\ Len(frames) # 0
        /\ left[s] \in 1 .. PartSize(s)
    BY SendersAssumption DEF HoldInv
  <1>2. Len(frames) \in 1 .. MaxFrames
    BY <1>1, FramesLength, BoundsAssumption DEF HoldInv
  <1>3. PartSize(s) \in Nat \ {0}
    BY <1>1, <1>2, FrameSize, LimitsAssumption DEF PartSize
  <1>4. Done(s) \in 0 .. PartSize(s) - 1 /\ Done(s) + left[s] = PartSize(s)
    BY <1>1, <1>3 DEF Done
  <1>5. PartSize(s) = PartLength(At(number[s], pc[s], 1))
    BY DEF PartSize, PartLength, LengthIn, At
  <1> QED
    BY <1>1, <1>2, <1>3, <1>4, <1>5 DEF Begun

(* What a write appends.                                                     *)
LEMMA PutUnits ==
  ASSUME TypeOK, HoldInv, NEW s \in Senders, pc[s] \in {"header", "payload"},
         NEW count \in 0 .. left[s], Put(s, count)
  PROVE  /\ stream' \in Seq(Unit)
         /\ Len(stream) \in Nat /\ Len(stream') = Len(stream) + count
         /\ \A i \in 1 .. Len(stream) : stream'[i] = stream[i]
         /\ \A i \in 1 .. count : stream'[Len(stream) + i] = At(number[s], pc[s], Done(s) + i)
  <1> DEFINE U == Units(number[s], pc[s], Done(s), count)
  <1>1. /\ number[s] \in 1 .. MaxFrames /\ Done(s) \in Nat /\ count \in Nat
        /\ pc[s] \in {"header", "payload"}
    BY Writing
  <1>2. /\ U \in Seq(Unit) /\ Len(U) = count
        /\ \A i \in 1 .. count : U[i] = At(number[s], pc[s], Done(s) + i)
    <2> HIDE DEF U
    <2>1. \A n \in 1 .. MaxFrames, part \in {"header", "payload"}, from \in Nat :
            /\ Units(n, part, from, count) \in Seq(Unit)
            /\ Len(Units(n, part, from, count)) = count
            /\ \A i \in 1 .. count :
                  Units(n, part, from, count)[i] = At(n, part, from + i)
      BY <1>1, UnitsTyped
    <2> QED
      BY <1>1, <2>1 DEF U
  <1>3. stream \in Seq(Unit) /\ stream' = stream \o U
    BY DEF Put, TypeOK
  <1>4. Len(stream) \in Nat
    BY <1>3, LenProperties
  <1> HIDE DEF U
  <1> QED
    BY <1>1, <1>2, <1>3, <1>4, ConcatProperties

(* Frames that were begun stay what they are.                                *)
Steady ==
    /\ Begun \in Nat /\ Begun' \in Nat /\ Begun <= Begun' /\ Begun <= Len(frames)
    /\ \A n \in 1 .. Begun : frames'[n] = frames[n]

LEMMA InitTyped == Init => Typed
  <1> SUFFICES ASSUME Init PROVE Typed
    OBVIOUS
  <1>1. TypeOK
    <2>1. /\ stream \in Seq(Unit) /\ got \in Seq(Unit)
          /\ frames \in Seq({m \in Messages : Size(m) <= EncoderLimit})
          /\ results \in Seq([n : 0 .. MaxFrames, ok : BOOLEAN])
      BY EmptySeq, Zenon DEF Init
    <2>2. torn \in 0 .. MaxFrames /\ expected \in 0 .. MaxFrames
      BY BoundsAssumption DEF Init
    <2>3. /\ pc \in [Senders -> {"idle", "lock", "header", "payload"}]
          /\ number \in [Senders -> 0 .. MaxFrames] /\ left \in [Senders -> Nat]
      BY BoundsAssumption DEF Init
    <2> QED
      BY <2>1, <2>2, <2>3 DEF Init, TypeOK
  <1>2. HoldInv /\ FitInv
    BY SendersAssumption, BoundsAssumption DEF Init, HoldInv, FitInv
  <1>3. UnitInv /\ ResultInv
    BY LimitsAssumption DEF Init, UnitInv, ResultInv, Need
  <1> QED
    BY <1>1, <1>2, <1>3 DEF Typed

(* The senders that do not hold the mutex, and the end of the process.       *)
Aside ==
    \/ \E s \in Senders : Start(s) \/ Refuse(s)
    \/ Exit
    \/ Quiet
    \/ UNCHANGED vars

LEMMA BegunTyped ==
  ASSUME TypeOK, HoldInv
  PROVE  Begun \in Nat /\ Begun <= Len(frames) /\ Len(frames) \in Nat
  <1>1. Len(frames) \in Nat
    BY FramesLength
  <1>2. encoderMu # NoSender => Len(frames) # 0
    BY DEF TypeOK, HoldInv
  <1> QED
    BY <1>1, <1>2 DEF Begun

LEMMA AsideLeaves ==
  ASSUME Typed, Aside
  PROVE  /\ UNCHANGED <<stream, encoderMu, frames, torn, number, left, phase, expected, got,
                        results>>
         /\ pc' \in [Senders -> {"idle", "lock", "header", "payload"}]
         /\ \A s \in Senders : pc[s] \in {"header", "payload"} => pc'[s] = pc[s]
         /\ \A s \in Senders : pc'[s] \in {"header", "payload"} => pc'[s] = pc[s]
         /\ closed' \in BOOLEAN /\ ended' = ended
  BY DEF Aside, Typed, TypeOK, Start, Refuse, Exit, Quiet, vars, sending, decoding

LEMMA AsideTyped ==
  ASSUME Typed, Aside
  PROVE  Typed' /\ Steady
  <1>1. TypeOK'
    BY AsideLeaves DEF Typed, TypeOK
  <1>2. \A s \in Senders : encoderMu = s => PartSize(s)' = PartSize(s) /\ Done(s)' = Done(s)
    BY AsideLeaves DEF PartSize, Done, Typed, HoldInv
  <1>3. HoldInv'
    <2>1. Len(frames)' <= MaxFrames
      BY AsideLeaves DEF Typed, HoldInv
    <2>2. ASSUME NEW s \in Senders
          PROVE  /\ (pc[s] \in {"header", "payload"} <=> encoderMu = s)'
                 /\ (encoderMu # s => number[s] = 0 /\ left[s] = 0)'
                 /\ (encoderMu = s => /\ number[s] = Len(frames) /\ Len(frames) # 0
                                      /\ left[s] \in 1 .. PartSize(s))'
      BY <1>2, AsideLeaves DEF Typed, HoldInv
    <2> QED
      BY <2>1, <2>2 DEF HoldInv
  <1>4. Begun' = Begun
    <2>1. CASE encoderMu = NoSender
      BY <2>1, AsideLeaves DEF Begun
    <2>2. CASE encoderMu \in Senders
      BY <1>2, <2>2, AsideLeaves DEF Begun, Typed, HoldInv
    <2> QED
      BY <2>1, <2>2 DEF Typed, TypeOK
  <1>5. FitInv' /\ UnitInv' /\ ResultInv'
    BY <1>4, AsideLeaves DEF Typed, FitInv, UnitInv, ResultInv, Need, PartLength, LengthIn
  <1>6. Steady
    BY <1>4, BegunTyped, AsideLeaves DEF Steady, Typed
  <1> QED
    BY <1>1, <1>3, <1>5, <1>6 DEF Typed

(* What was begun keeps its length while frames come and go at the end.      *)
LEMMA LengthKept ==
  ASSUME Steady, NEW u \in Unit, u.n <= Begun
  PROVE  LengthIn(frames', u) = LengthIn(frames, u)
  <1>1. u.n \in 1 .. Begun
    BY DEF Unit, Steady
  <1> QED
    BY <1>1 DEF Steady, LengthIn

LEMMA UnitsKept ==
  ASSUME Typed, Steady
  PROVE  /\ \A i \in 1 .. Len(stream) :
               stream[i].n <= Begun' /\ stream[i].i <= LengthIn(frames', stream[i])
         /\ \A i \in 1 .. Len(got) :
               got[i].n <= Begun' /\ got[i].i <= LengthIn(frames', got[i])
         /\ (phase = "payload" => expected \in 1 .. Begun' /\ frames'[expected] = frames[expected])
         /\ \A i \in 1 .. Len(results) :
               /\ results[i].n <= Begun'
               /\ results[i].n # 0 => results[i].ok = Decodes(frames'[results[i].n])
  <1>1. /\ \A i \in 1 .. Len(stream) : stream[i] \in Unit
        /\ \A i \in 1 .. Len(got) : got[i] \in Unit
        /\ \A i \in 1 .. Len(results) : results[i] \in [n : 0 .. MaxFrames, ok : BOOLEAN]
    BY ElementOfSeq DEF Typed, TypeOK
  <1>2. \A u \in Unit : u.n \in Nat
    BY DEF Unit
  <1>3. \A i \in 1 .. Len(stream) :
           stream[i].n <= Begun' /\ stream[i].i <= LengthIn(frames', stream[i])
    BY <1>1, <1>2, LengthKept DEF Typed, UnitInv, PartLength, Steady
  <1>4. \A i \in 1 .. Len(got) :
           got[i].n <= Begun' /\ got[i].i <= LengthIn(frames', got[i])
    BY <1>1, <1>2, LengthKept DEF Typed, UnitInv, PartLength, Steady
  <1>5. phase = "payload" => expected \in 1 .. Begun' /\ frames'[expected] = frames[expected]
    BY DEF Typed, UnitInv, Steady
  <1>6. ASSUME NEW i \in 1 .. Len(results)
        PROVE  /\ results[i].n <= Begun'
               /\ results[i].n # 0 => results[i].ok = Decodes(frames'[results[i].n])
    <2>1. results[i].n \in Nat /\ results[i].n <= Begun
      BY <1>1, BoundsAssumption DEF Typed, ResultInv
    <2>2. results[i].n # 0 => frames'[results[i].n] = frames[results[i].n]
      BY <2>1 DEF Steady
    <2> QED
      BY <2>1, <2>2 DEF Typed, ResultInv, Steady
  <1> QED
    BY <1>3, <1>4, <1>5, <1>6

(* The decoder's view is untouched by senders.                               *)
LEMMA SendersKeep ==
  ASSUME Typed, Steady, UNCHANGED decoding, stream' \in Seq(Unit),
         Len(stream') >= Len(stream),
         \A i \in 1 .. Len(stream) : stream'[i] = stream[i],
         \A i \in 1 .. Len(stream') :
            i > Len(stream) =>
            stream'[i].n <= Begun' /\ stream'[i].i <= LengthIn(frames', stream'[i])
  PROVE  UnitInv' /\ ResultInv'
  <1>1. /\ phase' = phase /\ expected' = expected /\ got' = got /\ results' = results
    BY DEF decoding
  <1>2. Need' = Need
    BY <1>1, UnitsKept DEF Need, Typed, TypeOK
  <1>3. ASSUME NEW i \in 1 .. Len(stream')
        PROVE  stream'[i].n <= Begun' /\ stream'[i].i <= LengthIn(frames', stream'[i])
    <2>1. Len(stream) \in Nat /\ Len(stream') \in Nat
      BY LenProperties DEF Typed, TypeOK
    <2> QED
      BY <1>3, <2>1, UnitsKept
  <1>4. UnitInv'
    BY <1>1, <1>2, <1>3, UnitsKept DEF UnitInv, PartLength, Typed
  <1>5. ResultInv'
    BY <1>1, UnitsKept DEF ResultInv
  <1> QED
    BY <1>4, <1>5

LEMMA AcquireTyped ==
  ASSUME Typed, NEW s \in Senders, Acquire(s)
  PROVE  Typed' /\ Steady /\ Begun' = Begun /\ Begun = Len(frames)
  <1>1. PICK m \in Messages : Fits(m) /\ frames' = Append(frames, m)
    BY DEF Acquire
  <1>2. /\ encoderMu = NoSender /\ encoderMu' = s /\ pc[s] = "lock"
        /\ number' = [number EXCEPT ![s] = Len(frames) + 1]
        /\ left' = [left EXCEPT ![s] = HeaderUnits]
        /\ pc' = [pc EXCEPT ![s] = "header"]
        /\ UNCHANGED <<stream, closed, torn, decoding>>
        /\ Len(frames) < MaxFrames
    BY DEF Acquire, Unlocked
  <1>3. Len(frames) \in Nat
    BY FramesLength DEF Typed
  <1>4. m \in {x \in Messages : Size(x) <= EncoderLimit}
    BY <1>1, LimitsAssumption DEF Fits
  <1>5. /\ frames' \in Seq({x \in Messages : Size(x) <= EncoderLimit})
        /\ Len(frames') = Len(frames) + 1
        /\ \A i \in 1 .. Len(frames) : frames'[i] = frames[i]
        /\ frames'[Len(frames) + 1] = m
    BY <1>1, <1>4, AppendProperties DEF Typed, TypeOK
  <1>6. TypeOK'
    <2>1. /\ number' \in [Senders -> 0 .. MaxFrames] /\ left' \in [Senders -> Nat]
          /\ pc' \in [Senders -> {"idle", "lock", "header", "payload"}]
      BY <1>2, <1>3, LimitsAssumption, BoundsAssumption DEF Typed, TypeOK
    <2> QED
      BY <1>2, <1>5, <2>1 DEF Typed, TypeOK, decoding
  <1>7. Begun = Len(frames)
    BY <1>2 DEF Begun
  <1>8. Done(s)' = 0 /\ PartSize(s)' = HeaderUnits
    BY <1>2, LimitsAssumption DEF Typed, TypeOK, Done, PartSize
  <1>9. Begun' = Len(frames)
    BY <1>2, <1>3, <1>5, <1>8, SendersAssumption DEF Begun, Typed, TypeOK
  <1>10. Steady
    BY <1>3, <1>5, <1>7, <1>9 DEF Steady
  <1>11. HoldInv'
    <2>1. Len(frames') <= MaxFrames
      BY <1>2, <1>3, <1>5, BoundsAssumption
    <2>2. ASSUME NEW r \in Senders
          PROVE  /\ (pc[r] \in {"header", "payload"} <=> encoderMu = r)'
                 /\ (encoderMu # r => number[r] = 0 /\ left[r] = 0)'
                 /\ (encoderMu = r => /\ number[r] = Len(frames) /\ Len(frames) # 0
                                      /\ left[r] \in 1 .. PartSize(r))'
      <3>1. CASE r = s
        BY <1>2, <1>3, <1>5, <1>8, <3>1, LimitsAssumption DEF Typed, TypeOK
      <3>2. CASE r # s
        BY <1>2, <3>2, SendersAssumption DEF Typed, TypeOK, HoldInv
      <3> QED
        BY <3>1, <3>2
    <2> QED
      BY <2>1, <2>2 DEF HoldInv
  <1>12. FitInv'
    <2> SUFFICES ASSUME NEW i \in 1 .. Len(frames) + 1
                 PROVE  Fits(frames'[i])
      BY <1>5 DEF FitInv
    <2> QED
      BY <1>1, <1>3, <1>5 DEF Typed, FitInv
  <1>13. UnitInv' /\ ResultInv'
    <2>1. stream' = stream /\ UNCHANGED decoding /\ stream \in Seq(Unit) /\ Len(stream) \in Nat
      BY <1>2, LenProperties DEF Typed, TypeOK
    <2> QED
      BY <1>10, <2>1, SendersKeep
  <1> QED
    BY <1>6, <1>7, <1>9, <1>10, <1>11, <1>12, <1>13 DEF Typed

(* A write that leaves the frame under way: what it appends and what is left.*)
LEMMA Onward ==
  ASSUME Typed, NEW s \in Senders, WriteSome(s) \/ WriteHeader(s)
  PROVE  \E count \in 1 .. left[s] :
          /\ Put(s, count)
          /\ \/ /\ count < left[s] /\ pc' = pc /\ left' = [left EXCEPT ![s] = @ - count]
             \/ /\ count = left[s] /\ pc[s] = "header"
                /\ pc' = [pc EXCEPT ![s] = "payload"]
                /\ left' = [left EXCEPT ![s] = Size(frames[number[s]])]
  <1>1. left[s] \in 1 .. PartSize(s) /\ PartSize(s) \in Nat
    BY Writing DEF WriteSome, WriteHeader, Typed
  <1>2. CASE WriteSome(s)
    <2>1. PICK count \in 1 .. left[s] - 1 :
            Put(s, count) /\ left' = [left EXCEPT ![s] = @ - count]
      BY <1>2 DEF WriteSome
    <2>2. count \in 1 .. left[s] /\ count < left[s]
      BY <1>1, <2>1
    <2> QED
      BY <1>2, <2>1, <2>2 DEF WriteSome
  <1>3. CASE WriteHeader(s)
    <2>1. left[s] \in 1 .. left[s]
      BY <1>1
    <2> QED
      BY <1>3, <2>1 DEF WriteHeader
  <1> QED
    BY <1>2, <1>3

LEMMA OnwardTyped ==
  ASSUME Typed, NEW s \in Senders, WriteSome(s) \/ WriteHeader(s)
  PROVE  Typed' /\ Steady
  <1> USE DEF Typed
  <1>1. pc[s] \in {"header", "payload"}
    BY DEF WriteSome, WriteHeader
  <1>2. /\ encoderMu = s /\ encoderMu # NoSender
        /\ number[s] = Len(frames) /\ Len(frames) \in 1 .. MaxFrames
        /\ PartSize(s) \in Nat \ {0} /\ left[s] \in 1 .. PartSize(s)
        /\ Done(s) \in 0 .. PartSize(s) - 1 /\ Done(s) + left[s] = PartSize(s)
        /\ PartSize(s) = PartLength(At(number[s], pc[s], 1))
    BY <1>1, Writing
  <1>3. UNCHANGED <<closed, encoderMu, frames, torn, number, decoding>>
    BY DEF WriteSome, WriteHeader
  <1>4. PICK count \in 1 .. left[s] :
          /\ Put(s, count)
          /\ \/ /\ count < left[s] /\ pc' = pc /\ left' = [left EXCEPT ![s] = @ - count]
             \/ /\ count = left[s] /\ pc[s] = "header"
                /\ pc' = [pc EXCEPT ![s] = "payload"]
                /\ left' = [left EXCEPT ![s] = Size(frames[number[s]])]
    BY Onward
  <1>5. /\ stream' \in Seq(Unit)
        /\ Len(stream) \in Nat /\ Len(stream') = Len(stream) + count
        /\ \A i \in 1 .. Len(stream) : stream'[i] = stream[i]
        /\ \A i \in 1 .. count : stream'[Len(stream) + i] = At(number[s], pc[s], Done(s) + i)
    BY <1>1, <1>4, PutUnits
  <1>6. Size(frames[number[s]]) \in Nat \ {0}
    BY <1>2, FrameSize
  <1>7. /\ left' \in [Senders -> Nat]
        /\ pc' \in [Senders -> {"idle", "lock", "header", "payload"}]
        /\ \A r \in Senders : r # s => pc'[r] = pc[r] /\ left'[r] = left[r]
        /\ pc'[s] \in {"header", "payload"}
    <2>1. left[s] \in Nat /\ left[s] - count \in Nat /\ count \in Nat
      BY <1>2, <1>4
    <2>2. CASE count < left[s] /\ pc' = pc /\ left' = [left EXCEPT ![s] = @ - count]
      BY <1>1, <2>1, <2>2 DEF TypeOK
    <2>3. CASE /\ count = left[s] /\ pc[s] = "header"
               /\ pc' = [pc EXCEPT ![s] = "payload"]
               /\ left' = [left EXCEPT ![s] = Size(frames[number[s]])]
      BY <1>6, <2>3 DEF TypeOK
    <2> QED
      BY <1>4, <2>2, <2>3
  <1>8. left'[s] \in 1 .. PartSize(s)' /\ (pc'[s] = "header" => left'[s] < HeaderUnits)
    <2>1. CASE count < left[s] /\ pc' = pc /\ left' = [left EXCEPT ![s] = @ - count]
      <3>1. left'[s] = left[s] - count /\ PartSize(s)' = PartSize(s)
        BY <1>3, <2>1 DEF TypeOK, PartSize
      <3>2. pc[s] = "header" => PartSize(s) = HeaderUnits
        BY DEF PartSize
      <3> QED
        BY <1>2, <2>1, <3>1, <3>2, LimitsAssumption
    <2>2. CASE /\ count = left[s] /\ pc[s] = "header"
               /\ pc' = [pc EXCEPT ![s] = "payload"]
               /\ left' = [left EXCEPT ![s] = Size(frames[number[s]])]
      BY <1>3, <1>6, <2>2 DEF TypeOK, PartSize
    <2> QED
      BY <1>4, <2>1, <2>2
  <1>9. TypeOK'
    BY <1>3, <1>5, <1>7 DEF TypeOK, decoding
  <1>10. HoldInv'
    <2>1. ASSUME NEW r \in Senders
          PROVE  /\ (pc[r] \in {"header", "payload"} <=> encoderMu = r)'
                 /\ (encoderMu # r => number[r] = 0 /\ left[r] = 0)'
                 /\ (encoderMu = r => /\ number[r] = Len(frames) /\ Len(frames) # 0
                                      /\ left[r] \in 1 .. PartSize(r))'
      BY <1>2, <1>3, <1>7, <1>8 DEF HoldInv
    <2> QED
      BY <1>3, <2>1 DEF HoldInv
  <1>11. FitInv'
    BY <1>3 DEF FitInv
  <1>12. Begun' = Len(frames)
    <2>1. pc'[s] = "header" => Done(s)' # 0
      BY <1>8, LimitsAssumption DEF Done, PartSize
    <2> QED
      BY <1>2, <1>3, <2>1 DEF Begun
  <1>13. Steady
    BY <1>3, <1>12, BegunTyped DEF Steady
  <1>14. UnitInv' /\ ResultInv'
    <2>1. ASSUME NEW i \in 1 .. Len(stream'), i > Len(stream)
          PROVE  stream'[i].n <= Begun' /\ stream'[i].i <= LengthIn(frames', stream'[i])
      <3> DEFINE e == i - Len(stream)
      <3>1. e \in 1 .. count /\ i = Len(stream) + e
        BY <1>5, <2>1
      <3>2. stream'[i] = At(number[s], pc[s], Done(s) + e)
        BY <1>5, <3>1
      <3>3. LengthIn(frames', stream'[i]) = PartSize(s)
        BY <1>2, <1>3, <3>2 DEF LengthIn, PartLength, At
      <3> QED
        BY <1>2, <1>4, <1>12, <3>1, <3>2, <3>3 DEF At
    <2>2. Len(stream') >= Len(stream)
      BY <1>5
    <2>3. UNCHANGED decoding
      BY <1>3
    <2> QED
      BY <1>5, <1>13, <2>1, <2>2, <2>3, SendersKeep
  <1> QED
    BY <1>9, <1>10, <1>11, <1>13, <1>14

(* A write that ends with the frame or with an error: what was appended, what*)
(* is left of the frames, and whether the frame was torn.                    *)
Withdrawn(s, count) == pc[s] = "header" /\ Done(s) + count = 0

LEMMA EndOfWrite ==
  ASSUME Typed, NEW s \in Senders, WritePayload(s) \/ WriteFails(s)
  PROVE  /\ pc[s] \in {"header", "payload"} /\ Return(s)
         /\ UNCHANGED <<closed, decoding>>
         /\ \E count \in 0 .. left[s] :
               /\ Put(s, count)
               /\ \/ /\ pc[s] = "payload" /\ count = left[s] /\ WritePayload(s)
                     /\ UNCHANGED <<frames, torn>>
                  \/ /\ Withdrawn(s, count) /\ WriteFails(s)
                     /\ frames' = SubSeq(frames, 1, Len(frames) - 1) /\ UNCHANGED torn
                  \/ /\ ~Withdrawn(s, count) /\ WriteFails(s)
                     /\ torn' = (IF torn = 0 THEN number[s] ELSE torn) /\ UNCHANGED frames
  <1>1. CASE WritePayload(s)
    <2>1. left[s] \in 0 .. left[s]
      BY <1>1, Writing DEF WritePayload, Typed
    <2> QED
      BY <1>1, <2>1 DEF WritePayload
  <1>2. CASE WriteFails(s)
    BY <1>2 DEF WriteFails, Withdrawn
  <1> QED
    BY <1>1, <1>2

LEMMA EndTyped ==
  ASSUME Typed, NEW s \in Senders, WritePayload(s) \/ WriteFails(s)
  PROVE  Typed' /\ Steady /\ encoderMu' = NoSender
  <1> USE DEF Typed
  <1>1. /\ pc[s] \in {"header", "payload"} /\ Return(s)
        /\ UNCHANGED <<closed, decoding>>
    BY EndOfWrite
  <1>2. PICK count \in 0 .. left[s] :
               /\ Put(s, count)
               /\ \/ /\ pc[s] = "payload" /\ count = left[s] /\ WritePayload(s)
                     /\ UNCHANGED <<frames, torn>>
                  \/ /\ Withdrawn(s, count) /\ WriteFails(s)
                     /\ frames' = SubSeq(frames, 1, Len(frames) - 1) /\ UNCHANGED torn
                  \/ /\ ~Withdrawn(s, count) /\ WriteFails(s)
                     /\ torn' = (IF torn = 0 THEN number[s] ELSE torn) /\ UNCHANGED frames
    BY EndOfWrite
  <1>3. /\ encoderMu = s /\ encoderMu # NoSender
        /\ number[s] = Len(frames) /\ Len(frames) \in 1 .. MaxFrames
        /\ PartSize(s) \in Nat \ {0} /\ left[s] \in 1 .. PartSize(s)
        /\ Done(s) \in 0 .. PartSize(s) - 1 /\ Done(s) + left[s] = PartSize(s)
        /\ PartSize(s) = PartLength(At(number[s], pc[s], 1))
    BY <1>1, Writing
  <1>4. /\ stream' \in Seq(Unit)
        /\ Len(stream) \in Nat /\ Len(stream') = Len(stream) + count
        /\ \A i \in 1 .. Len(stream) : stream'[i] = stream[i]
        /\ \A i \in 1 .. count : stream'[Len(stream) + i] = At(number[s], pc[s], Done(s) + i)
    BY <1>1, <1>2, PutUnits
  <1>5. /\ encoderMu' = NoSender
        /\ pc' = [pc EXCEPT ![s] = "idle"]
        /\ number' = [number EXCEPT ![s] = 0]
        /\ left' = [left EXCEPT ![s] = 0]
    BY <1>1 DEF Return, UnlockEncoder
  <1>6. \/ UNCHANGED frames
        \/ /\ count = 0 /\ Begun = Len(frames) - 1
           /\ frames' \in Seq({m \in Messages : Size(m) <= EncoderLimit})
           /\ Len(frames') = Len(frames) - 1
           /\ \A i \in 1 .. Len(frames) - 1 : frames'[i] = frames[i]
    <2>1. CASE Withdrawn(s, count) /\ frames' = SubSeq(frames, 1, Len(frames) - 1)
      <3>1. \A i \in 1 .. Len(frames) - 1 :
               frames[i] \in {m \in Messages : Size(m) <= EncoderLimit}
        BY <1>3, ElementOfSeq DEF TypeOK
      <3>2. Len(frames) - 1 \in Int /\ 1 \in Int
        BY <1>3
      <3>3. /\ frames' \in Seq({m \in Messages : Size(m) <= EncoderLimit})
            /\ Len(frames') = IF 1 <= Len(frames) - 1 THEN (Len(frames) - 1) - 1 + 1 ELSE 0
            /\ \A i \in 1 .. (Len(frames) - 1) - 1 + 1 : frames'[i] = frames[1 + i - 1]
        BY <2>1, <3>1, <3>2, SubSeqProperties
      <3>4. count = 0 /\ Done(s) = 0 /\ pc[s] = "header"
        BY <1>3, <2>1 DEF Withdrawn
      <3>5. Begun = Len(frames) - 1
        BY <1>3, <3>4 DEF Begun
      <3> QED
        BY <1>3, <3>3, <3>4, <3>5
    <2> QED
      BY <1>2, <2>1
  <1>7. Begun' = Len(frames')
    BY <1>5 DEF Begun
  <1>8. Steady
    BY <1>3, <1>6, <1>7, BegunTyped DEF Steady
  <1>9. TypeOK'
    <2>1. torn' \in 0 .. MaxFrames
      BY <1>2, <1>3 DEF TypeOK
    <2>2. /\ number' \in [Senders -> 0 .. MaxFrames] /\ left' \in [Senders -> Nat]
          /\ pc' \in [Senders -> {"idle", "lock", "header", "payload"}]
      BY <1>5, BoundsAssumption DEF TypeOK
    <2> QED
      BY <1>1, <1>4, <1>5, <1>6, <2>1, <2>2 DEF TypeOK, decoding
  <1>10. HoldInv'
    <2>1. Len(frames') <= MaxFrames
      BY <1>3, <1>6, BoundsAssumption
    <2>2. ASSUME NEW r \in Senders
          PROVE  /\ (pc[r] \in {"header", "payload"} <=> encoderMu = r)'
                 /\ (encoderMu # r => number[r] = 0 /\ left[r] = 0)'
                 /\ (encoderMu = r => /\ number[r] = Len(frames) /\ Len(frames) # 0
                                      /\ left[r] \in 1 .. PartSize(r))'
      BY <1>3, <1>5, SendersAssumption DEF TypeOK, HoldInv
    <2> QED
      BY <2>1, <2>2 DEF HoldInv
  <1>11. FitInv'
    <2>1. CASE UNCHANGED frames
      BY <2>1 DEF FitInv
    <2>2. CASE /\ Len(frames') = Len(frames) - 1
               /\ \A i \in 1 .. Len(frames) - 1 : frames'[i] = frames[i]
      <3> SUFFICES ASSUME NEW i \in 1 .. Len(frames) - 1
                   PROVE  Fits(frames'[i])
        BY <2>2 DEF FitInv
      <3>1. i \in 1 .. Len(frames) /\ frames'[i] = frames[i]
        BY <1>3, <2>2
      <3> QED
        BY <3>1 DEF FitInv
    <2> QED
      BY <1>6, <2>1, <2>2
  <1>12. UnitInv' /\ ResultInv'
    <2>1. ASSUME NEW i \in 1 .. Len(stream'), i > Len(stream)
          PROVE  stream'[i].n <= Begun' /\ stream'[i].i <= LengthIn(frames', stream'[i])
      <3> DEFINE e == i - Len(stream)
      <3>1. e \in 1 .. count /\ i = Len(stream) + e
        BY <1>4, <2>1
      <3>2. stream'[i] = At(number[s], pc[s], Done(s) + e)
        BY <1>4, <3>1
      <3>3. frames' = frames
        BY <1>6, <3>1
      <3>4. LengthIn(frames', stream'[i]) = PartSize(s)
        BY <1>3, <3>2, <3>3 DEF LengthIn, PartLength, At
      <3> QED
        BY <1>2, <1>3, <1>7, <3>1, <3>2, <3>3, <3>4 DEF At
    <2>2. Len(stream') >= Len(stream)
      BY <1>4
    <2> QED
      BY <1>1, <1>4, <1>8, <2>1, <2>2, SendersKeep
  <1> QED
    BY <1>5, <1>8, <1>9, <1>10, <1>11, <1>12

-----------------------------------------------------------------------------
(* What the decoder does.                                                    *)

(* What it needs, and what lies in the stream.                               *)
LEMMA Reading ==
  ASSUME Typed
  PROVE  /\ stream \in Seq(Unit) /\ Len(stream) \in Nat
         /\ got \in Seq(Unit) /\ Len(got) \in Nat
         /\ results \in Seq([n : 0 .. MaxFrames, ok : BOOLEAN]) /\ Len(results) \in Nat
         /\ \A i \in 1 .. Len(stream) : stream[i] \in Unit
         /\ \A i \in 1 .. Len(got) : got[i] \in Unit
         /\ Need \in Nat \ {0} /\ Len(got) <= Need
         /\ (phase = "payload" => expected \in 1 .. Len(frames) /\ expected \in 1 .. MaxFrames)
  <1>1. /\ stream \in Seq(Unit) /\ got \in Seq(Unit)
        /\ results \in Seq([n : 0 .. MaxFrames, ok : BOOLEAN])
    BY DEF Typed, TypeOK
  <1>2. /\ Len(stream) \in Nat /\ Len(got) \in Nat /\ Len(results) \in Nat
        /\ \A i \in 1 .. Len(stream) : stream[i] \in Unit
        /\ \A i \in 1 .. Len(got) : got[i] \in Unit
    BY <1>1, LenProperties, ElementOfSeq
  <1>3. phase = "payload" => expected \in 1 .. Len(frames) /\ expected \in 1 .. MaxFrames
    BY BegunTyped, BoundsAssumption DEF Typed, UnitInv, HoldInv
  <1>4. Need \in Nat \ {0}
    BY <1>3, FrameSize, LimitsAssumption DEF Need, Typed, TypeOK
  <1> QED
    BY <1>1, <1>2, <1>3, <1>4 DEF Typed, UnitInv

(* Nothing the decoder does reaches the senders.                             *)
LEMMA SendersStay ==
  ASSUME Typed, UNCHANGED <<closed, sending>>
  PROVE  HoldInv' /\ FitInv' /\ Begun' = Begun /\ Steady
  <1>1. /\ encoderMu' = encoderMu /\ frames' = frames /\ torn' = torn /\ pc' = pc
        /\ number' = number /\ left' = left
    BY DEF sending
  <1>2. HoldInv' /\ FitInv' /\ Begun' = Begun
    BY <1>1 DEF Typed, HoldInv, FitInv, Begun, Done, PartSize
  <1> QED
    BY <1>1, <1>2, BegunTyped DEF Steady, Typed

LEMMA ReadTyped ==
  ASSUME Typed, ReadSome
  PROVE  /\ Typed' /\ Steady
         /\ \E count \in 1 .. Len(stream) :
               /\ Len(got) + count <= Need
               /\ Len(got') = Len(got) + count
               /\ \A i \in 1 .. Len(got) : got'[i] = got[i]
               /\ \A i \in 1 .. count : got'[Len(got) + i] = stream[i]
               /\ Len(stream') = Len(stream) - count
               /\ \A i \in 1 .. Len(stream) - count : stream'[i] = stream[count + i]
  <1>1. PICK count \in 1 .. Len(stream) :
          /\ Len(got) + count <= Need
          /\ got' = got \o SubSeq(stream, 1, count)
          /\ stream' = SubSeq(stream, count + 1, Len(stream))
    BY DEF ReadSome
  <1>2. UNCHANGED <<closed, sending, phase, expected, results, ended>>
    BY DEF ReadSome
  <1> DEFINE part == SubSeq(stream, 1, count)
  <1>3. /\ part \in Seq(Unit) /\ Len(part) = count
        /\ \A i \in 1 .. count : part[i] = stream[i]
    <2>1. \A i \in 1 .. count : stream[i] \in Unit
      BY Reading
    <2>2. 1 \in Int /\ count \in Int /\ 1 <= count /\ count - 1 + 1 = count
      BY Reading
    <2>3. /\ part \in Seq(Unit)
          /\ Len(part) = IF 1 <= count THEN count - 1 + 1 ELSE 0
          /\ \A i \in 1 .. count - 1 + 1 : part[i] = stream[1 + i - 1]
      BY <2>1, <2>2, SubSeqProperties
    <2> HIDE DEF part
    <2> QED
      BY <2>2, <2>3
  <1>4. /\ stream' \in Seq(Unit) /\ Len(stream') = Len(stream) - count
        /\ \A i \in 1 .. Len(stream) - count : stream'[i] = stream[count + i]
    <2>1. /\ \A i \in count + 1 .. Len(stream) : stream[i] \in Unit
          /\ count + 1 \in Int /\ Len(stream) \in Int
      BY Reading
    <2>2. /\ stream' \in Seq(Unit)
          /\ Len(stream') = IF count + 1 <= Len(stream)
                            THEN Len(stream) - (count + 1) + 1 ELSE 0
          /\ \A i \in 1 .. Len(stream) - (count + 1) + 1 :
                stream'[i] = stream[(count + 1) + i - 1]
      BY <1>1, <2>1, SubSeqProperties
    <2>3. Len(stream) \in Nat /\ count \in 1 .. Len(stream)
      BY Reading
    <2>4. Len(stream') = Len(stream) - count
      BY <2>2, <2>3
    <2>5. ASSUME NEW i \in 1 .. Len(stream) - count
          PROVE  stream'[i] = stream[count + i]
      <3>1. i \in 1 .. Len(stream) - (count + 1) + 1 /\ (count + 1) + i - 1 = count + i
        BY <2>3
      <3> QED
        BY <2>2, <3>1
    <2> QED
      BY <2>2, <2>4, <2>5
  <1>5. /\ got' \in Seq(Unit) /\ Len(got') = Len(got) + count
        /\ \A i \in 1 .. Len(got) : got'[i] = got[i]
        /\ \A i \in 1 .. count : got'[Len(got) + i] = stream[i]
    <2> HIDE DEF part
    <2>1. got' = got \o part /\ got \in Seq(Unit) /\ Len(got) \in Nat /\ count \in Nat
      BY <1>1, Reading DEF part
    <2>2. /\ got \o part \in Seq(Unit) /\ Len(got \o part) = Len(got) + Len(part)
          /\ \A i \in 1 .. Len(got) + Len(part) :
                (got \o part)[i] = IF i <= Len(got) THEN got[i] ELSE part[i - Len(got)]
      BY <1>3, <2>1, ConcatProperties
    <2>3. /\ got' \in Seq(Unit) /\ Len(got') = Len(got) + count
          /\ \A i \in 1 .. Len(got) + count :
                got'[i] = IF i <= Len(got) THEN got[i] ELSE part[i - Len(got)]
      BY <1>3, <2>1, <2>2
    <2>4. ASSUME NEW i \in 1 .. count
          PROVE  got'[Len(got) + i] = stream[i]
      <3>1. Len(got) + i \in 1 .. Len(got) + count /\ ~(Len(got) + i <= Len(got))
            /\ (Len(got) + i) - Len(got) = i
        BY <2>1
      <3> QED
        BY <1>3, <2>3, <3>1
    <2>5. \A i \in 1 .. Len(got) : got'[i] = got[i]
      BY <2>1, <2>3
    <2> QED
      BY <2>3, <2>4, <2>5
  <1>6. TypeOK'
    BY <1>2, <1>4, <1>5 DEF Typed, TypeOK, sending
  <1>7. HoldInv' /\ FitInv' /\ Begun' = Begun /\ Steady
    BY <1>2, SendersStay
  <1>8. Need' = Need /\ frames' = frames
    BY <1>2 DEF Need, sending
  <1>9. UnitInv'
    <2>1. ASSUME NEW i \in 1 .. Len(stream')
          PROVE  stream'[i].n <= Begun /\ stream'[i].i <= PartLength(stream'[i])
      <3>1. count + i \in 1 .. Len(stream) /\ stream'[i] = stream[count + i]
        BY <1>4, Reading
      <3> QED
        BY <3>1 DEF Typed, UnitInv
    <2>2. ASSUME NEW i \in 1 .. Len(got')
          PROVE  got'[i].n <= Begun /\ got'[i].i <= PartLength(got'[i])
      <3>1. CASE i <= Len(got)
        <4>1. i \in 1 .. Len(got)
          BY <1>5, <3>1, Reading
        <4>2. got'[i] = got[i] /\ got[i].n <= Begun /\ got[i].i <= PartLength(got[i])
          BY <1>5, <4>1 DEF Typed, UnitInv
        <4> QED
          BY <4>2 DEF PartLength
      <3>2. CASE i > Len(got)
        <4> DEFINE e == i - Len(got)
        <4>1. e \in 1 .. count /\ e \in 1 .. Len(stream) /\ Len(got) + e = i
          BY <1>5, <3>2, Reading
        <4> HIDE DEF e
        <4>2. got'[i] = stream[e]
          BY <1>5, <4>1
        <4>3. stream[e].n <= Begun /\ stream[e].i <= PartLength(stream[e])
          BY <4>1 DEF Typed, UnitInv
        <4> QED
          BY <4>2, <4>3 DEF PartLength
      <3> QED
        BY <3>1, <3>2, Reading, <1>5
    <2>3. Len(got') <= Need
      BY <1>1, <1>5
    <2>4. phase' = "payload" => expected' \in 1 .. Begun
      BY <1>2 DEF Typed, UnitInv
    <2> QED
      BY <1>7, <1>8, <2>1, <2>2, <2>3, <2>4 DEF UnitInv, PartLength
  <1>10. ResultInv'
    BY <1>2, <1>7, <1>8 DEF Typed, ResultInv
  <1>11. Typed'
    BY <1>6, <1>7, <1>9, <1>10 DEF Typed
  <1> QED
    BY <1>1, <1>4, <1>5, <1>7, <1>11

(* A header or a payload that has been read to its end.                      *)
LEMMA TakeTyped ==
  ASSUME Typed, AcceptHeader \/ RefuseHeader \/ DecodeFrame \/ DecodeMixture
  PROVE  Typed' /\ Steady /\ got' = <<>> /\ Len(got') = 0
  <1> USE DEF Typed
  <1>1. UNCHANGED <<stream, closed, sending, ended>> /\ got' = <<>>
        /\ phase' \in {"header", "payload"}
    BY DEF AcceptHeader, RefuseHeader, DecodeFrame, DecodeMixture, Discard
  <1>2. HoldInv' /\ FitInv' /\ Begun' = Begun /\ Steady /\ frames' = frames
    BY <1>1, SendersStay DEF sending
  <1>3. got' \in Seq(Unit) /\ Len(got') = 0
    BY <1>1, EmptySeq
  <1>4. phase' = "payload" => expected' \in 1 .. Begun
    <2>1. CASE AcceptHeader
      <3>1. 1 \in 1 .. Len(got)
        BY <2>1, LimitsAssumption DEF AcceptHeader
      <3>2. got[1] \in Unit /\ got[1].n <= Begun
        BY <3>1, Reading DEF UnitInv
      <3> QED
        BY <2>1, <3>2, BegunTyped DEF AcceptHeader, Unit
    <2>2. CASE RefuseHeader \/ DecodeFrame \/ DecodeMixture
      BY <2>2 DEF RefuseHeader, DecodeFrame, DecodeMixture, Discard
    <2> QED
      BY <2>1, <2>2
  <1>5. expected' \in 0 .. MaxFrames
    <2>1. CASE AcceptHeader
      BY <1>4, <2>1, BegunTyped, BoundsAssumption DEF AcceptHeader, Discard, HoldInv
    <2>2. CASE RefuseHeader \/ DecodeFrame \/ DecodeMixture
      BY <2>2 DEF RefuseHeader, DecodeFrame, DecodeMixture, TypeOK
    <2> QED
      BY <2>1, <2>2
  <1>6. /\ results' \in Seq([n : 0 .. MaxFrames, ok : BOOLEAN])
        /\ ResultInv'
    <2>1. CASE UNCHANGED results
      BY <1>2, <2>1 DEF TypeOK, ResultInv
    <2>2. CASE \E r \in [n : 0 .. MaxFrames, ok : BOOLEAN] :
                 /\ results' = Append(results, r) /\ r.n <= Begun
                 /\ r.n # 0 => r.ok = Decodes(frames[r.n])
      <3>1. PICK r \in [n : 0 .. MaxFrames, ok : BOOLEAN] :
                 /\ results' = Append(results, r) /\ r.n <= Begun
                 /\ r.n # 0 => r.ok = Decodes(frames[r.n])
        BY <2>2
      <3>2. /\ results' \in Seq([n : 0 .. MaxFrames, ok : BOOLEAN])
            /\ Len(results') = Len(results) + 1
            /\ \A i \in 1 .. Len(results) : results'[i] = results[i]
            /\ results'[Len(results) + 1] = r
        BY <3>1, Reading, AppendProperties
      <3>3. ASSUME NEW i \in 1 .. Len(results')
            PROVE  /\ results'[i].n <= Begun
                   /\ results'[i].n # 0 => results'[i].ok = Decodes(frames[results'[i].n])
        <4>1. i \in 1 .. Len(results) \/ i = Len(results) + 1
          BY <3>2, Reading
        <4> QED
          BY <3>1, <3>2, <4>1 DEF ResultInv
      <3> QED
        BY <1>2, <3>2, <3>3 DEF ResultInv
    <2>3. CASE DecodeFrame
      <3> DEFINE r == [n |-> expected, ok |-> Decodes(frames[expected])]
      <3>1. phase = "payload" /\ results' = Append(results, r)
        BY <2>3 DEF DecodeFrame, Complete
      <3>2. expected \in 1 .. Len(frames) /\ expected \in 1 .. MaxFrames /\ expected <= Begun
        BY <3>1, Reading DEF UnitInv
      <3>3. Decodes(frames[expected]) \in BOOLEAN
        BY <3>2, FrameSize, DecodesBoolean
      <3>4. r \in [n : 0 .. MaxFrames, ok : BOOLEAN]
        BY <3>2, <3>3
      <3> QED
        BY <2>2, <3>1, <3>2, <3>4
    <2>4. CASE DecodeMixture
      <3> DEFINE r == [n |-> 0, ok |-> TRUE]
      <3>1. r \in [n : 0 .. MaxFrames, ok : BOOLEAN] /\ r.n <= Begun /\ r.n = 0
        BY BegunTyped, BoundsAssumption
      <3>2. UNCHANGED results \/ results' = Append(results, r)
        BY <2>4 DEF DecodeMixture
      <3> QED
        BY <2>1, <2>2, <3>1, <3>2
    <2> QED
      BY <2>1, <2>3, <2>4 DEF AcceptHeader, RefuseHeader
  <1>7. TypeOK'
    BY <1>1, <1>3, <1>5, <1>6 DEF TypeOK, sending
  <1>8. UnitInv'
    <2>1. Len(got') <= Need'
      <3>1. phase' = "payload" => expected' \in 1 .. Len(frames)
        BY <1>4, BegunTyped
      <3>2. phase' = "payload" => Size(frames'[expected']) \in Nat
        BY <1>2, <3>1, FrameSize
      <3> QED
        BY <1>1, <1>3, <3>2, LimitsAssumption DEF Need
    <2> QED
      BY <1>1, <1>2, <1>3, <1>4, <2>1 DEF UnitInv, PartLength
  <1> QED
    BY <1>1, <1>2, <1>3, <1>6, <1>7, <1>8

LEMMA EndsTyped ==
  ASSUME Typed, StreamEnds
  PROVE  Typed' /\ Steady
  <1>1. UNCHANGED <<stream, closed, sending, phase, expected, got, results>>
    BY DEF StreamEnds
  <1>2. ended' \in {"no", "eof", "unexpected", "payload"}
    BY DEF StreamEnds, EndOf
  <1>3. HoldInv' /\ FitInv' /\ Begun' = Begun /\ Steady /\ frames' = frames
    BY <1>1, SendersStay DEF sending
  <1>4. TypeOK'
    BY <1>1, <1>2 DEF Typed, TypeOK, sending
  <1>5. UnitInv' /\ ResultInv'
    BY <1>1, <1>3 DEF Typed, UnitInv, ResultInv, Need, PartLength
  <1> QED
    BY <1>3, <1>4, <1>5 DEF Typed

LEMMA NextCases ==
  ASSUME [Next]_vars
  PROVE  \/ Aside
         \/ \E s \in Senders : Acquire(s)
         \/ \E s \in Senders : WriteSome(s) \/ WriteHeader(s)
         \/ \E s \in Senders : WritePayload(s) \/ WriteFails(s)
         \/ ReadSome
         \/ AcceptHeader \/ RefuseHeader \/ DecodeFrame \/ DecodeMixture
         \/ StreamEnds
  BY DEF Next, Aside, Send, Write, Decode

LEMMA NextTyped ==
  ASSUME Typed, [Next]_vars
  PROVE  Typed' /\ Steady
  BY NextCases, AsideTyped, AcquireTyped, OnwardTyped, EndTyped, ReadTyped, TakeTyped, EndsTyped

LEMMA TypedInvariant == Spec => []Typed
  BY InitTyped, NextTyped, PTL DEF Spec

(* Every variable keeps its type, whatever the limits and however many send. *)
THEOREM TypeCorrect == Spec => []TypeOK
  <1>1. Typed => TypeOK
    BY DEF Typed
  <1> QED
    BY <1>1, TypedInvariant, PTL

(* Nothing the encoder wrote is refused by the decoder: what it reads whole  *)
(* it accepts, unless it is unreadable by a limit of CBOR alone.             *)
THEOREM NothingRefused == Spec => []NoneRefused
  <1>1. Typed => NoneRefused
    <2> SUFFICES ASSUME Typed, NEW i \in 1 .. Len(results), results[i].n # 0,
                        frames[results[i].n].readable
                 PROVE  results[i].ok
      BY DEF NoneRefused
    <2>1. results[i] \in [n : 0 .. MaxFrames, ok : BOOLEAN]
      BY ElementOfSeq DEF Typed, TypeOK
    <2>2. results[i].n \in 1 .. Len(frames)
      BY <2>1, BegunTyped, BoundsAssumption DEF Typed, ResultInv
    <2>3. frames[results[i].n] \in Messages /\ Fits(frames[results[i].n])
      BY <2>2, FrameSize DEF Typed, FitInv
    <2>4. Decodes(frames[results[i].n])
      BY <2>3, LimitsAgree
    <2> QED
      BY <2>4 DEF Typed, ResultInv
  <1> QED
    BY <1>1, TypedInvariant, PTL

-----------------------------------------------------------------------------
(* The line of units between the writer and the decoder.                     *)

Beyond(u) == IF u.part = "header" THEN At(u.n, "payload", 1) ELSE At(u.n + 1, "header", 1)

(* The unit d places after u, as far as the first of the next part.          *)
Later(u, d) == IF u.i + d <= PartLength(u) THEN At(u.n, u.part, u.i + d) ELSE Beyond(u)
Run(u) == PartLength(u) - u.i + 1

(* The next unit to be written, unless the frame under way is torn.          *)
Coming ==
    IF encoderMu = NoSender THEN At(Len(frames) + 1, "header", 1)
    ELSE At(number[encoderMu], pc[encoderMu], Done(encoderMu) + 1)

(* What the decoder read last, as it numbers the frames, then the stream,    *)
(* then what comes.                                                          *)
Last == At(Len(results) + 1, phase, Len(got))
Line ==
    [j \in 0 .. Len(stream) + 1 |->
        IF j = 0 THEN Last ELSE IF j <= Len(stream) THEN stream[j] ELSE Coming]
Known == IF torn = 0 THEN Len(stream) + 1 ELSE Len(stream)

(* Units of the frames before the first that was torn.                       *)
Sound(u) == torn = 0 \/ u.n < torn

LineInv ==
    \A i, j \in 0 .. Known :
        i < j /\ Sound(Line[i]) /\ j - i <= Run(Line[i]) =>
            Line[j] = Later(Line[i], j - i)

(* Once a frame was torn, the parts before it are in the stream to their end.*)
TornInv ==
    torn # 0 =>
        /\ torn <= Len(frames) /\ (encoderMu # NoSender => torn < Len(frames))
        /\ \A i \in 0 .. Len(stream) : Sound(Line[i]) => i + Run(Line[i]) <= Len(stream)

(* Before that frame the decoder counts the frames as the encoder does.      *)
SyncInv ==
    Sound(Last) =>
        /\ got = Units(Len(results) + 1, phase, 0, Len(got))
        /\ phase = "payload" => expected = Len(results) + 1

EndInv == ended = "eof" => closed /\ stream = <<>> /\ got = <<>> /\ phase = "header"

Flow == Typed /\ LineInv /\ TornInv /\ SyncInv

LEMMA LineUnits ==
  ASSUME Typed
  PROVE  /\ Line[0] = Last
         /\ \A j \in 1 .. Len(stream) : Line[j] = stream[j]
         /\ Line[Len(stream) + 1] = Coming
         /\ Len(stream) \in Nat /\ Known \in {Len(stream), Len(stream) + 1}
  <1>1. Len(stream) \in Nat
    BY Reading
  <1> QED
    BY <1>1 DEF Line, Known

(* Where no frame was withdrawn or the decoder is in step, the length of the *)
(* part of every unit of the line is settled.                                *)
LEMMA LastKept ==
  ASSUME Typed, SyncInv, Steady, Sound(Last)
  PROVE  /\ LengthIn(frames', Last) = LengthIn(frames, Last)
         /\ LengthIn(frames, Last) = Need /\ Need \in Nat \ {0}
         /\ Last.i \in 0 .. Need /\ Last.n = Len(results) + 1 /\ Last.part = phase
         /\ Last.i = Len(got)
  <1>1. Last.n = Len(results) + 1 /\ Last.part = phase /\ Last.i = Len(got)
    BY DEF Last, At
  <1>2. phase = "payload" => frames'[Last.n] = frames[Last.n] /\ expected = Last.n
    BY <1>1, UnitsKept DEF SyncInv
  <1>3. LengthIn(frames', Last) = LengthIn(frames, Last) /\ LengthIn(frames, Last) = Need
    BY <1>1, <1>2 DEF LengthIn, Need, Typed, TypeOK
  <1> QED
    BY <1>1, <1>3, Reading

LEMMA LineKept ==
  ASSUME Typed, SyncInv, Steady, NEW i \in 0 .. Len(stream), Sound(Line[i])
  PROVE  LengthIn(frames', Line[i]) = LengthIn(frames, Line[i])
  <1>1. CASE i = 0
    BY <1>1, LineUnits, LastKept
  <1>2. CASE i \in 1 .. Len(stream)
    <2>1. stream[i] \in Unit /\ stream[i].n <= Begun /\ Line[i] = stream[i]
      BY <1>2, Reading, LineUnits DEF Typed, UnitInv
    <2> QED
      BY <2>1, LengthKept
  <1> QED
    BY <1>1, <1>2, Reading

(* A step that leaves the line alone.                                        *)
LEMMA SameLine ==
  ASSUME Flow, Typed', Steady, UNCHANGED <<stream, torn, decoding>>, Coming' = Coming,
         torn # 0 => torn <= Len(frames') /\ (encoderMu' # NoSender => torn < Len(frames'))
  PROVE  Flow'
  <1>1. /\ Line' = Line /\ Known' = Known /\ Last' = Last
        /\ got' = got /\ results' = results /\ phase' = phase /\ expected' = expected
    BY DEF Line, Known, Last, decoding
  <1>2. LineInv'
    <2> SUFFICES ASSUME NEW i \in 0 .. Known, NEW j \in 0 .. Known, i < j, Sound(Line[i]),
                        j - i <= LengthIn(frames', Line[i]) - Line[i].i + 1
                 PROVE  Line[j] = IF Line[i].i + (j - i) <= LengthIn(frames', Line[i])
                                  THEN At(Line[i].n, Line[i].part, Line[i].i + (j - i))
                                  ELSE Beyond(Line[i])
      BY <1>1 DEF LineInv, Run, Later, PartLength, Sound, Beyond
    <2>1. i \in 0 .. Len(stream)
      BY LineUnits DEF Flow
    <2>2. LengthIn(frames', Line[i]) = PartLength(Line[i])
      BY <2>1, LineKept DEF Flow, PartLength
    <2> QED
      BY <2>2 DEF Flow, LineInv, Run, Later
  <1>3. TornInv'
    <2> SUFFICES ASSUME torn # 0, NEW i \in 0 .. Len(stream), Sound(Line[i])
                 PROVE  i + (LengthIn(frames', Line[i]) - Line[i].i + 1) <= Len(stream)
      BY <1>1 DEF TornInv, Run, PartLength, Sound
    <2> QED
      BY LineKept DEF Flow, TornInv, Run, PartLength
  <1>4. SyncInv'
    BY <1>1 DEF Flow, SyncInv, Sound, Units
  <1> QED
    BY <1>2, <1>3, <1>4 DEF Flow

(* A line in which every unit is followed by those of its part and the first *)
(* of the next.                                                              *)
Reaches(L, m) ==
    \A i, j \in 0 .. m : i < j /\ j - i <= Run(L[i]) => L[j] = Later(L[i], j - i)

Within(L, m) ==
    \A i \in 0 .. m :
        L[i].i \in Nat /\ PartLength(L[i]) \in Nat /\ L[i].i <= PartLength(L[i])

(* The line M is L, which ends before place m + 1, with count units more of  *)
(* a part of which k had been written, and the one that comes after them.    *)
Continues(M, L, m, u, count) ==
    /\ \A i \in 0 .. m : M[i] = L[i]
    /\ \A e \in 1 .. count : M[m + e] = At(u.n, u.part, u.i + e)
    /\ M[m + count + 1] = Later(u, count + 1)

(* Units that continue a line from where it was to go on continue it.        *)
LEMMA Extend ==
  ASSUME NEW m \in Nat, NEW count \in Nat, NEW L, NEW M, NEW u,
         u.i \in Nat, PartLength(u) \in Nat, u.i + 1 <= PartLength(u),
         u.i + count <= PartLength(u),
         Within(L, m), Reaches(L, m + 1), L[m + 1] = At(u.n, u.part, u.i + 1),
         Continues(M, L, m, u, count)
  PROVE  Reaches(M, m + count + 1)
  <1> DEFINE n == u.n
             part == u.part
             k == u.i
             length == PartLength(u)
  <1>1. k \in Nat /\ length \in Nat /\ k + 1 <= length /\ k + count <= length
    OBVIOUS
  <1>2. ASSUME NEW x
        PROVE  PartLength(At(n, part, x)) = length
    BY DEF PartLength, LengthIn, At
  <1>3. /\ \A i \in 0 .. m : M[i] = L[i]
        /\ \A e \in 1 .. count : M[m + e] = At(n, part, k + e)
        /\ M[m + count + 1] = Later(At(n, part, k), count + 1)
        /\ L[m + 1] = At(n, part, k + 1)
    <2>1. Later(At(n, part, k), count + 1) = Later(u, count + 1)
      BY <1>2 DEF Later, Beyond, At
    <2> QED
      BY <2>1 DEF Continues
  <1>4. /\ \A i \in 0 .. m : /\ L[i].i \in Nat /\ PartLength(L[i]) \in Nat
                             /\ L[i].i <= PartLength(L[i])
        /\ \A i, j \in 0 .. m + 1 :
              i < j /\ j - i <= Run(L[i]) => L[j] = Later(L[i], j - i)
    BY DEF Within, Reaches
  <1> HIDE DEF n, part, k, length
  <1> SUFFICES ASSUME NEW i \in 0 .. m + count + 1, NEW j \in 0 .. m + count + 1, i < j,
                      j - i <= Run(M[i])
               PROVE  M[j] = Later(M[i], j - i)
    BY DEF Reaches
  <1>5. ASSUME NEW e \in 1 .. count + 1
        PROVE  M[m + e] = Later(At(n, part, k), e)
    <2>1. CASE e \in 1 .. count
      BY <1>1, <1>2, <1>3, <2>1 DEF Later, At
    <2>2. CASE e = count + 1
      BY <1>3, <2>2
    <2> QED
      BY <2>1, <2>2
  <1>6. CASE j <= m
    BY <1>6, <1>3, <1>4
  <1>7. CASE i <= m /\ j > m
    <2> DEFINE e == j - m
               d == m + 1 - i
               v == L[i]
    <2>1. /\ e \in 1 .. count + 1 /\ d \in Nat \ {0} /\ j = m + e /\ j - i = d + e - 1
          /\ i \in 0 .. m /\ m + 1 \in 0 .. m + 1 /\ i < m + 1 /\ m + 1 - i = d
      BY <1>7
    <2>2. /\ M[i] = v /\ v.i \in Nat /\ PartLength(v) \in Nat /\ v.i <= PartLength(v)
      BY <1>7, <1>3, <1>4
    <2>3. d <= PartLength(v) - v.i + 1 /\ d + e - 1 <= PartLength(v) - v.i + 1
      BY <2>1, <2>2 DEF Run
    <2>4. At(n, part, k + 1) = Later(v, d)
      BY <1>3, <1>4, <2>1, <2>2, <2>3 DEF Run
    <2>5. M[j] = Later(At(n, part, k), e)
      BY <1>5, <2>1
    <2> HIDE DEF e, d, v
    <2>6. CASE v.i + d <= PartLength(v)
      <3>1. n = v.n /\ part = v.part /\ k + 1 = v.i + d
        BY <2>4, <2>6 DEF Later, At
      <3>2. PartLength(v) = length
        <4>1. PartLength(v) = PartLength(At(v.n, v.part, 1))
          BY DEF PartLength, LengthIn, At
        <4> QED
          BY <1>2, <3>1, <4>1
      <3>3. k + e = v.i + (d + e - 1)
        <4>1. \A x, y, z, w \in Int : w + 1 = x + y => w + z = x + (y + z - 1)
          OBVIOUS
        <4>2. v.i \in Int /\ d \in Int /\ e \in Int /\ k \in Int
          BY <1>1, <2>1, <2>2
        <4> QED
          BY <3>1, <4>1, <4>2
      <3>4. Later(At(n, part, k), e) = Later(v, d + e - 1)
        <4>1. /\ At(n, part, k).i = k /\ At(n, part, k).n = v.n /\ At(n, part, k).part = v.part
          BY <3>1 DEF At
        <4> QED
          BY <1>2, <3>2, <3>3, <4>1 DEF Later, Beyond
      <3> QED
        BY <2>1, <2>2, <2>5, <3>4
    <2>7. CASE ~(v.i + d <= PartLength(v))
      <3>1. e = 1
        BY <2>1, <2>2, <2>3, <2>7
      <3>2. M[j] = At(n, part, k + 1)
        BY <1>1, <1>2, <2>5, <3>1 DEF Later, At
      <3> QED
        BY <2>1, <2>2, <2>4, <3>1, <3>2
    <2> QED
      BY <2>6, <2>7
  <1>8. CASE i > m
    <2> DEFINE f == i - m
               e == j - m
    <2>1. /\ f \in 1 .. count /\ e \in 1 .. count + 1 /\ f < e
          /\ i = m + f /\ j = m + e /\ j - i = e - f
      BY <1>8
    <2> HIDE DEF e, f
    <2>2. M[i] = At(n, part, k + f) /\ M[j] = Later(At(n, part, k), e)
      BY <1>5, <1>3, <2>1
    <2>3. (k + f) + (e - f) = k + e
      BY <1>1, <2>1
    <2>4. Later(At(n, part, k + f), e - f) = Later(At(n, part, k), e)
      <3>1. /\ At(n, part, k).i = k /\ At(n, part, k).n = n /\ At(n, part, k).part = part
            /\ At(n, part, k + f).i = k + f /\ At(n, part, k + f).n = n
            /\ At(n, part, k + f).part = part
        BY DEF At
      <3> QED
        BY <1>2, <2>3, <3>1 DEF Later, Beyond
    <2> QED
      BY <2>1, <2>2, <2>4
  <1> QED
    BY <1>6, <1>7, <1>8

(* Every unit of the line is within its part.                                *)
LEMMA LineWithin ==
  ASSUME Flow, NEW i \in 0 .. Len(stream), Sound(Line[i])
  PROVE  /\ Line[i].i \in Nat /\ PartLength(Line[i]) \in Nat
         /\ Line[i].i <= PartLength(Line[i])
         /\ (i # 0 => PartLength(Line[i]) \in Nat \ {0})
  <1>1. CASE i = 0
    <2>2. Line[i] = Last
      BY <1>1, LineUnits DEF Flow
    <2>3. Last.n = Len(results) + 1 /\ Last.part = phase /\ Last.i = Len(got)
      BY DEF Last, At
    <2>4. PartLength(Last) = Need
      BY <1>1, <2>2, <2>3 DEF Flow, SyncInv, PartLength, LengthIn, Need, Typed, TypeOK
    <2> QED
      BY <1>1, <2>2, <2>3, <2>4, Reading DEF Flow
  <1>2. CASE i \in 1 .. Len(stream)
    <2>1. stream[i] \in Unit /\ Line[i] = stream[i] /\ stream[i].i <= PartLength(stream[i])
          /\ stream[i].n <= Begun
      BY <1>2, Reading, LineUnits DEF Flow, Typed, UnitInv
    <2>2. stream[i].n \in 1 .. Len(frames) /\ stream[i].i \in Nat
      BY <2>1, BegunTyped DEF Unit, Flow, Typed
    <2>3. PartLength(stream[i]) \in Nat \ {0}
      BY <2>2, FrameSize, LimitsAssumption DEF PartLength, LengthIn, Flow, Typed
    <2> QED
      BY <2>1, <2>2, <2>3
  <1> QED
    BY <1>1, <1>2, Reading DEF Flow

LEMMA FlowSteady ==
  ASSUME Flow, [Next]_vars
  PROVE  Typed' /\ Steady
  BY NextTyped DEF Flow

LEMMA AsideFlow ==
  ASSUME Flow, Aside
  PROVE  Flow'
  <1>1. Typed' /\ Steady
    BY AsideTyped DEF Flow
  <1>2. UNCHANGED <<stream, torn, decoding>> \/ ended' = ended
    BY AsideLeaves DEF Flow
  <1>3. UNCHANGED <<stream, encoderMu, frames, torn, number, left, phase, expected, got,
                    results, ended>>
    BY AsideLeaves DEF Flow
  <1>4. Coming' = Coming
    <2>1. CASE encoderMu = NoSender
      BY <1>3, <2>1 DEF Coming
    <2>2. CASE encoderMu \in Senders
      <3>1. pc'[encoderMu] = pc[encoderMu]
        BY <2>2, AsideLeaves DEF Flow, Typed, HoldInv
      <3> QED
        BY <1>3, <2>2, <3>1 DEF Coming, Done, PartSize
    <2> QED
      BY <2>1, <2>2 DEF Flow, Typed, TypeOK
  <1> QED
    BY <1>1, <1>3, <1>4, SameLine DEF Flow, TornInv, decoding

LEMMA AcquireFlow ==
  ASSUME Flow, NEW s \in Senders, Acquire(s)
  PROVE  Flow'
  <1>1. Typed' /\ Steady
    BY AcquireTyped DEF Flow
  <1>2. /\ encoderMu = NoSender /\ encoderMu' = s
        /\ number' = [number EXCEPT ![s] = Len(frames) + 1]
        /\ left' = [left EXCEPT ![s] = HeaderUnits]
        /\ pc' = [pc EXCEPT ![s] = "header"]
        /\ UNCHANGED <<stream, torn, decoding>>
    BY DEF Acquire, Unlocked
  <1>3. encoderMu' # NoSender /\ number'[s] = Len(frames')
    BY <1>1, <1>2, SendersAssumption DEF Typed, HoldInv
  <1>4. number'[s] = Len(frames) + 1 /\ pc'[s] = "header" /\ Done(s)' = 0
    BY <1>2, LimitsAssumption DEF Flow, Typed, TypeOK, Done, PartSize
  <1>5. Coming' = Coming
    BY <1>2, <1>3, <1>4 DEF Coming
  <1>6. torn # 0 => torn <= Len(frames') /\ torn < Len(frames')
    BY <1>3, <1>4, FramesLength DEF Flow, Typed, TypeOK, TornInv
  <1> QED
    BY <1>1, <1>2, <1>5, <1>6, SameLine

(* What a write of count units makes of a line without a tear.               *)
LEMMA WriteLine ==
  ASSUME Flow, torn = 0, NEW s \in Senders, pc[s] \in {"header", "payload"},
         NEW count \in 0 .. left[s], NEW M,
         Continues(M, Line, Len(stream), At(number[s], pc[s], Done(s)), count)
  PROVE  Reaches(M, Len(stream) + count + 1)
  <1> DEFINE m == Len(stream)
             u == At(number[s], pc[s], Done(s))
  <1>1. /\ encoderMu = s /\ encoderMu # NoSender
        /\ left[s] \in 1 .. PartSize(s)
        /\ Done(s) \in 0 .. PartSize(s) - 1 /\ Done(s) + left[s] = PartSize(s)
        /\ PartSize(s) \in Nat \ {0}
        /\ PartSize(s) = PartLength(At(number[s], pc[s], 1))
    BY Writing DEF Flow, Typed
  <1>2. u.n = number[s] /\ u.part = pc[s] /\ u.i = Done(s)
    BY DEF At
  <1>3. PartLength(u) = PartSize(s)
    BY <1>1 DEF PartLength, LengthIn, At
  <1>4. m \in Nat /\ count \in Nat /\ u.i \in Nat /\ PartLength(u) \in Nat
        /\ u.i + 1 <= PartLength(u) /\ u.i + count <= PartLength(u)
    BY <1>1, <1>2, <1>3, Reading DEF Flow
  <1>5. Within(Line, m)
    BY LineWithin DEF Within, Sound
  <1>6. Known = m + 1 /\ Line[m + 1] = At(u.n, u.part, u.i + 1)
    BY <1>1, <1>2, LineUnits DEF Known, Coming, Flow
  <1>7. Reaches(Line, m + 1)
    BY <1>6 DEF Flow, LineInv, Sound, Reaches
  <1> HIDE DEF m, u
  <1>8. Continues(M, Line, m, u, count)
    BY DEF m, u
  <1>9. Reaches(M, m + count + 1)
    BY <1>4, <1>5, <1>6, <1>7, <1>8, Extend
  <1> QED
    BY <1>9 DEF m

(* The places of the line once count units have been appended.               *)
LEMMA LineAfter ==
  ASSUME Flow, NEW s \in Senders, pc[s] \in {"header", "payload"},
         NEW count \in 0 .. left[s], Put(s, count), UNCHANGED decoding
  PROVE  /\ Len(stream) \in Nat /\ count \in Nat /\ Len(stream') = Len(stream) + count
         /\ \A i \in 0 .. Len(stream) : Line'[i] = Line[i]
         /\ \A e \in 1 .. count : Line'[Len(stream) + e] = At(number[s], pc[s], Done(s) + e)
         /\ Line'[Len(stream) + count + 1] = Coming'
         /\ Last' = Last
  <1>1. /\ Len(stream) \in Nat /\ Len(stream') = Len(stream) + count
        /\ \A i \in 1 .. Len(stream) : stream'[i] = stream[i]
        /\ \A i \in 1 .. count : stream'[Len(stream) + i] = At(number[s], pc[s], Done(s) + i)
    BY PutUnits DEF Flow, Typed
  <1>2. Last' = Last
    BY DEF Last, decoding
  <1>3. count \in Nat
    BY Writing DEF Flow, Typed
  <1>4. \A i \in 0 .. Len(stream) : Line'[i] = Line[i]
    BY <1>1, <1>2, <1>3 DEF Line
  <1>5. \A e \in 1 .. count : Line'[Len(stream) + e] = At(number[s], pc[s], Done(s) + e)
    <2> SUFFICES ASSUME NEW e \in 1 .. count
                 PROVE  Line'[Len(stream) + e] = stream'[Len(stream) + e]
      BY <1>1
    <2> QED
      BY <1>1, <1>3 DEF Line
  <1>6. Line'[Len(stream) + count + 1] = Coming'
    BY <1>1, <1>3 DEF Line
  <1> QED
    BY <1>1, <1>2, <1>3, <1>4, <1>5, <1>6

(* A write without a tear.                                                   *)
LEMMA SoundWrite ==
  ASSUME Flow, Typed', torn = 0, torn' = 0, NEW s \in Senders, pc[s] \in {"header", "payload"},
         NEW count \in 0 .. left[s], Put(s, count), UNCHANGED <<frames, decoding>>,
         Coming' = Later(At(number[s], pc[s], Done(s)), count + 1)
  PROVE  Flow'
  <1> DEFINE M == Line'
             u == At(number[s], pc[s], Done(s))
  <1>1. u.n = number[s] /\ u.part = pc[s] /\ u.i = Done(s)
    BY DEF At
  <1>2. /\ Len(stream) \in Nat /\ count \in Nat /\ Len(stream') = Len(stream) + count
        /\ \A i \in 0 .. Len(stream) : M[i] = Line[i]
        /\ \A e \in 1 .. count : M[Len(stream) + e] = At(u.n, u.part, u.i + e)
        /\ M[Len(stream) + count + 1] = Later(u, count + 1)
        /\ Last' = Last
    BY <1>1, LineAfter
  <1>3. Reaches(M, Len(stream) + count + 1)
    <2> HIDE DEF M, u
    <2>1. Continues(M, Line, Len(stream), u, count)
      BY <1>2 DEF Continues
    <2> QED
      BY <2>1, WriteLine DEF u
  <1>4. Known' = Len(stream) + count + 1
    BY <1>2 DEF Known
  <1>5. LineInv'
    <2>1. \A i, j \in 0 .. Known' :
             i < j /\ j - i <= Run(M[i]) => M[j] = Later(M[i], j - i)
      BY <1>3, <1>4 DEF Reaches
    <2>2. \A x, d : (Run(x))' = Run(x) /\ (Later(x, d))' = Later(x, d)
      BY DEF Run, Later, PartLength, LengthIn, Beyond
    <2> QED
      BY <2>1 DEF LineInv, Run, Later, PartLength
  <1>6. TornInv'
    BY DEF TornInv
  <1>7. SyncInv'
    BY <1>2 DEF Flow, SyncInv, Sound, Units, decoding
  <1> QED
    BY <1>5, <1>6, <1>7 DEF Flow

(* A write behind a frame that was torn.                                     *)
LEMMA TornWrite ==
  ASSUME Flow, Typed', torn # 0, torn' = torn, NEW s \in Senders,
         pc[s] \in {"header", "payload"}, NEW count \in 0 .. left[s], Put(s, count),
         UNCHANGED <<frames, decoding>>
  PROVE  Flow'
  <1>1. /\ Len(stream) \in Nat /\ count \in Nat /\ Len(stream') = Len(stream) + count
        /\ \A i \in 0 .. Len(stream) : Line'[i] = Line[i]
        /\ \A e \in 1 .. count : Line'[Len(stream) + e] = At(number[s], pc[s], Done(s) + e)
        /\ Last' = Last
    BY LineAfter
  <1>2. /\ encoderMu = s /\ encoderMu # NoSender /\ number[s] = Len(frames)
        /\ Len(frames) \in Nat
    BY Writing DEF Flow, Typed
  <1>3. torn < number[s] /\ torn \in Nat
    BY <1>2, BoundsAssumption DEF Flow, TornInv, Typed, TypeOK
  <1>4. Known' = Len(stream) + count
    BY <1>1 DEF Known
  <1>5. ASSUME NEW i \in 0 .. Len(stream) + count, Sound(Line'[i])
        PROVE  /\ i \in 0 .. Len(stream) /\ Line'[i] = Line[i] /\ Sound(Line[i])
               /\ i + Run(Line[i]) <= Len(stream)
    <2>1. i \in 0 .. Len(stream)
      <3> SUFFICES ASSUME i > Len(stream)
                   PROVE  FALSE
        BY <1>1
      <3> DEFINE e == i - Len(stream)
      <3>1. e \in 1 .. count /\ i = Len(stream) + e
        BY <1>1
      <3> HIDE DEF e
      <3>2. Line'[i].n = number[s]
        <4>1. Line'[Len(stream) + e] = At(number[s], pc[s], Done(s) + e)
          BY <1>1, <3>1
        <4>2. At(number[s], pc[s], Done(s) + e).n = number[s]
          BY DEF At
        <4> QED
          BY <3>1, <4>1, <4>2
      <3> QED
        BY <1>2, <1>3, <1>5, <3>2 DEF Sound
    <2> QED
      BY <1>1, <1>5, <2>1 DEF Flow, TornInv
  <1>6. LineInv'
    <2> SUFFICES ASSUME NEW i \in 0 .. Len(stream) + count, NEW j \in 0 .. Len(stream) + count,
                        i < j, Sound(Line'[i]),
                        j - i <= LengthIn(frames, Line'[i]) - Line'[i].i + 1
                 PROVE  Line'[j] = IF Line'[i].i + (j - i) <= LengthIn(frames, Line'[i])
                                   THEN At(Line'[i].n, Line'[i].part, Line'[i].i + (j - i))
                                   ELSE Beyond(Line'[i])
      BY <1>4 DEF LineInv, Run, Later, PartLength, Sound, Beyond
    <2>1. /\ i \in 0 .. Len(stream) /\ Line'[i] = Line[i] /\ Sound(Line[i])
          /\ i + Run(Line[i]) <= Len(stream)
      BY <1>5
    <2>2. j - i <= Run(Line[i])
      BY <2>1 DEF Run, PartLength
    <2>3. Run(Line[i]) \in Int
      BY <2>1, LineWithin DEF Run
    <2>4. j \in 0 .. Len(stream) /\ j \in 0 .. Known /\ i \in 0 .. Known
      BY <1>1, <2>1, <2>2, <2>3, LineUnits DEF Flow
    <2>5. Line[j] = Later(Line[i], j - i)
      BY <2>1, <2>2, <2>4 DEF Flow, LineInv
    <2> QED
      BY <1>1, <2>1, <2>4, <2>5 DEF Later, PartLength
  <1>7. TornInv'
    <2>1. ASSUME NEW i \in 0 .. Len(stream) + count, Sound(Line'[i])
          PROVE  i + (LengthIn(frames, Line'[i]) - Line'[i].i + 1) <= Len(stream) + count
      <3>1. Run(Line[i]) \in Int /\ i \in Int
        BY <1>5, <2>1, LineWithin DEF Run
      <3>2. i + Run(Line[i]) <= Len(stream) /\ Line'[i] = Line[i]
        BY <1>5, <2>1
      <3> QED
        BY <1>1, <3>1, <3>2 DEF Run, PartLength
    <2>2. torn <= Len(frames) /\ torn < Len(frames)
      BY <1>2, <1>3
    <2> QED
      BY <1>1, <2>1, <2>2 DEF TornInv, Run, PartLength, Sound
  <1>8. SyncInv'
    BY <1>1 DEF Flow, SyncInv, Sound, Units, decoding
  <1> QED
    BY <1>6, <1>7, <1>8 DEF Flow

LEMMA OnwardFlow ==
  ASSUME Flow, NEW s \in Senders, WriteSome(s) \/ WriteHeader(s)
  PROVE  Flow'
  <1>1. Typed' /\ Steady /\ Typed
    BY OnwardTyped DEF Flow
  <1>2. pc[s] \in {"header", "payload"}
    BY DEF WriteSome, WriteHeader
  <1>3. PICK count \in 1 .. left[s] :
          /\ Put(s, count)
          /\ \/ /\ count < left[s] /\ pc' = pc /\ left' = [left EXCEPT ![s] = @ - count]
             \/ /\ count = left[s] /\ pc[s] = "header"
                /\ pc' = [pc EXCEPT ![s] = "payload"]
                /\ left' = [left EXCEPT ![s] = Size(frames[number[s]])]
    BY <1>1, Onward
  <1>4. UNCHANGED <<encoderMu, frames, torn, number, decoding>>
    BY DEF WriteSome, WriteHeader
  <1>5. /\ encoderMu = s /\ encoderMu # NoSender
        /\ number[s] = Len(frames) /\ Len(frames) \in 1 .. MaxFrames
        /\ left[s] \in 1 .. PartSize(s) /\ PartSize(s) \in Nat \ {0}
        /\ Done(s) \in 0 .. PartSize(s) - 1 /\ Done(s) + left[s] = PartSize(s)
        /\ PartSize(s) = PartLength(At(number[s], pc[s], 1))
    BY <1>1, <1>2, Writing DEF Typed
  <1>6. count \in 0 .. left[s]
    BY <1>5
  <1>7. CASE torn # 0
    BY <1>1, <1>2, <1>3, <1>4, <1>6, <1>7, TornWrite
  <1>8. CASE torn = 0
    <2> DEFINE u == At(number[s], pc[s], Done(s))
    <2>1. u.n = number[s] /\ u.part = pc[s] /\ u.i = Done(s) /\ PartLength(u) = PartSize(s)
      BY <1>5 DEF At, PartLength, LengthIn
    <2>2. Coming' = Later(u, count + 1)
      <3>1. Coming' = At(number[s], pc'[s], Done(s)' + 1)
        BY <1>4, <1>5 DEF Coming, Done, PartSize
      <3>2. CASE count < left[s] /\ pc' = pc /\ left' = [left EXCEPT ![s] = @ - count]
        <4>1. Done(s)' = Done(s) + count
          <5>1. left'[s] = left[s] - count /\ left[s] \in Nat
            BY <1>1, <1>5, <3>2 DEF Typed, TypeOK
          <5>2. PartSize(s)' = PartSize(s)
            BY <1>4, <3>2 DEF PartSize
          <5>3. Done(s)' = PartSize(s) - left'[s] /\ Done(s) = PartSize(s) - left[s]
            BY <5>2 DEF Done
          <5> QED
            BY <1>5, <5>1, <5>3
        <4>2. Done(s) + (count + 1) <= PartSize(s) /\ Done(s)' + 1 = Done(s) + (count + 1)
          BY <1>5, <3>2, <4>1
        <4> HIDE DEF u
        <4>3. Later(u, count + 1) = At(number[s], pc[s], Done(s) + (count + 1))
          BY <2>1, <4>2 DEF Later
        <4> QED
          BY <3>1, <3>2, <4>2, <4>3
      <3>3. CASE /\ count = left[s] /\ pc[s] = "header"
                 /\ pc' = [pc EXCEPT ![s] = "payload"]
                 /\ left' = [left EXCEPT ![s] = Size(frames[number[s]])]
        <4>1. Size(frames[number[s]]) \in Nat
          BY <1>1, <1>5, FrameSize DEF Typed
        <4>2. pc'[s] = "payload" /\ Done(s)' = 0
          BY <1>1, <1>4, <3>3, <4>1 DEF Done, PartSize, Typed, TypeOK
        <4>3. ~(Done(s) + (count + 1) <= PartSize(s))
          BY <1>5, <3>3
        <4> HIDE DEF u
        <4>4. Later(u, count + 1) = At(number[s], "payload", 1)
          BY <2>1, <3>3, <4>3 DEF Later, Beyond
        <4> QED
          BY <3>1, <4>2, <4>4
      <3> QED
        BY <1>3, <3>2, <3>3
    <2> HIDE DEF u
    <2>3. torn' = 0 /\ UNCHANGED <<frames, decoding>>
      BY <1>4, <1>8
    <2> QED
      BY <1>1, <1>2, <1>3, <1>6, <1>8, <2>2, <2>3, SoundWrite DEF u
  <1> QED
    BY <1>1, <1>7, <1>8 DEF Typed, TypeOK

(* Where the first torn frame cuts the line: everything before it is there.  *)
LEMMA TearLine ==
  ASSUME Flow, torn = 0, NEW s \in Senders, pc[s] \in {"header", "payload"},
         NEW count \in 0 .. left[s], ~Withdrawn(s, count),
         NEW i \in 0 .. Len(stream), Line[i].n < number[s]
  PROVE  i + Run(Line[i]) <= Len(stream) + count
  <1> DEFINE m == Len(stream)
             v == Line[i]
             d == m + 1 - i
  <1>1. /\ encoderMu = s /\ encoderMu # NoSender /\ Done(s) \in Nat
        /\ left[s] \in Nat /\ number[s] \in Nat
    BY Writing DEF Flow, Typed
  <1>2. /\ Known = m + 1 /\ m \in Nat /\ count \in Nat
        /\ Line[m + 1] = At(number[s], pc[s], Done(s) + 1)
    BY <1>1, LineUnits DEF Flow, Known, Coming
  <1>3. v.i \in Nat /\ PartLength(v) \in Nat /\ v.i <= PartLength(v)
    BY LineWithin DEF Sound
  <1>4. d \in Nat \ {0} /\ i \in 0 .. Known /\ m + 1 \in 0 .. Known /\ i < m + 1
    BY <1>2
  <1>5. d <= Run(v) => At(number[s], pc[s], Done(s) + 1) = Later(v, d)
    BY <1>2, <1>4 DEF Flow, LineInv, Sound
  <1>6. v.n < number[s]
    OBVIOUS
  <1> HIDE DEF v
  <1>7. CASE d <= Run(v)
    <2>1. /\ At(number[s], pc[s], Done(s) + 1).n = number[s]
          /\ At(number[s], pc[s], Done(s) + 1).part = pc[s]
          /\ At(number[s], pc[s], Done(s) + 1).i = Done(s) + 1
      BY DEF At
    <2>2. ~(v.i + d <= PartLength(v))
      <3> SUFFICES ASSUME v.i + d <= PartLength(v)
                   PROVE  FALSE
        OBVIOUS
      <3>1. Later(v, d).n = v.n
        BY DEF Later, At
      <3>2. number[s] = v.n
        BY <1>5, <1>7, <2>1, <3>1
      <3> QED
        BY <1>1, <1>6, <3>2
    <2>3. At(number[s], pc[s], Done(s) + 1) = Beyond(v) /\ d = Run(v)
      <3>1. Later(v, d) = Beyond(v)
        BY <2>2 DEF Later
      <3>2. d = Run(v)
        BY <1>3, <1>4, <1>7, <2>2 DEF Run
      <3> QED
        BY <1>5, <1>7, <3>1, <3>2
    <2>4. v.part # "header"
      <3> SUFFICES ASSUME v.part = "header"
                   PROVE  FALSE
        OBVIOUS
      <3>1. Beyond(v).n = v.n
        BY DEF Beyond, At
      <3> QED
        BY <1>1, <1>6, <2>1, <2>3, <3>1
    <2>5. Beyond(v).part = "header" /\ Beyond(v).i = 1
      BY <2>4 DEF Beyond, At
    <2>6. pc[s] = "header" /\ Done(s) = 0
      BY <1>1, <2>1, <2>3, <2>5
    <2>7. count >= 1
      BY <1>2, <2>6 DEF Withdrawn
    <2> QED
      BY <1>2, <1>4, <2>3, <2>7 DEF v
  <1>8. CASE ~(d <= Run(v))
    <2>1. Run(v) \in Int
      BY <1>3 DEF Run
    <2> QED
      BY <1>2, <1>4, <1>8, <2>1 DEF v
  <1> QED
    BY <1>7, <1>8 DEF v

LEMMA TearFlow ==
  ASSUME Flow, Typed', torn = 0, NEW s \in Senders, pc[s] \in {"header", "payload"},
         NEW count \in 0 .. left[s], Put(s, count), ~Withdrawn(s, count),
         torn' = number[s], encoderMu' = NoSender, UNCHANGED <<frames, decoding>>
  PROVE  Flow'
  <1> DEFINE u == At(number[s], pc[s], Done(s))
             m == Len(stream)
             M == [j \in 0 .. m + count + 1 |->
                     IF j <= m + count THEN Line'[j] ELSE Later(u, count + 1)]
  <1>1. /\ encoderMu = s /\ encoderMu # NoSender /\ number[s] = Len(frames)
        /\ Len(frames) \in Nat \ {0}
    BY Writing DEF Flow, Typed
  <1>2. /\ m \in Nat /\ count \in Nat /\ Len(stream') = m + count
        /\ \A i \in 0 .. m : Line'[i] = Line[i]
        /\ \A e \in 1 .. count : Line'[m + e] = At(number[s], pc[s], Done(s) + e)
        /\ Last' = Last
    BY LineAfter
  <1>3. u.n = number[s] /\ u.part = pc[s] /\ u.i = Done(s)
    BY DEF At
  <1>4. Continues(M, Line, m, u, count)
    <2> HIDE DEF u, m
    <2>1. \A i \in 0 .. m : M[i] = Line[i]
      BY <1>2
    <2>2. \A e \in 1 .. count : M[m + e] = At(u.n, u.part, u.i + e)
      BY <1>2, <1>3
    <2>3. M[m + count + 1] = Later(u, count + 1)
      BY <1>2
    <2> HIDE DEF M
    <2> QED
      BY <2>1, <2>2, <2>3 DEF Continues
  <1> HIDE DEF M
  <1>5. Reaches(M, m + count + 1)
    BY <1>4, WriteLine
  <1> HIDE DEF u, m
  <1>6. \A j \in 0 .. m + count : M[j] = Line'[j] /\ j \in 0 .. m + count + 1
    BY <1>2 DEF M
  <1>7. Known' = m + count
    BY <1>1, <1>2 DEF Known
  <1>8. LineInv'
    <2> SUFFICES ASSUME NEW i \in 0 .. m + count, NEW j \in 0 .. m + count, i < j,
                        j - i <= LengthIn(frames, Line'[i]) - Line'[i].i + 1
                 PROVE  Line'[j] = IF Line'[i].i + (j - i) <= LengthIn(frames, Line'[i])
                                   THEN At(Line'[i].n, Line'[i].part, Line'[i].i + (j - i))
                                   ELSE Beyond(Line'[i])
      BY <1>7 DEF LineInv, Run, Later, PartLength, Beyond
    <2>1. M[i] = Line'[i] /\ M[j] = Line'[j] /\ i \in 0 .. m + count + 1 /\ j \in 0 .. m + count + 1
      BY <1>6
    <2>2. j - i <= Run(M[i])
      BY <2>1 DEF Run, PartLength
    <2>3. M[j] = Later(M[i], j - i)
      BY <1>5, <2>1, <2>2 DEF Reaches
    <2> QED
      BY <2>1, <2>3 DEF Later, PartLength
  <1>9. TornInv'
    <2>1. ASSUME NEW i \in 0 .. m + count, Line'[i].n < number[s]
          PROVE  i + (LengthIn(frames, Line'[i]) - Line'[i].i + 1) <= m + count
      <3>1. i \in 0 .. m
        <4> SUFFICES ASSUME i > m
                     PROVE  FALSE
          BY <1>2
        <4> DEFINE e == i - m
        <4>1. e \in 1 .. count /\ i = m + e
          BY <1>2
        <4> HIDE DEF e
        <4>2. Line'[m + e] = At(number[s], pc[s], Done(s) + e)
          BY <1>2, <4>1
        <4>3. At(number[s], pc[s], Done(s) + e).n = number[s]
          BY DEF At
        <4>4. number[s] < number[s]
          BY <2>1, <4>1, <4>2, <4>3
        <4> QED
          BY <1>1, <4>4
      <3>2. Line'[i] = Line[i] /\ Line[i].n < number[s]
        BY <1>2, <2>1, <3>1
      <3>3. i + Run(Line[i]) <= m + count
        BY <3>1, <3>2, TearLine DEF m
      <3> QED
        BY <3>2, <3>3 DEF Run, PartLength
    <2>2. torn' <= Len(frames)
      BY <1>1
    <2>3. \A x : Sound(x)' => x.n < number[s]
      BY <1>1 DEF Sound
    <2> QED
      BY <1>2, <2>1, <2>2, <2>3 DEF TornInv, Run, PartLength, Sound
  <1>10. SyncInv'
    BY <1>2 DEF Flow, SyncInv, Sound, Units, decoding
  <1> QED
    BY <1>8, <1>9, <1>10 DEF Flow

LEMMA EndFlow ==
  ASSUME Flow, NEW s \in Senders, WritePayload(s) \/ WriteFails(s)
  PROVE  Flow'
  <1>1. Typed' /\ Steady /\ Typed /\ encoderMu' = NoSender
    BY EndTyped DEF Flow
  <1>2. pc[s] \in {"header", "payload"} /\ UNCHANGED decoding
    BY <1>1, EndOfWrite
  <1>3. PICK count \in 0 .. left[s] :
               /\ Put(s, count)
               /\ \/ /\ pc[s] = "payload" /\ count = left[s] /\ WritePayload(s)
                     /\ UNCHANGED <<frames, torn>>
                  \/ /\ Withdrawn(s, count) /\ WriteFails(s)
                     /\ frames' = SubSeq(frames, 1, Len(frames) - 1) /\ UNCHANGED torn
                  \/ /\ ~Withdrawn(s, count) /\ WriteFails(s)
                     /\ torn' = (IF torn = 0 THEN number[s] ELSE torn) /\ UNCHANGED frames
    BY <1>1, EndOfWrite
  <1>4. /\ encoderMu = s /\ encoderMu # NoSender
        /\ number[s] = Len(frames) /\ Len(frames) \in 1 .. MaxFrames
        /\ Done(s) \in Nat /\ Done(s) + left[s] = PartSize(s) /\ left[s] \in Nat
        /\ PartSize(s) = PartLength(At(number[s], pc[s], 1))
    BY <1>1, <1>2, Writing DEF Typed
  <1>5. torn \in Nat /\ (torn # 0 => torn < Len(frames))
    BY <1>1, <1>4, BoundsAssumption DEF Typed, TypeOK, Flow, TornInv
  <1>6. CASE pc[s] = "payload" /\ count = left[s] /\ UNCHANGED <<frames, torn>>
    <2>1. CASE torn # 0
      BY <1>1, <1>2, <1>3, <1>6, <2>1, TornWrite
    <2>2. CASE torn = 0
      <3> DEFINE u == At(number[s], pc[s], Done(s))
      <3>1. u.n = number[s] /\ u.part = pc[s] /\ u.i = Done(s) /\ PartLength(u) = PartSize(s)
        BY <1>4 DEF At, PartLength, LengthIn
      <3> HIDE DEF u
      <3>2. ~(u.i + (count + 1) <= PartLength(u))
        BY <1>4, <1>6, <3>1
      <3>3. Later(u, count + 1) = At(Len(frames) + 1, "header", 1)
        BY <1>4, <1>6, <3>1, <3>2 DEF Later, Beyond
      <3>4. Coming' = Later(u, count + 1)
        BY <1>1, <1>6, <3>3 DEF Coming
      <3> QED
        BY <1>1, <1>2, <1>3, <1>6, <2>2, <3>4, SoundWrite DEF u
    <2> QED
      BY <2>1, <2>2
  <1>7. CASE /\ Withdrawn(s, count) /\ frames' = SubSeq(frames, 1, Len(frames) - 1)
             /\ UNCHANGED torn
    <2>1. count = 0 /\ Done(s) = 0 /\ pc[s] = "header"
      BY <1>4, <1>7 DEF Withdrawn
    <2>2. stream' = stream
      <3>1. /\ stream' \in Seq(Unit) /\ Len(stream') = Len(stream) + 0
            /\ \A i \in 1 .. Len(stream) : stream'[i] = stream[i]
        BY <1>1, <1>2, <1>3, <2>1, PutUnits DEF Typed
      <3>2. stream \in Seq(Unit) /\ Len(stream) \in Nat
        BY <1>1, Reading
      <3> QED
        BY <3>1, <3>2, SeqEqual
    <2>3. Len(frames') = Len(frames) - 1
      <3>1. \A i \in 1 .. Len(frames) - 1 : frames[i] \in Messages
        BY <1>1, <1>4, FrameSize DEF Typed
      <3>2. Len(frames') = IF 1 <= Len(frames) - 1 THEN (Len(frames) - 1) - 1 + 1 ELSE 0
        BY <1>4, <1>7, <3>1, SubSeqProperties
      <3>3. Len(frames) \in Nat \ {0}
        BY <1>4
      <3>4. CASE Len(frames) = 1
        BY <3>2, <3>4
      <3>5. CASE Len(frames) # 1
        <4>1. 1 <= Len(frames) - 1 /\ (Len(frames) - 1) - 1 + 1 = Len(frames) - 1
          <5>1. \A k \in Nat \ {0} : k # 1 => 1 <= k - 1 /\ (k - 1) - 1 + 1 = k - 1
            OBVIOUS
          <5> QED
            BY <3>3, <3>5, <5>1
        <4> QED
          BY <3>2, <4>1
      <3> QED
        BY <3>4, <3>5
    <2>4. Coming' = Coming
      BY <1>1, <1>4, <2>1, <2>3 DEF Coming
    <2>5. torn # 0 => torn <= Len(frames')
      BY <1>4, <1>5, <2>3
    <2> QED
      BY <1>1, <1>2, <1>7, <2>2, <2>4, <2>5, SameLine
  <1>8. CASE /\ ~Withdrawn(s, count)
             /\ torn' = (IF torn = 0 THEN number[s] ELSE torn) /\ UNCHANGED frames
    <2>1. CASE torn # 0
      BY <1>1, <1>2, <1>3, <1>8, <2>1, TornWrite
    <2>2. CASE torn = 0
      BY <1>1, <1>2, <1>3, <1>8, <2>2, TearFlow
    <2> QED
      BY <2>1, <2>2
  <1> QED
    BY <1>3, <1>6, <1>7, <1>8

(* The first unit that the decoder has still to read of a part it has begun. *)
LEMMA Advance ==
  ASSUME NEW m \in Nat, NEW L, NEW M,
         \A i, j \in 0 .. m :
            i < j /\ Sound(L[i]) /\ j - i <= Run(L[i]) => L[j] = Later(L[i], j - i),
         \A j \in 1 .. m : M[j] = L[j],
         Sound(M[0]) =>
            /\ Sound(L[0]) /\ PartLength(L[0]) \in Nat /\ L[0].i = PartLength(L[0])
            /\ Beyond(L[0]) = At(M[0].n, M[0].part, 1)
            /\ M[0].i = 0 /\ PartLength(M[0]) \in Nat \ {0}
  PROVE  /\ \A i, j \in 0 .. m :
               i < j /\ Sound(M[i]) /\ j - i <= Run(M[i]) => M[j] = Later(M[i], j - i)
         /\ Sound(M[0]) /\ m # 0 =>
               /\ Sound(L[1]) /\ Run(L[0]) = 1
               /\ Run(L[1]) \in Int /\ Run(M[0]) = Run(L[1]) + 1
  <1>1. ASSUME Sound(M[0]), m # 0
        PROVE  /\ L[1] = At(M[0].n, M[0].part, 1) /\ L[1].i = 1
               /\ L[1].n = M[0].n /\ L[1].part = M[0].part
               /\ PartLength(L[1]) = PartLength(M[0]) /\ Sound(L[1])
               /\ Run(L[0]) = 1 /\ Run(L[1]) \in Int /\ Run(M[0]) = Run(L[1]) + 1
    <2>1. /\ Sound(L[0]) /\ 1 \in 0 .. m /\ 0 \in 0 .. m
          /\ L[0].i = PartLength(L[0]) /\ PartLength(L[0]) \in Nat
          /\ Beyond(L[0]) = At(M[0].n, M[0].part, 1) /\ M[0].i = 0
          /\ PartLength(M[0]) \in Nat \ {0}
      BY <1>1
    <2>2. Run(L[0]) = 1
      BY <2>1 DEF Run
    <2>3. L[1] = Later(L[0], 1)
      <3>1. 0 < 1 /\ 1 - 0 <= Run(L[0]) /\ 1 - 0 = 1
        BY <2>2
      <3> QED
        BY <2>1, <3>1
    <2>4. L[1] = At(M[0].n, M[0].part, 1)
      <3>1. ~(L[0].i + 1 <= PartLength(L[0]))
        BY <2>1
      <3> QED
        BY <2>1, <2>3, <3>1 DEF Later
    <2>5. L[1].n = M[0].n /\ L[1].part = M[0].part /\ L[1].i = 1
      BY <2>4 DEF At
    <2>6. PartLength(L[1]) = PartLength(M[0]) /\ Sound(L[1])
      BY <1>1, <2>5 DEF PartLength, LengthIn, Sound
    <2> QED
      BY <2>1, <2>2, <2>4, <2>5, <2>6 DEF Run
  <1>2. ASSUME NEW i \in 0 .. m, NEW j \in 0 .. m, i < j, Sound(M[i]), j - i <= Run(M[i])
        PROVE  M[j] = Later(M[i], j - i)
    <2>1. CASE i # 0
      <3>1. i \in 1 .. m /\ j \in 1 .. m
        BY <1>2, <2>1
      <3> QED
        BY <1>2, <3>1
    <2>2. CASE i = 0
      <3>1. /\ j \in 1 .. m /\ 1 \in 0 .. m /\ m # 0 /\ Sound(M[0]) /\ j - 0 = j
            /\ M[0].i = 0 /\ PartLength(M[0]) \in Nat \ {0} /\ 1 \in 1 .. m
        BY <1>2, <2>2
      <3>2. j <= PartLength(M[0]) + 1
        BY <1>2, <2>2, <3>1 DEF Run
      <3>3. CASE j = 1
        <4>1. M[1] = At(M[0].n, M[0].part, 1)
          BY <1>1, <3>1
        <4>2. Later(M[0], 1) = At(M[0].n, M[0].part, 1)
          BY <3>1 DEF Later
        <4> QED
          BY <2>2, <3>1, <3>3, <4>1, <4>2
      <3>4. CASE j > 1
        <4>1. 1 < j /\ j - 1 <= Run(L[1])
          BY <1>1, <3>1, <3>2, <3>4 DEF Run
        <4>2. L[j] = Later(L[1], j - 1)
          BY <1>1, <3>1, <4>1
        <4>3. 1 + (j - 1) = j /\ 0 + j = j
          BY <3>1
        <4>4. Later(L[1], j - 1) = Later(M[0], j)
          BY <1>1, <3>1, <4>3 DEF Later, Beyond
        <4> QED
          BY <2>2, <3>1, <4>2, <4>4
      <3> QED
        BY <3>1, <3>3, <3>4
    <2> QED
      BY <2>1, <2>2
  <1> QED
    BY <1>1, <1>2

(* Reading moves along the line.                                             *)
LEMMA ReadFlow ==
  ASSUME Flow, ReadSome
  PROVE  Flow'
  <1>1. Typed' /\ Typed
    BY ReadTyped DEF Flow
  <1>2. PICK count \in 1 .. Len(stream) :
               /\ Len(got) + count <= Need
               /\ Len(got') = Len(got) + count
               /\ \A i \in 1 .. Len(got) : got'[i] = got[i]
               /\ \A i \in 1 .. count : got'[Len(got) + i] = stream[i]
               /\ Len(stream') = Len(stream) - count
               /\ \A i \in 1 .. Len(stream) - count : stream'[i] = stream[count + i]
    BY <1>1, ReadTyped
  <1>3. UNCHANGED <<encoderMu, frames, torn, pc, number, left, phase, expected, results>>
    BY DEF ReadSome, sending
  <1> DEFINE m == Len(stream)
             k == Len(results) + 1
  <1>4. /\ m \in Nat /\ Len(got) \in Nat /\ Need \in Nat \ {0} /\ count \in Nat \ {0}
        /\ count <= m
    BY <1>1, Reading
  <1>5. Coming' = Coming
    BY <1>3 DEF Coming, Done, PartSize
  <1>6. Last.n = k /\ Last.part = phase /\ Last.i = Len(got)
        /\ Last'.n = k /\ Last'.part = phase /\ Last'.i = Len(got) + count
        /\ Last' = At(k, phase, Len(got) + count)
    BY <1>2, <1>3 DEF Last, At
  <1>7. ASSUME NEW j \in 1 .. m + 1 - count
        PROVE  Line'[j] = Line[count + j]
    BY <1>2, <1>4, <1>5 DEF Line
  <1>8. Line'[0] = Last' /\ Line[0] = Last /\ \A j \in 1 .. m : Line[j] = stream[j]
    BY <1>1, <1>2, <1>4, LineUnits DEF Line
  <1>9. Known' = Known - count /\ Known \in {m, m + 1}
    BY <1>1, <1>2, <1>3, <1>4, LineUnits DEF Known
  <1>10. ASSUME Sound(Last)
         PROVE  /\ PartLength(Last) = Need
                /\ \A i \in 1 .. count : stream[i] = At(k, phase, Len(got) + i)
    <2>1. PartLength(Last) = Need
      BY <1>6, <1>10 DEF Flow, SyncInv, PartLength, LengthIn, Need, Typed, TypeOK
    <2>2. ASSUME NEW i \in 1 .. count
          PROVE  stream[i] = At(k, phase, Len(got) + i)
      <3>1. /\ i \in 0 .. Known /\ 0 \in 0 .. Known /\ 0 < i /\ i - 0 = i /\ i \in 1 .. m
            /\ i <= Need - Len(got) + 1 /\ Len(got) + i <= Need
        BY <1>2, <1>4, <1>9
      <3>2. Line[i] = Later(Last, i)
        BY <1>6, <1>8, <1>10, <2>1, <3>1 DEF Flow, LineInv, Run
      <3> QED
        BY <1>6, <1>8, <2>1, <3>1, <3>2 DEF Later
    <2> QED
      BY <2>1, <2>2
  <1> HIDE DEF k
  <1>11. Sound(Last)' <=> Sound(Last)
    BY <1>3, <1>6 DEF Sound
  <1>12. Sound(Last) => Line'[0] = Line[count]
    BY <1>4, <1>6, <1>8, <1>10
  <1>13. ASSUME NEW i \in 0 .. Known', Sound(Line'[i])
         PROVE  Line'[i] = Line[count + i] /\ count + i \in 0 .. Known
    <2>1. CASE i = 0
      BY <1>3, <1>4, <1>6, <1>8, <1>9, <1>12, <1>13, <2>1 DEF Sound
    <2>2. CASE i # 0
      <3>1. i \in 1 .. m + 1 - count /\ count + i \in 0 .. Known
        BY <1>4, <1>9, <2>2
      <3> QED
        BY <1>7, <3>1
    <2> QED
      BY <2>1, <2>2
  <1>14. LineInv'
    <2> SUFFICES ASSUME NEW i \in 0 .. Known', NEW j \in 0 .. Known', i < j, Sound(Line'[i]),
                        j - i <= Run(Line'[i])
                 PROVE  Line'[j] = Later(Line'[i], j - i)
      BY <1>3 DEF LineInv, Run, Later, PartLength, Sound
    <2>1. Line'[i] = Line[count + i] /\ count + i \in 0 .. Known
      BY <1>13
    <2>2. j \in 1 .. m + 1 - count /\ count + j \in 0 .. Known
      BY <1>4, <1>9
    <2>3. Line'[j] = Line[count + j]
      BY <1>7, <2>2
    <2>4. count + i < count + j /\ (count + j) - (count + i) = j - i
      BY <1>4, <1>9
    <2> QED
      BY <2>1, <2>2, <2>3, <2>4 DEF Flow, LineInv
  <1>15. TornInv'
    <2>1. ASSUME torn # 0, NEW i \in 0 .. Len(stream'), Sound(Line'[i])
          PROVE  i + Run(Line'[i]) <= Len(stream')
      <3>1. Known' = Len(stream')
        BY <1>3, <2>1 DEF Known
      <3>2. Line'[i] = Line[count + i] /\ count + i \in 0 .. m
        BY <1>2, <1>4, <1>13, <2>1, <3>1
      <3>3. (count + i) + Run(Line[count + i]) <= m
        BY <2>1, <3>2 DEF Flow, TornInv
      <3>4. Run(Line[count + i]) \in Int
        BY <2>1, <3>2, LineWithin DEF Run
      <3> QED
        BY <1>2, <1>4, <3>2, <3>3, <3>4
    <2> QED
      BY <1>3, <2>1 DEF Flow, TornInv, Run, PartLength, Sound
  <1>16. SyncInv'
    <2> SUFFICES ASSUME Sound(Last)
                 PROVE  /\ got' = Units(k, phase, 0, Len(got'))
                        /\ phase = "payload" => expected = k
      BY <1>3, <1>11 DEF SyncInv, k
    <2>1. /\ got = Units(k, phase, 0, Len(got))
          /\ phase = "payload" => expected = k
      BY DEF Flow, SyncInv, k
    <2>2. got' \in Seq(Unit)
      BY <1>1 DEF Typed, TypeOK
    <2>3. ASSUME NEW i \in 1 .. Len(got')
          PROVE  got'[i] = [n |-> k, part |-> phase, i |-> 0 + i]
      <3>1. CASE i \in 1 .. Len(got)
        <4>1. got'[i] = got[i]
          BY <1>2, <3>1
        <4>2. got[i] = [n |-> k, part |-> phase, i |-> 0 + i]
          BY <2>1, <3>1 DEF Units
        <4> QED
          BY <4>1, <4>2
      <3>2. CASE i > Len(got)
        <4> DEFINE e == i - Len(got)
        <4>1. e \in 1 .. count /\ i = Len(got) + e
          BY <1>2, <1>4, <3>2
        <4> HIDE DEF e
        <4>2. got'[Len(got) + e] = At(k, phase, Len(got) + e)
          BY <1>2, <1>10, <4>1
        <4> QED
          BY <4>1, <4>2 DEF At
      <3> QED
        BY <1>4, <3>1, <3>2
    <2>4. got' = [i \in 1 .. Len(got') |-> [n |-> k, part |-> phase, i |-> 0 + i]]
      BY <2>2, <2>3, LenProperties
    <2> QED
      BY <2>1, <2>4 DEF Units
  <1> QED
    BY <1>1, <1>14, <1>15, <1>16 DEF Flow

LEMMA NoUnits ==
  ASSUME NEW n, NEW part
  PROVE  Units(n, part, 0, 0) = <<>>
  BY DEF Units

(* As long as no frame before was torn, the decoder meets whole headers of   *)
(* frames it admits, and whole payloads.                                     *)
LEMMA InStep ==
  ASSUME Flow, Sound(Last)
  PROVE  /\ PartLength(Last) = Need /\ Need \in Nat \ {0}
         /\ phase = "header" /\ Len(got) = HeaderUnits =>
               /\ IsHeader(got) /\ got[1].n = Len(results) + 1
               /\ Admits(Size(frames[got[1].n]))
               /\ Len(results) + 1 \in 1 .. Len(frames)
         /\ Complete => Whole /\ expected = Len(results) + 1
  <1> DEFINE k == Len(results) + 1
  <1>1. /\ got = Units(k, phase, 0, Len(got))
        /\ phase = "payload" => expected = k
    BY DEF Flow, SyncInv
  <1>2. PartLength(Last) = Need /\ Need \in Nat \ {0} /\ k \in Nat \ {0}
    <2>1. Last.n = k /\ Last.part = phase
      BY DEF Last, At
    <2> QED
      BY <1>1, <2>1, Reading DEF Flow, PartLength, LengthIn, Need, Typed, TypeOK
  <1> HIDE DEF k
  <1>3. ASSUME phase = "header", Len(got) = HeaderUnits
        PROVE  /\ IsHeader(got) /\ got[1].n = k /\ k \in 1 .. Len(frames)
               /\ Admits(Size(frames[k]))
    <2>1. got = Units(k, "header", 0, HeaderUnits) /\ 1 \in 1 .. HeaderUnits
      BY <1>1, <1>3, LimitsAssumption
    <2>2. got[1].n = k
      BY <2>1 DEF Units
    <2>3. k <= Begun
      BY <1>3, <2>1, <2>2 DEF Flow, Typed, UnitInv
    <2>4. k \in 1 .. Len(frames)
      BY <1>2, <2>3, BegunTyped DEF Flow, Typed
    <2>5. Admits(Size(frames[k]))
      BY <2>4, LimitsAssumption DEF Flow, Typed, FitInv, Fits, Admits
    <2> QED
      BY <2>1, <2>2, <2>4, <2>5 DEF IsHeader
  <1>4. ASSUME Complete
        PROVE  Whole /\ expected = k
    <2>1. phase = "payload" /\ Len(got) = Need /\ expected = k
      BY <1>1, <1>4 DEF Complete
    <2> QED
      BY <1>1, <2>1 DEF Whole
  <1> QED
    BY <1>2, <1>3, <1>4 DEF k

LEMMA TakeFlow ==
  ASSUME Flow, AcceptHeader \/ RefuseHeader \/ DecodeFrame \/ DecodeMixture
  PROVE  Flow'
  <1>1. Typed' /\ Typed /\ got' = <<>> /\ Len(got') = 0
    BY TakeTyped DEF Flow
  <1>2. UNCHANGED <<stream, encoderMu, frames, torn, pc, number, left>>
    BY DEF AcceptHeader, RefuseHeader, DecodeFrame, DecodeMixture, sending
  <1>3. Coming' = Coming /\ Known' = Known
    BY <1>2 DEF Coming, Known, Done, PartSize
  <1>4. /\ Last'.n = Len(results') + 1 /\ Last'.part = phase' /\ Last'.i = 0
        /\ Last.n = Len(results) + 1 /\ Last.part = phase /\ Last.i = Len(got)
    BY <1>1 DEF Last, At
  <1>5. Len(results) \in Nat /\ Len(results') \in {Len(results), Len(results) + 1}
    <2>1. CASE UNCHANGED results
      BY <1>1, <2>1, Reading
    <2>2. CASE \E r : results' = Append(results, r)
      BY <1>1, <2>2, Reading
    <2> QED
      BY <2>1, <2>2 DEF AcceptHeader, RefuseHeader, DecodeFrame, DecodeMixture
  <1>6. Sound(Last') => Sound(Last)
    BY <1>1, <1>2, <1>4, <1>5 DEF Sound, Typed, TypeOK
  <1>7. ASSUME Sound(Last')
        PROVE  /\ Sound(Last) /\ PartLength(Last) \in Nat /\ Last.i = PartLength(Last)
               /\ Beyond(Last) = At(Last'.n, Last'.part, 1)
               /\ PartLength(Last') \in Nat \ {0}
               /\ (phase' = "payload" => expected' = Len(results') + 1)
    <2>1. /\ Sound(Last) /\ PartLength(Last) = Need /\ Need \in Nat \ {0}
          /\ phase = "header" /\ Len(got) = HeaderUnits =>
               /\ IsHeader(got) /\ got[1].n = Len(results) + 1
               /\ Admits(Size(frames[got[1].n]))
               /\ Len(results) + 1 \in 1 .. Len(frames)
          /\ Complete => Whole /\ expected = Len(results) + 1
      BY <1>6, <1>7, InStep
    <2>2. CASE AcceptHeader
      <3>1. /\ phase = "header" /\ Len(got) = HeaderUnits /\ expected' = got[1].n
            /\ phase' = "payload" /\ results' = results
        BY <2>2 DEF AcceptHeader, Discard
      <3>2. Last.i = PartLength(Last)
        BY <1>4, <2>1, <3>1 DEF Need
      <3>3. Beyond(Last) = At(Last'.n, Last'.part, 1)
        BY <1>4, <3>1 DEF Beyond
      <3>4. PartLength(Last') \in Nat \ {0}
        BY <1>1, <1>4, <2>1, <3>1, FrameSize DEF PartLength, LengthIn, Typed
      <3> QED
        BY <2>1, <3>1, <3>2, <3>3, <3>4
    <2>3. CASE RefuseHeader
      BY <2>1, <2>3 DEF RefuseHeader
    <2>4. CASE DecodeFrame
      <3>1. /\ Complete /\ phase = "payload" /\ phase' = "header" /\ Len(got) = Need
            /\ \E r : results' = Append(results, r)
        BY <2>4 DEF DecodeFrame, Complete, Discard
      <3>2. Len(results') = Len(results) + 1
        BY <1>1, <3>1, Reading
      <3>3. Last.i = PartLength(Last)
        BY <1>4, <2>1, <3>1
      <3>4. Beyond(Last) = At(Last'.n, Last'.part, 1)
        BY <1>4, <3>1, <3>2 DEF Beyond
      <3>5. PartLength(Last') \in Nat \ {0}
        BY <1>4, <3>1, LimitsAssumption DEF PartLength, LengthIn
      <3> QED
        BY <2>1, <3>1, <3>3, <3>4, <3>5
    <2>5. CASE DecodeMixture
      BY <2>1, <2>5 DEF DecodeMixture
    <2> QED
      BY <2>2, <2>3, <2>4, <2>5
  <1> DEFINE m == Known
             L == Line
             M == Line'
  <1>8. /\ m \in Nat /\ M[0] = Last' /\ L[0] = Last /\ \A j \in 1 .. m : M[j] = L[j]
    BY <1>1, <1>2, <1>3, LineUnits DEF Line
  <1>9. \A i, j \in 0 .. m :
            i < j /\ Sound(L[i]) /\ j - i <= Run(L[i]) => L[j] = Later(L[i], j - i)
    BY DEF Flow, LineInv
  <1>10. Sound(M[0]) =>
            /\ Sound(L[0]) /\ PartLength(L[0]) \in Nat /\ L[0].i = PartLength(L[0])
            /\ Beyond(L[0]) = At(M[0].n, M[0].part, 1)
            /\ M[0].i = 0 /\ PartLength(M[0]) \in Nat \ {0}
    BY <1>4, <1>7, <1>8
  <1> HIDE DEF m, L, M
  <1>11. /\ \A i, j \in 0 .. m :
               i < j /\ Sound(M[i]) /\ j - i <= Run(M[i]) => M[j] = Later(M[i], j - i)
         /\ Sound(M[0]) /\ m # 0 =>
               /\ Sound(L[1]) /\ Run(L[0]) = 1
               /\ Run(L[1]) \in Int /\ Run(M[0]) = Run(L[1]) + 1
    BY <1>8, <1>9, <1>10, Advance
  <1>12. LineInv'
    BY <1>2, <1>3, <1>11 DEF m, M, LineInv, Run, Later, PartLength, Sound
  <1>13. TornInv'
    <2>1. ASSUME torn # 0, NEW i \in 0 .. Len(stream), Sound(M[i])
          PROVE  i + Run(M[i]) <= Len(stream)
      <3>1. m = Len(stream) /\ Len(stream) \in Nat
        BY <1>1, <2>1, Reading DEF m, Known
      <3>2. \A x \in 0 .. Len(stream) : Sound(L[x]) => x + Run(L[x]) <= Len(stream)
        BY <2>1 DEF Flow, TornInv, L
      <3>3. CASE i = 0
        <4>1. Sound(L[0]) /\ 0 \in 0 .. Len(stream)
          BY <1>10, <2>1, <3>1, <3>3
        <4>2. 0 + Run(L[0]) <= Len(stream)
          BY <3>2, <4>1
        <4>3. m # 0
          BY <1>10, <2>1, <3>1, <3>3, <4>2 DEF Run
        <4>4. Sound(L[1]) /\ Run(M[0]) = Run(L[1]) + 1 /\ Run(L[1]) \in Int
              /\ 1 \in 0 .. Len(stream)
          BY <1>11, <2>1, <3>1, <3>3, <4>3
        <4>5. 1 + Run(L[1]) <= Len(stream)
          BY <3>2, <4>4
        <4> QED
          BY <3>1, <3>3, <4>4, <4>5
      <3>4. CASE i # 0
        <4>1. M[i] = L[i]
          BY <1>8, <3>1, <3>4
        <4> QED
          BY <2>1, <3>2, <4>1
      <3> QED
        BY <3>3, <3>4
    <2> QED
      BY <1>2, <2>1 DEF Flow, TornInv, M, Run, PartLength, Sound
  <1>14. SyncInv'
    <2>1. got' = Units(Len(results') + 1, phase', 0, Len(got'))
      BY <1>1, NoUnits
    <2>2. Sound(Last)' => Sound(Last')
      BY <1>2 DEF Sound
    <2> QED
      BY <1>7, <2>1, <2>2 DEF SyncInv
  <1> QED
    BY <1>1, <1>12, <1>13, <1>14 DEF Flow

LEMMA EndsFlow ==
  ASSUME Flow, StreamEnds
  PROVE  Flow'
  <1>1. Typed' /\ Steady
    BY EndsTyped DEF Flow
  <1>2. UNCHANGED <<stream, closed, encoderMu, frames, torn, pc, number, left, phase, expected,
                    got, results>>
    BY DEF StreamEnds, sending
  <1>3. Line' = Line /\ Known' = Known /\ Last' = Last
    BY <1>2 DEF Line, Known, Last, Coming, Done, PartSize
  <1>4. LineInv' /\ TornInv' /\ SyncInv'
    BY <1>2, <1>3 DEF Flow, LineInv, TornInv, SyncInv, Run, Later, PartLength, Sound, Units
  <1> QED
    BY <1>1, <1>4 DEF Flow

LEMMA InitFlow == Init => Flow
  <1> SUFFICES ASSUME Init PROVE Flow
    OBVIOUS
  <1>1. Typed
    BY InitTyped
  <1>2. /\ stream = <<>> /\ got = <<>> /\ results = <<>> /\ frames = <<>> /\ torn = 0
        /\ encoderMu = NoSender /\ phase = "header"
        /\ Len(stream) = 0 /\ Len(got) = 0 /\ Len(results) = 0 /\ Len(frames) = 0
    BY DEF Init
  <1>3. Known = 1 /\ Last = At(1, "header", 0) /\ Coming = At(1, "header", 1)
    BY <1>2 DEF Known, Last, Coming
  <1>4. Line[0] = Last /\ Line[1] = Coming
    BY <1>2 DEF Line
  <1>5. Later(Line[0], 1) = Line[1]
    BY <1>3, <1>4, LimitsAssumption DEF Later, At, PartLength, LengthIn
  <1>6. LineInv
    <2> SUFFICES ASSUME NEW i \in 0 .. 1, NEW j \in 0 .. 1, i < j
                 PROVE  Line[j] = Later(Line[i], j - i)
      BY <1>3 DEF LineInv
    <2>1. i = 0 /\ j = 1 /\ j - i = 1
      OBVIOUS
    <2> QED
      BY <1>5, <2>1
  <1>7. TornInv
    BY <1>2 DEF TornInv
  <1>8. SyncInv
    BY <1>2, NoUnits DEF SyncInv
  <1> QED
    BY <1>1, <1>6, <1>7, <1>8 DEF Flow

LEMMA NextFlow ==
  ASSUME Flow, [Next]_vars
  PROVE  Flow'
  BY NextCases, AsideFlow, AcquireFlow, OnwardFlow, EndFlow, ReadFlow, TakeFlow, EndsFlow

LEMMA FlowInvariant == Spec => []Flow
  BY InitFlow, NextFlow, PTL DEF Spec

-----------------------------------------------------------------------------
(* The end of the stream.                                                    *)

LEMMA NextEnd ==
  ASSUME Flow, EndInv, [Next]_vars
  PROVE  EndInv'
  <1>1. Len(<<>>) = 0
    BY EmptySeq
  <1>2. CASE UNCHANGED vars
    BY <1>2 DEF vars, decoding, EndInv
  <1>3. CASE StreamEnds
    BY <1>3 DEF StreamEnds, EndOf, EndInv
  <1>4. CASE UNCHANGED <<stream, decoding>> /\ (closed => closed')
    BY <1>4 DEF EndInv, decoding
  <1>5. CASE ~closed /\ UNCHANGED decoding
    BY <1>5 DEF EndInv, decoding
  <1>6. CASE ReadSome
    BY <1>6 DEF ReadSome, EndInv
  <1>7. CASE AcceptHeader \/ RefuseHeader \/ DecodeFrame \/ DecodeMixture
    <2>1. ended' = ended
      BY <1>7 DEF AcceptHeader, RefuseHeader, DecodeFrame, DecodeMixture
    <2>2. ended # "eof"
      BY <1>1, <1>7, LimitsAssumption
         DEF AcceptHeader, RefuseHeader, DecodeFrame, DecodeMixture, Complete, EndInv
    <2> QED
      BY <2>1, <2>2 DEF EndInv
  <1>8. CASE \E s \in Senders : Start(s) \/ Send(s) \/ Write(s)
    <2>1. ~closed /\ UNCHANGED decoding
      BY <1>8 DEF Start, Send, Refuse, Acquire, Write, WriteSome, WriteHeader, WritePayload,
                  WriteFails
    <2> QED
      BY <1>5, <2>1
  <1>9. CASE Exit
    BY <1>5, <1>9 DEF Exit
  <1>10. CASE Quiet
    BY <1>2, <1>10 DEF Quiet
  <1> QED
    BY <1>2, <1>3, <1>6, <1>7, <1>8, <1>9, <1>10 DEF Next, Decode

(* A clean end of the stream loses nothing: when the decoder returns a bare  *)
(* io.EOF and no frame was torn, all that was sent has been read and nothing *)
(* was begun after it.                                                       *)
THEOREM CleanEnd == Spec => []EndIsClean
  <1>1. Flow /\ EndInv => EndIsClean
    <2> SUFFICES ASSUME Flow, EndInv, ended = "eof", torn = 0
                 PROVE  /\ Len(results) = Written
                        /\ \A s \in Senders : number[s] # 0 => pc[s] = "header" /\ Done(s) = 0
      BY DEF EndIsClean
    <2>1. stream = <<>> /\ got = <<>> /\ phase = "header" /\ Len(stream) = 0 /\ Len(got) = 0
      BY EmptySeq DEF EndInv
    <2>2. Known = 1 /\ Line[0] = Last /\ Line[1] = Coming
      BY <2>1, LineUnits DEF Known, Flow
    <2>3. /\ Last.n = Len(results) + 1 /\ Last.part = "header" /\ Last.i = 0
          /\ PartLength(Last) = HeaderUnits
      BY <2>1 DEF Last, At, PartLength, LengthIn
    <2>4. Coming = At(Len(results) + 1, "header", 1)
      <3>1. 0 < 1 /\ 1 - 0 = 1 /\ 1 <= Run(Last)
        BY <2>3, LimitsAssumption DEF Run
      <3>2. Coming = Later(Last, 1)
        BY <2>2, <3>1 DEF Flow, LineInv, Sound
      <3> QED
        BY <2>3, <3>2, LimitsAssumption DEF Later
    <2>5. Len(results) \in Nat /\ Len(frames) \in Nat /\ TypeOK /\ HoldInv
      BY Reading, BegunTyped DEF Flow, Typed
    <2>6. CASE encoderMu = NoSender
      <3>1. Len(frames) + 1 = Len(results) + 1
        BY <2>4, <2>6 DEF Coming, At
      <3>2. \A s \in Senders : number[s] = 0
        BY <2>5, <2>6, SendersAssumption DEF HoldInv
      <3> QED
        BY <2>5, <2>6, <3>1, <3>2 DEF Written
    <2>7. CASE encoderMu \in Senders
      <3>1. /\ encoderMu # NoSender
            /\ number[encoderMu] = Len(frames) /\ Done(encoderMu) \in Nat
        BY <2>5, <2>7, Writing, SendersAssumption DEF HoldInv
      <3>2. /\ number[encoderMu] = Len(results) + 1 /\ pc[encoderMu] = "header"
            /\ Done(encoderMu) + 1 = 1
        BY <2>4, <3>1 DEF Coming, At
      <3>3. \A s \in Senders : number[s] # 0 => s = encoderMu
        BY <2>5 DEF HoldInv
      <3> QED
        BY <2>5, <3>1, <3>2, <3>3 DEF Written
    <2> QED
      BY <2>5, <2>6, <2>7 DEF TypeOK
  <1>2. Init => EndInv
    BY DEF Init, EndInv
  <1> QED
    BY <1>1, <1>2, NextEnd, FlowInvariant, PTL DEF Spec

-----------------------------------------------------------------------------
(* The pipe that transport implements.                                       *)

Numbers == [i \in 1 .. Len(results) |-> results[i].n]

(* What a step does to the frames that count as written.                     *)
LEMMA WrittenTyped ==
  ASSUME Flow
  PROVE  Written \in Nat /\ Written <= MaxFrames /\ torn \in Nat
  <1>1. Len(frames) \in Nat /\ Len(frames) <= MaxFrames /\ torn \in Nat
    BY BegunTyped, BoundsAssumption DEF Flow, Typed, TypeOK, HoldInv
  <1>2. encoderMu # NoSender => Len(frames) # 0
    BY DEF Flow, Typed, TypeOK, HoldInv
  <1>3. torn # 0 => torn <= Len(frames)
    BY DEF Flow, TornInv
  <1> QED
    BY <1>1, <1>2, <1>3, BoundsAssumption DEF Written

(* The number that the decoder appends when it has read a frame.             *)
LEMMA ReadsNext ==
  ASSUME Flow, Complete, Sound(Last)
  PROVE  Whole /\ expected = Len(results) + 1 /\ Len(results) < Written
  <1>1. /\ PartLength(Last) = Need /\ Need \in Nat \ {0}
        /\ Whole /\ expected = Len(results) + 1
    BY InStep
  <1>2. /\ phase = "payload" /\ Len(got) = Need
        /\ Last.n = Len(results) + 1 /\ Last.part = "payload" /\ Last.i = Need
    BY DEF Complete, Last, At
  <1>3. Len(results) \in Nat /\ Len(frames) \in Nat /\ TypeOK /\ HoldInv
    BY Reading, BegunTyped DEF Flow, Typed
  <1>4. CASE torn # 0
    <2>1. Len(results) + 1 < torn /\ torn \in Nat
      BY <1>2, <1>4, WrittenTyped DEF Sound
    <2> QED
      BY <1>1, <1>3, <1>4, <2>1 DEF Written
  <1>5. CASE torn = 0
    <2>1. /\ Len(stream) \in Nat /\ Known = Len(stream) + 1 /\ Line[0] = Last
          /\ \A j \in 1 .. Len(stream) : Line[j] = stream[j]
          /\ Line[Len(stream) + 1] = Coming
      BY <1>5, LineUnits DEF Flow, Known
    <2>2. Line[1] = At(Len(results) + 2, "header", 1)
      <3>1. 0 < 1 /\ 1 - 0 = 1 /\ 1 <= Run(Last) /\ 0 \in 0 .. Known /\ 1 \in 0 .. Known
        BY <1>1, <1>2, <2>1 DEF Run
      <3>2. Line[1] = Later(Last, 1)
        BY <2>1, <3>1 DEF Flow, LineInv
      <3>3. ~(Last.i + 1 <= PartLength(Last)) /\ (Len(results) + 1) + 1 = Len(results) + 2
        BY <1>1, <1>2, <1>3
      <3>4. Later(Last, 1) = Beyond(Last)
        BY <3>3 DEF Later
      <3> QED
        BY <1>2, <3>2, <3>3, <3>4 DEF Beyond
    <2>3. Line[1].n = Len(results) + 2
      BY <2>2 DEF At
    <2>4. encoderMu # NoSender => encoderMu \in Senders /\ number[encoderMu] = Len(frames)
      BY <1>3 DEF TypeOK, HoldInv
    <2>5. CASE Len(stream) = 0
      <3>1. Coming.n = Len(results) + 2
        BY <2>1, <2>3, <2>5
      <3>2. Coming.n = IF encoderMu = NoSender THEN Len(frames) + 1 ELSE number[encoderMu]
        BY DEF Coming, At
      <3> QED
        BY <1>1, <1>3, <1>5, <2>4, <3>1, <3>2 DEF Written
    <2>6. CASE Len(stream) # 0
      <3>1. 1 \in 1 .. Len(stream)
        BY <2>1, <2>6
      <3>2. Len(results) + 2 <= Len(frames)
        <4>1. stream[1].n = Len(results) + 2 /\ stream[1].n <= Begun
          BY <2>1, <2>3, <3>1 DEF Flow, Typed, UnitInv
        <4> QED
          BY <1>3, <4>1, BegunTyped
      <3> QED
        BY <1>1, <1>3, <1>5, <3>2 DEF Written
    <2> QED
      BY <2>5, <2>6
  <1> QED
    BY <1>4, <1>5

LEMMA NumbersAppend ==
  ASSUME Typed, NEW r \in [n : 0 .. MaxFrames, ok : BOOLEAN], results' = Append(results, r)
  PROVE  Numbers' = Append(Numbers, r.n) /\ Len(Numbers) = Len(results)
  <1>1. /\ results' \in Seq([n : 0 .. MaxFrames, ok : BOOLEAN])
        /\ Len(results') = Len(results) + 1 /\ Len(results) \in Nat
        /\ \A i \in 1 .. Len(results) : results'[i] = results[i]
        /\ results'[Len(results) + 1] = r
    BY Reading, AppendProperties
  <1>2. ASSUME NEW i \in 1 .. Len(results)
        PROVE  results[i].n \in 0 .. MaxFrames
    <2>1. results[i] \in [n : 0 .. MaxFrames, ok : BOOLEAN]
      BY ElementOfSeq DEF Typed, TypeOK
    <2> QED
      BY <2>1
  <1>3. ASSUME NEW i \in 1 .. Len(results')
        PROVE  results'[i].n \in 0 .. MaxFrames
    <2>1. results'[i] \in [n : 0 .. MaxFrames, ok : BOOLEAN]
      BY <1>1, ElementOfSeq
    <2> QED
      BY <2>1
  <1>4. Numbers \in Seq(0 .. MaxFrames) /\ Len(Numbers) = Len(results)
    BY <1>1, <1>2 DEF Numbers
  <1>5. Numbers' \in Seq(0 .. MaxFrames) /\ Len(Numbers') = Len(results) + 1
    BY <1>1, <1>3 DEF Numbers
  <1>6. r.n \in 0 .. MaxFrames
    OBVIOUS
  <1>7. /\ Append(Numbers, r.n) \in Seq(0 .. MaxFrames)
        /\ Len(Append(Numbers, r.n)) = Len(results) + 1
        /\ \A i \in 1 .. Len(results) : Append(Numbers, r.n)[i] = Numbers[i]
        /\ Append(Numbers, r.n)[Len(results) + 1] = r.n
    BY <1>4, <1>6, AppendProperties
  <1>8. ASSUME NEW i \in 1 .. Len(results) + 1
        PROVE  Numbers'[i] = Append(Numbers, r.n)[i]
    <2>1. CASE i \in 1 .. Len(results)
      BY <1>1, <1>7, <2>1 DEF Numbers
    <2>2. CASE i = Len(results) + 1
      BY <1>1, <1>7, <2>2 DEF Numbers
    <2>3. i \in 1 .. Len(results) \/ i = Len(results) + 1
      BY <1>1
    <2> QED
      BY <2>1, <2>2, <2>3
  <1> QED
    BY <1>4, <1>5, <1>7, <1>8, SeqEqual

LEMMA PipeStutter ==
  ASSUME Written' = Written, UNCHANGED <<torn, results>>
  PROVE  [Pipe!Next]_(Pipe!vars)
  BY DEF Pipe!vars

(* The encoder's steps.                                                      *)
LEMMA WritePipe ==
  ASSUME Flow, NEW s \in Senders, WritePayload(s) \/ WriteFails(s)
  PROVE  [Pipe!Next]_(Pipe!vars)
  <1>1. /\ pc[s] \in {"header", "payload"} /\ Return(s)
        /\ UNCHANGED <<closed, decoding>>
    BY EndOfWrite DEF Flow
  <1>2. PICK count \in 0 .. left[s] :
          \/ UNCHANGED <<frames, torn>>
          \/ frames' = SubSeq(frames, 1, Len(frames) - 1) /\ UNCHANGED torn
          \/ torn' = (IF torn = 0 THEN number[s] ELSE torn) /\ UNCHANGED frames
    BY EndOfWrite DEF Flow
  <1>3. /\ encoderMu = s /\ encoderMu # NoSender
        /\ number[s] = Len(frames) /\ Len(frames) \in 1 .. MaxFrames
    BY <1>1, Writing DEF Flow, Typed
  <1>4. encoderMu' = NoSender /\ UNCHANGED results
    BY <1>1 DEF Return, UnlockEncoder, decoding
  <1>5. torn \in Nat /\ MaxFrames \in Nat
    BY WrittenTyped, BoundsAssumption
  <1>6. torn = 0 => Written = Len(frames) - 1
    BY <1>3 DEF Written
  <1>7. CASE torn # 0
    <2>1. torn' = torn
      BY <1>2, <1>7
    <2>2. Written' = Written
      BY <1>7, <2>1 DEF Written
    <2> QED
      BY <1>4, <2>1, <2>2, PipeStutter
  <1>8. CASE torn = 0 /\ UNCHANGED <<frames, torn>>
    <2>1. Written' = Len(frames)
      BY <1>4, <1>8 DEF Written
    <2>2. Written' = Written + 1 /\ Written < MaxFrames
      BY <1>3, <1>5, <1>6, <1>8, <2>1
    <2>3. Pipe!Write
      BY <1>4, <1>8, <2>2 DEF Pipe!Write
    <2> QED
      BY <2>3 DEF Pipe!Next
  <1>9. CASE torn = 0 /\ frames' = SubSeq(frames, 1, Len(frames) - 1) /\ UNCHANGED torn
    <2>1. Len(frames') = Len(frames) - 1
      BY <1>3, <1>9, SubSeqProperties DEF Flow, Typed, TypeOK
    <2>2. Written' = Written
      BY <1>4, <1>6, <1>9, <2>1 DEF Written
    <2> QED
      BY <1>4, <1>9, <2>2, PipeStutter
  <1>10. CASE torn = 0 /\ torn' = number[s] /\ UNCHANGED frames
    <2>1. torn' # 0 /\ Written' = torn' - 1
      BY <1>3, <1>10 DEF Written
    <2>2. Written' = Written
      BY <1>3, <1>6, <1>10, <2>1
    <2>3. Pipe!Tear
      BY <1>4, <2>1, <2>2 DEF Pipe!Tear
    <2> QED
      BY <2>3 DEF Pipe!Next
  <1> QED
    BY <1>2, <1>7, <1>8, <1>9, <1>10

(* The decoder's steps: a frame that is sound is the next, and any other     *)
(* comes after one was torn.                                                 *)
LEMMA ReadPipe ==
  ASSUME Flow, DecodeFrame \/ DecodeMixture
  PROVE  [Pipe!Next]_(Pipe!vars)
  <1>1. Complete /\ UNCHANGED <<frames, torn, encoderMu>> /\ Typed
    BY DEF DecodeFrame, DecodeMixture, sending, Flow
  <1>2. Written' = Written
    BY <1>1 DEF Written
  <1>3. Len(results) \in Nat /\ MaxFrames \in Nat
    BY <1>1, Reading, BoundsAssumption
  <1>4. CASE UNCHANGED results
    BY <1>1, <1>2, <1>4, PipeStutter
  <1>5. CASE ~UNCHANGED results
    <2>1. PICK r \in [n : 0 .. MaxFrames, ok : BOOLEAN] :
            results' = Append(results, r) /\ (Whole => r.n = expected)
      <3>1. CASE DecodeFrame
        <4>1. expected \in 1 .. Len(frames) /\ expected \in 1 .. MaxFrames
          BY <1>1, Reading DEF Complete
        <4>2. Decodes(frames[expected]) \in BOOLEAN
          <5>1. frames[expected] \in {m \in Messages : Size(m) <= EncoderLimit}
            BY <1>1, <4>1, ElementOfSeq DEF Typed, TypeOK
          <5> QED
            BY <5>1, DecodesBoolean
        <4>3. [n |-> expected, ok |-> Decodes(frames[expected])]
                 \in [n : 0 .. MaxFrames, ok : BOOLEAN]
          BY <4>1, <4>2
        <4> QED
          BY <3>1, <4>3 DEF DecodeFrame
      <3>2. CASE DecodeMixture
        <4>1. [n |-> 0, ok |-> TRUE] \in [n : 0 .. MaxFrames, ok : BOOLEAN]
          BY <1>3
        <4> QED
          BY <1>5, <3>2, <4>1 DEF DecodeMixture
      <3> QED
        BY <3>1, <3>2
    <2>2. Numbers' = Append(Numbers, r.n) /\ Len(Numbers) = Len(results) /\ r.n \in 0 .. MaxFrames
      BY <1>1, <2>1, NumbersAppend
    <2>3. CASE Sound(Last)
      <3>1. r.n = Len(Numbers) + 1 /\ Len(Numbers) < Written
        BY <1>1, <2>1, <2>2, <2>3, ReadsNext
      <3>2. Pipe!Read
        BY <1>1, <1>2, <2>2, <3>1 DEF Pipe!Read, Numbers
      <3> QED
        BY <3>2 DEF Pipe!Next
    <2>4. CASE ~Sound(Last)
      <3>1. torn # 0 /\ ~(Len(results) + 1 < torn) /\ torn \in Nat
        BY <2>4, WrittenTyped DEF Sound, Last, At
      <3>2. Len(Numbers) >= Written
        BY <1>3, <2>2, <3>1 DEF Written
      <3>3. Pipe!ReadBeyond
        BY <1>1, <1>2, <2>2, <3>1, <3>2 DEF Pipe!ReadBeyond, Numbers
      <3> QED
        BY <3>3 DEF Pipe!Next
    <2> QED
      BY <2>3, <2>4
  <1> QED
    BY <1>4, <1>5

LEMMA NextPipe ==
  ASSUME Flow, [Next]_vars
  PROVE  [Pipe!Next]_(Pipe!vars)
  <1>1. CASE UNCHANGED <<encoderMu, frames, torn, results>>
    BY <1>1, PipeStutter DEF Written
  <1>2. CASE UNCHANGED vars \/ Exit \/ Quiet \/ ReadSome \/ AcceptHeader \/ RefuseHeader
             \/ StreamEnds
    BY <1>1, <1>2
       DEF vars, sending, decoding, Exit, Quiet, ReadSome, AcceptHeader, RefuseHeader, StreamEnds
  <1>3. CASE \E s \in Senders : Start(s) \/ Refuse(s) \/ WriteSome(s) \/ WriteHeader(s)
    BY <1>1, <1>3 DEF Start, Refuse, WriteSome, WriteHeader, decoding
  <1>4. ASSUME NEW s \in Senders, Acquire(s)
        PROVE  [Pipe!Next]_(Pipe!vars)
    <2>1. encoderMu = NoSender /\ encoderMu' = s /\ UNCHANGED <<torn, results>>
      BY <1>4 DEF Acquire, Unlocked, decoding
    <2>2. PICK m \in {m \in Messages : Size(m) <= EncoderLimit} : frames' = Append(frames, m)
      BY <1>4, SizePositive, LimitsAssumption DEF Acquire, Fits
    <2>3. Len(frames') = Len(frames) + 1 /\ Len(frames) \in Nat
      BY <2>2, AppendProperties DEF Flow, Typed, TypeOK
    <2>4. Written' = Written
      BY <2>1, <2>3, SendersAssumption DEF Written
    <2> QED
      BY <2>1, <2>4, PipeStutter
  <1>5. CASE \E s \in Senders : WritePayload(s) \/ WriteFails(s)
    BY <1>5, WritePipe
  <1>6. CASE DecodeFrame \/ DecodeMixture
    BY <1>6, ReadPipe
  <1> QED
    BY <1>2, <1>3, <1>4, <1>5, <1>6 DEF Next, Decode, Send, Write

(* Whatever pieces the stream takes and gives, and however the senders       *)
(* interleave, whole frames come out in the order they were written, until   *)
(* one was torn (transport.go:216-279).                                      *)
THEOREM ArriveInOrder == Spec => FramesArrive
  <1>1. Init => Pipe!Init
    <2> SUFFICES ASSUME Init PROVE Pipe!Init
      OBVIOUS
    <2>1. Len(<<>>) = 0
      BY EmptySeq
    <2>2. Written = 0 /\ (torn # 0) = FALSE /\ results = <<>>
      BY <2>1 DEF Init, Written
    <2>3. [i \in 1 .. Len(results) |-> results[i].n] = <<>>
      BY <2>1, <2>2
    <2> QED
      BY <2>2, <2>3 DEF Pipe!Init
  <1> QED
    BY <1>1, FlowInvariant, NextPipe, PTL DEF Spec, FramesArrive, Pipe!Spec
=============================================================================
