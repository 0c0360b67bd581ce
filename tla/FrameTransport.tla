--------------------------- MODULE FrameTransport ---------------------------
(***************************************************************************)
(* Framing (runner/v1/transport.go, writeAll of codec.go, send of sdk.go): *)
(* goroutines that send messages through one TransportEncoder, a stream    *)
(* that takes and gives as many bytes at a time as it likes, and the       *)
(* TransportDecoder at its other end.                                      *)
(*                                                                         *)
(* Bytes are counted in units: a header is HeaderUnits of them and a       *)
(* payload as many as its parts. A unit knows the frame it is of, which    *)
(* the decoder uses for what the real one tells from the magic, the length *)
(* and the encoding. That payload bytes look like a header is left out.    *)
(***************************************************************************)
EXTENDS Integers, Sequences

CONSTANTS
    Senders,        (* goroutines that send                                  *)
    NoSender,       (* nobody                                                *)
    Messages,       (* [kind, metadata, body : sizes, readable : BOOLEAN]    *)
    EncoderLimit,   (* maxFrameBytes of the encoder                          *)
    DecoderLimit,   (* maxFrameBytes of the decoder                          *)
    MaxMetadata,    (* maxBatchMetadataBytes                                 *)
    LengthPrefix,   (* units of a batch's metadata length                    *)
    HeaderUnits,    (* units of a frame header                               *)
    PipeCapacity,   (* bound on the units in the stream                      *)
    MaxFrames       (* bound on the frames that are begun                    *)

(* A message is readable unless it exceeds a limit only the decoder's CBOR   *)
(* mode has. CBOR and Arrow IPC encode nothing into no bytes.                *)
Message == [kind : {"control", "batch"}, metadata : Nat \ {0}, body : Nat \ {0},
            readable : BOOLEAN]

ASSUME MessagesAssumption == Messages \subseteq Message
ASSUME SendersAssumption == NoSender \notin Senders
(* NewSession gives both ends one limit; the host has the default too.       *)
ASSUME LimitsAssumption ==
    /\ EncoderLimit \in Nat /\ DecoderLimit \in Nat /\ EncoderLimit <= DecoderLimit
    /\ MaxMetadata \in Nat
    /\ LengthPrefix \in Nat \ {0} /\ HeaderUnits \in Nat \ {0}
ASSUME BoundsAssumption == PipeCapacity \in Nat \ {0} /\ MaxFrames \in Nat

VARIABLES
    stream,     (* units written and not yet read                            *)
    closed,     (* the writing process has ended                             *)
    encoderMu,  (* holder of protocolSession.encoderMu                       *)
    frames,     (* messages in the order their frames were begun             *)
    torn,       (* number of the first frame that was written in part, or 0  *)
    pc,         (* where each sender is                                      *)
    number,     (* number of the frame it writes, or 0                       *)
    left,       (* units of the header or payload it has still to write      *)
    phase,      (* what the decoder reads: a header or a payload             *)
    expected,   (* number of the frame whose payload it reads                *)
    got,        (* units it has of it                                        *)
    results,    (* frames it has read to their end                           *)
    ended       (* how the stream ended for it                               *)

sending == <<encoderMu, frames, torn, pc, number, left>>
decoding == <<phase, expected, got, results, ended>>
vars == <<stream, closed, sending, decoding>>

-----------------------------------------------------------------------------
(* Sizes.                                                                    *)

Size(m) ==
    IF m.kind = "control" THEN m.body ELSE LengthPrefix + m.metadata + m.body

(* Mutant: the metadata is not capped.                                       *)
FitsAsAWhole(m) == Size(m) \in 1 .. EncoderLimit
(* Mutant: the length is not compared with the limit.                        *)
FitsAnyway(m) == Size(m) # 0
(* EncodeBatch caps the metadata, leaves room for some Arrow data, and lets  *)
(* the Arrow writer fill what remains of the frame; writeFrame caps it all.  *)
Fits(m) ==
    /\ m.kind = "batch" =>
         /\ m.metadata <= MaxMetadata
         /\ LengthPrefix + m.metadata < EncoderLimit
         /\ m.body <= EncoderLimit - (LengthPrefix + m.metadata)
    /\ Size(m) \in 1 .. EncoderLimit

(* Mutant: a frame of exactly the limit is refused.                          *)
AdmitsLess(size) == size \in 1 .. DecoderLimit - 1
(* Decode checks the length before it reads the payload.                     *)
Admits(size) == size \in 1 .. DecoderLimit

(* decodeBatch checks the metadata length against the cap and the payload.   *)
Decodes(m) ==
    /\ m.readable
    /\ m.kind = "batch" =>
         /\ Size(m) >= LengthPrefix
         /\ m.metadata \in 1 .. MaxMetadata
         /\ LengthPrefix + m.metadata < Size(m)

-----------------------------------------------------------------------------
Init ==
    /\ stream = <<>> /\ closed = FALSE
    /\ encoderMu = NoSender /\ frames = <<>> /\ torn = 0
    /\ pc = [s \in Senders |-> "idle"]
    /\ number = [s \in Senders |-> 0] /\ left = [s \in Senders |-> 0]
    /\ phase = "header" /\ expected = 0 /\ got = <<>>
    /\ results = <<>> /\ ended = "no"

Units(n, part, from, count) ==
    [i \in 1 .. count |-> [n |-> n, part |-> part, i |-> from + i]]

(* Units of the current part that sender s has written.                      *)
PartSize(s) == IF pc[s] = "header" THEN HeaderUnits ELSE Size(frames[number[s]])
Done(s) == PartSize(s) - left[s]

Start(s) ==
    /\ pc[s] = "idle" /\ ~closed /\ Len(frames) < MaxFrames
    /\ pc' = [pc EXCEPT ![s] = "lock"]
    /\ UNCHANGED <<stream, closed, encoderMu, frames, torn, number, left, decoding>>

(* Mutant: frames are written without the mutex.                             *)
Regardless == TRUE
Unlocked == encoderMu = NoSender

(* A message that does not fit is refused before anything is written.        *)
Refuse(s) ==
    /\ pc[s] = "lock" /\ ~closed /\ Unlocked
    /\ (\E m \in Messages : ~Fits(m)) \/ Len(frames) = MaxFrames
    /\ pc' = [pc EXCEPT ![s] = "idle"]
    /\ UNCHANGED <<stream, closed, encoderMu, frames, torn, number, left, decoding>>

Acquire(s) ==
    /\ pc[s] = "lock" /\ ~closed /\ Unlocked
    /\ Len(frames) < MaxFrames
    /\ \E m \in Messages : Fits(m) /\ frames' = Append(frames, m)
    /\ encoderMu' = s
    /\ number' = [number EXCEPT ![s] = Len(frames) + 1]
    /\ left' = [left EXCEPT ![s] = HeaderUnits]
    /\ pc' = [pc EXCEPT ![s] = "header"]
    /\ UNCHANGED <<stream, closed, torn, decoding>>

(* Mutant: an error leaves the mutex locked.                                 *)
KeepEncoder == UNCHANGED encoderMu
UnlockEncoder == encoderMu' = NoSender

Return(s) ==
    /\ pc' = [pc EXCEPT ![s] = "idle"]
    /\ number' = [number EXCEPT ![s] = 0]
    /\ left' = [left EXCEPT ![s] = 0]
    /\ UnlockEncoder

Put(s, count) ==
    /\ Len(stream) + count <= PipeCapacity
    /\ stream' = stream \o Units(number[s], pc[s], Done(s), count)

(* writeAll goes on for as long as the writer takes some of the bytes.       *)
WriteSome(s) ==
    /\ pc[s] \in {"header", "payload"} /\ ~closed
    /\ \E count \in 1 .. left[s] - 1 :
          Put(s, count) /\ left' = [left EXCEPT ![s] = @ - count]
    /\ UNCHANGED <<closed, encoderMu, frames, torn, pc, number, decoding>>

WriteHeader(s) ==
    /\ pc[s] = "header" /\ ~closed
    /\ Put(s, left[s])
    /\ left' = [left EXCEPT ![s] = Size(frames[number[s]])]
    /\ pc' = [pc EXCEPT ![s] = "payload"]
    /\ UNCHANGED <<closed, encoderMu, frames, torn, number, decoding>>

WritePayload(s) ==
    /\ pc[s] = "payload" /\ ~closed
    /\ Put(s, left[s])
    /\ Return(s)
    /\ UNCHANGED <<closed, frames, torn, decoding>>

(* The writer fails, or takes nothing, with part of the frame written. The   *)
(* encoder returns the error and remembers nothing of it.                    *)
WriteFails(s) ==
    /\ pc[s] \in {"header", "payload"} /\ ~closed
    /\ \E count \in 0 .. left[s] :
          /\ Put(s, count)
          /\ IF pc[s] = "header" /\ Done(s) + count = 0
             THEN frames' = SubSeq(frames, 1, Len(frames) - 1) /\ UNCHANGED torn
             ELSE torn' = (IF torn = 0 THEN number[s] ELSE torn) /\ UNCHANGED frames
    /\ Return(s)
    /\ UNCHANGED <<closed, decoding>>

(* The writing process ends, wherever its goroutines are.                    *)
Exit ==
    /\ ~closed
    /\ closed' = TRUE
    /\ UNCHANGED <<stream, sending, decoding>>

-----------------------------------------------------------------------------
(* The decoder. It may be called again after an error.                       *)

Need == IF phase = "header" THEN HeaderUnits ELSE Size(frames[expected])

Discard(location) == phase' = location /\ got' = <<>>

(* io.ReadFull: the reader gives at least one unit at a time.                *)
ReadSome ==
    /\ ended = "no"
    /\ \E count \in 1 .. Len(stream) :
          /\ Len(got) + count <= Need
          /\ got' = got \o SubSeq(stream, 1, count)
          /\ stream' = SubSeq(stream, count + 1, Len(stream))
    /\ UNCHANGED <<closed, sending, phase, expected, results, ended>>

IsHeader(units) == units = Units(units[1].n, "header", 0, HeaderUnits)

AcceptHeader ==
    /\ phase = "header" /\ Len(got) = HeaderUnits
    /\ IsHeader(got) /\ Admits(Size(frames[got[1].n]))
    /\ expected' = got[1].n
    /\ Discard("payload")
    /\ UNCHANGED <<stream, closed, sending, results, ended>>

(* A wrong magic, kind or length: the decoder stays where it is in the       *)
(* stream, with the payload the header announced still to come.              *)
RefuseHeader ==
    /\ phase = "header" /\ Len(got) = HeaderUnits
    /\ ~(IsHeader(got) /\ Admits(Size(frames[got[1].n])))
    /\ Discard("header")
    /\ UNCHANGED <<stream, closed, sending, expected, results, ended>>

Complete == phase = "payload" /\ Len(got) = Need
Whole == got = Units(expected, "payload", 0, Need)

(* The frame is decoded, or refused as a whole: either way the next header   *)
(* comes next.                                                               *)
DecodeFrame ==
    /\ Complete /\ Whole
    /\ results' = Append(results, [n |-> expected, ok |-> Decodes(frames[expected])])
    /\ Discard("header")
    /\ UNCHANGED <<stream, closed, sending, expected, ended>>

(* Units of another frame: nothing but the encoding tells, and Arrow data    *)
(* has no checksum.                                                          *)
DecodeMixture ==
    /\ Complete /\ ~Whole
    /\ \/ results' = Append(results, [n |-> 0, ok |-> TRUE])
       \/ UNCHANGED results
    /\ Discard("header")
    /\ UNCHANGED <<stream, closed, sending, expected, ended>>

(* Mutant: io.ErrUnexpectedEOF is not told from io.EOF.                      *)
AlwaysEOF(units) == "eof"
(* What io.ReadFull makes of the end of the stream.                          *)
EndOf(units) == IF units = <<>> THEN "eof" ELSE "unexpected"

StreamEnds ==
    /\ ended = "no" /\ closed /\ stream = <<>> /\ Len(got) < Need
    /\ ended' = IF phase = "header" THEN EndOf(got) ELSE "payload"
    /\ UNCHANGED <<stream, closed, sending, phase, expected, got, results>>

-----------------------------------------------------------------------------
Write(s) == WriteSome(s) \/ WriteHeader(s) \/ WritePayload(s) \/ WriteFails(s)
Send(s) == Refuse(s) \/ Acquire(s)
Decode ==
    ReadSome \/ AcceptHeader \/ RefuseHeader \/ DecodeFrame \/ DecodeMixture \/ StreamEnds

(* Nobody sends any more and all that was written has been read.             *)
Quiet ==
    /\ ended # "no"
    /\ UNCHANGED vars

Next ==
    \/ \E s \in Senders : Start(s) \/ Send(s) \/ Write(s)
    \/ Exit
    \/ Decode
    \/ Quiet

Spec == Init /\ [][Next]_vars

(* A goroutine that can run does, a mutex is not withheld from one waiter    *)
(* forever (sync.Mutex), and the other end goes on reading.                  *)
FairSpec ==
    /\ Spec
    /\ \A s \in Senders : WF_vars(Write(s)) /\ SF_vars(Send(s))
    /\ WF_vars(Decode)

-----------------------------------------------------------------------------
(* Properties.                                                               *)

Unit == [n : 1 .. MaxFrames, part : {"header", "payload"}, i : Nat \ {0}]

(* Types; a frame that was begun is within the encoder's limit.              *)
TypeOK ==
    /\ stream \in Seq(Unit) /\ closed \in BOOLEAN
    /\ encoderMu \in Senders \cup {NoSender}
    /\ frames \in Seq({m \in Messages : Size(m) <= EncoderLimit})
    /\ torn \in 0 .. MaxFrames
    /\ pc \in [Senders -> {"idle", "lock", "header", "payload"}]
    /\ number \in [Senders -> 0 .. MaxFrames] /\ left \in [Senders -> Nat]
    /\ phase \in {"header", "payload"} /\ expected \in 0 .. MaxFrames
    /\ got \in Seq(Unit)
    /\ results \in Seq([n : 0 .. MaxFrames, ok : BOOLEAN])
    /\ ended \in {"no", "eof", "unexpected", "payload"}

(* Frames that were written to their end before any was torn.                *)
Written ==
    IF torn # 0 THEN torn - 1
    ELSE IF encoderMu = NoSender THEN Len(frames) ELSE Len(frames) - 1

Pipe == INSTANCE FramePipe WITH
    written <- Written,
    torn <- torn # 0,
    read <- [i \in 1 .. Len(results) |-> results[i].n]

(* Whatever pieces the stream takes and gives, and however the senders       *)
(* interleave, whole frames come out in the order they were written, until   *)
(* one was torn (transport.go:216-279).                                      *)
FramesArrive == Pipe!Spec

(* The decoder accepts what the encoder wrote: the two check the same limits,*)
(* each its own way (transport.go:156-177, 220-226, 255-265, 325-340).       *)
NoneRefused ==
    \A i \in 1 .. Len(results) :
        results[i].n # 0 /\ frames[results[i].n].readable => results[i].ok

(* A bare io.EOF means that the stream ended between two frames: everything  *)
(* whose sending succeeded has been read, and nothing was begun after it.    *)
EndIsClean ==
    ended = "eof" /\ torn = 0 =>
        /\ Len(results) = Written
        /\ \A s \in Senders : number[s] # 0 => pc[s] = "header" /\ Done(s) = 0

(* A send returns, with an error or not, whatever the writer does.           *)
SendReturns ==
    \A s \in Senders : pc[s] # "idle" ~> pc[s] = "idle" \/ closed

(* A frame that was written is read to its end, those behind a frame that    *)
(* did not decode included.                                                  *)
WrittenIsRead ==
    \A n \in 1 .. MaxFrames : Written >= n ~> Len(results) >= n
=============================================================================
