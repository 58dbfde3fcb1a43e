------------------------ MODULE VideoPipeline_proofs ------------------------
(***************************************************************************)
(* Proof of the safety properties of VideoPipeline for every choice of     *)
(* sizes, limits, channel and window capacities and encoder delay.         *)
(***************************************************************************)
EXTENDS VideoPipeline, TLAPS

-----------------------------------------------------------------------------
(* Geometry.                                                               *)

\* clamp_viewport returns a size the encoder takes.
LEMMA ClampInRange ==
  ASSUME NEW v \in Nat
  PROVE  Clamp(v) \in InRange
BY VideoAssumption DEF Clamp, InRange

\* round_up_to_even returns an even number and does not leave the range.
LEMMA RoundInRange ==
  ASSUME NEW v \in InRange
  PROVE  /\ RoundUpToEven(v) \in InRange
         /\ RoundUpToEven(v) % 2 = 0
BY VideoAssumption DEF RoundUpToEven, InRange

\* No size is the number that stands for the absence of a frame.
LEMMA NoneIsNoSize == None \notin InRange
BY VideoAssumption DEF None, InRange

\* Appending n packets to a sequence.
LEMMA Appended ==
  ASSUME NEW S, NEW s \in Seq(S), NEW n \in Nat, NEW t \in [1..n -> S]
  PROVE  /\ s \o t \in Seq(S)
         /\ Len(s \o t) = Len(s) + n
         /\ \A i \in 1..Len(s) : (s \o t)[i] = s[i]
         /\ \A i \in Len(s) + 1 .. Len(s) + n : (s \o t)[i] = t[i - Len(s)]
<1>1. t \in Seq(S) /\ Len(t) = n
  OBVIOUS
<1>. QED BY <1>1

\* A new encoder is fresh, empty and of the size it was made for.
LEMMA NewEncoderType ==
  ASSUME NEW size \in InRange, NEW gen \in Nat
  PROVE  /\ NewEncoder(size, gen) \in Encoder
         /\ NewEncoder(size, gen).size = size
         /\ NewEncoder(size, gen).gen = gen
         /\ NewEncoder(size, gen).fresh
BY VideoAssumption DEF NewEncoder, Encoder

-----------------------------------------------------------------------------
(* The initial state.                                                      *)

\* The invariant holds when streaming starts.
LEMMA InitStreamInv == Init => StreamInv
<1>. SUFFICES ASSUME Init PROVE StreamInv
  OBVIOUS
<1>1. PICK v \in Sizes : want = v /\ mode = RoundUpToEven(Clamp(v))
  BY DEF Init
<1>2. want \in Nat /\ mode \in InRange /\ mode % 2 = 0
  BY <1>1, VideoAssumption, ClampInRange, RoundInRange
<1>3. TypeOK
  <2>1. enc \in Encoder
    BY <1>2, NewEncoderType DEF Init
  <2>2. unsent \in 0..Len(stream) /\ stream \in Seq(Packet)
    BY DEF Init
  <2>3. chan \in Seq(InRange) /\ Len(chan) <= ChanCap
    BY VideoAssumption DEF Init
  <2>4. ctrl \in Seq(Sizes \cup {Move}) /\ sent \in 0..MaxMsgs
    BY VideoAssumption DEF Init
  <2>5. dec \in [size : InRange \cup {None}, gen : Nat]
    BY DEF Init
  <2>. QED BY <1>2, <2>1, <2>2, <2>3, <2>4, <2>5 DEF Init, TypeOK
<1>4. EncoderMatchesFrame /\ EncodableMode /\ Decodable
  BY <1>2 DEF Init, EncoderMatchesFrame, EncodableMode, Decodable, NewEncoder
<1>5. StreamContinues /\ UnsentWhileSending
  BY DEF Init, StreamContinues, UnsentWhileSending, NewEncoder
<1>. QED BY <1>3, <1>4, <1>5 DEF StreamInv

-----------------------------------------------------------------------------
(* Steps that move no packet: nothing the stream properties read changes,  *)
(* except that an encoder may be replaced by a fresh one.                  *)

StreamUntouched ==
  /\ UNCHANGED <<conn, stream, unsent, dec>>
  /\ \/ enc' = enc /\ UNCHANGED vtask
     \/ vtask # "send" /\ vtask' # "send" /\ (enc' = enc \/ enc'.fresh)
     \/ vtask' = "ended" /\ enc' = enc
  /\ vtask' \in {"select", "setmode"} => vtask \in {"select", "setmode"}

\* Such a step preserves every invariant about the stream.
LEMMA UntouchedStream ==
  ASSUME StreamInv, StreamUntouched
  PROVE  /\ EncoderMatchesFrame'
         /\ Decodable'
         /\ StreamContinues'
         /\ UnsentWhileSending'
<1>. USE DEF StreamInv, StreamUntouched
<1>1. EncoderMatchesFrame'
  BY DEF EncoderMatchesFrame
<1>2. Decodable'
  BY DEF Decodable, Follows
<1>3. StreamContinues'
  BY DEF StreamContinues, Follows
<1>4. UnsentWhileSending'
  BY DEF UnsentWhileSending
<1>. QED BY <1>1, <1>2, <1>3, <1>4

\* Steps of the client's input, of the input task and of the capture thread.
LEMMA OutsideVideoLoop ==
  ASSUME StreamInv,
         \/ \E v \in Sizes : RequestMode(v)
         \/ SendInput \/ Inject \/ IgnoreRequest \/ AcceptRequest
         \/ SendResize \/ InputEnds \/ CoolDown
         \/ CaptureOutput \/ FrameReady \/ FrameFailed \/ SourceEnds
  PROVE  StreamInv'
<1>. USE DEF StreamInv
<1>1. StreamUntouched /\ UNCHANGED <<mode, enc>>
  BY DEF RequestMode, SendInput, Tell, Inject, IgnoreRequest, AcceptRequest,
         SendResize, InputEnds, CoolDown, CaptureOutput, FrameReady, FrameFailed, SourceEnds,
         Source!Shoot, Source!Publish, Source!Drop, Source!End, StreamUntouched, videoVars, cameraVars, netVars
<1>2. TypeOK'
  <2>1. CASE \E v \in Sizes : RequestMode(v)
    BY <2>1, VideoAssumption
    DEF TypeOK, RequestMode, Tell, inputVars, cameraVars, videoVars
  <2>2. CASE SendInput
    BY <2>2, VideoAssumption DEF TypeOK, SendInput, Tell, inputVars, cameraVars, videoVars
  <2>3. CASE Inject \/ IgnoreRequest
    <3>1. ctrl # <<>> /\ ctrl' = Tail(ctrl)
      BY <2>3 DEF Inject, IgnoreRequest, Receive
    <3>2. ctrl' \in Seq(Sizes \cup {Move})
      BY <3>1 DEF TypeOK
    <3>. QED
      BY <2>3, <3>2
      DEF TypeOK, Inject, IgnoreRequest, Receive, netVars, inputVars, cameraVars, videoVars
  <2>4. CASE AcceptRequest
    <3>1. PICK v \in Sizes : Receive(v) /\ extents' = Clamp(v) /\ held' = Clamp(v)
      BY <2>4 DEF AcceptRequest
    <3>2. Clamp(v) \in InRange
      BY VideoAssumption, ClampInRange
    <3>. QED
      BY <2>4, <3>1, <3>2
      DEF TypeOK, AcceptRequest, Receive, netVars, cameraVars, videoVars
  <2>5. CASE SendResize
    BY <2>5, VideoAssumption DEF TypeOK, SendResize, netVars, cameraVars, videoVars
  <2>6. CASE InputEnds \/ CoolDown
    BY <2>6 DEF TypeOK, InputEnds, CoolDown, netVars, cameraVars, videoVars
  <2>7. CASE CaptureOutput \/ FrameReady \/ FrameFailed \/ SourceEnds
    BY <2>7
    DEF TypeOK, CaptureOutput, FrameReady, FrameFailed, SourceEnds, Source!Shoot, Source!Publish, Source!Drop, Source!End,
        netVars, inputVars, videoVars
  <2>. QED
    BY <2>1, <2>2, <2>3, <2>4, <2>5, <2>6, <2>7
<1>3. EncodableMode'
  BY <1>1 DEF EncodableMode
<1>. QED BY <1>1, <1>2, <1>3, UntouchedStream

\* Steps of the video loop that neither encode nor write.
LEMMA ResizeSteps ==
  ASSUME StreamInv, TakeResize \/ SetMode \/ SetModeFails \/ FrameFails \/ EndOfFrames
  PROVE  StreamInv'
<1>. USE DEF StreamInv
<1>1. StreamUntouched
  <2>1. CASE SetMode
    BY <2>1
    DEF SetMode, Source!ResizeTo, StreamUntouched, NewEncoder, netVars
  <2>2. CASE TakeResize \/ SetModeFails \/ FrameFails \/ EndOfFrames
    BY <2>2
    DEF TakeResize, SetModeFails, FrameFails, EndOfFrames, VideoEnds, StreamUntouched, netVars
  <2>. QED BY <2>1, <2>2
<1>2. TypeOK' /\ EncodableMode'
  <2>1. CASE SetMode
    <3>1. mode' \in InRange /\ mode' % 2 = 0
      BY <2>1, RoundInRange DEF SetMode, Source!ResizeTo, TypeOK
    <3>2. enc' \in Encoder
      <4>1. enc \in Encoder /\ enc.gen + 1 \in Nat /\ new \in InRange
        BY DEF TypeOK, Encoder
      <4>. QED BY <2>1, <4>1, NewEncoderType DEF SetMode
    <3>. QED
      BY <2>1, <3>1, <3>2
      DEF SetMode, Source!ResizeTo, TypeOK, Encoder, EncodableMode, netVars, inputVars
  <2>2. CASE TakeResize
    <3>1. chan' \in Seq(InRange) /\ Len(chan') <= ChanCap /\ new' \in InRange
      BY <2>2, VideoAssumption DEF TakeResize, TypeOK
    <3>. QED
      BY <2>2, <3>1
      DEF TakeResize, TypeOK, EncodableMode, netVars, inputVars, cameraVars
  <2>3. CASE SetModeFails
    BY <2>3
    DEF SetModeFails, TypeOK, EncodableMode, netVars, inputVars, cameraVars
  <2>4. CASE FrameFails \/ EndOfFrames
    BY <2>4, VideoAssumption
    DEF FrameFails, EndOfFrames, VideoEnds, TypeOK, EncodableMode, netVars
  <2>. QED BY <2>1, <2>2, <2>3, <2>4
<1>. QED BY <1>1, <1>2, UntouchedStream

\* Losing the connection empties the stream.
LEMMA LoseStep ==
  ASSUME StreamInv, Lose
  PROVE  StreamInv'
<1>. USE DEF StreamInv, Lose
<1>1. TypeOK' /\ EncodableMode'
  BY DEF TypeOK, EncodableMode, inputVars, cameraVars
<1>2. EncoderMatchesFrame' /\ Decodable' /\ StreamContinues'
  BY DEF EncoderMatchesFrame, Decodable, StreamContinues
<1>3. UnsentWhileSending'
  BY DEF UnsentWhileSending
<1>. QED BY <1>1, <1>2, <1>3

\* Writing a packet, or failing to.
LEMMA SendSteps ==
  ASSUME StreamInv, SendPacket \/ SendFails
  PROVE  StreamInv'
<1>. USE DEF StreamInv
<1>1. CASE SendPacket
  <2>. USE <1>1 DEF SendPacket
  <2>1. TypeOK' /\ EncodableMode'
    BY DEF TypeOK, EncodableMode, netVars, inputVars, cameraVars
  <2>2. EncoderMatchesFrame'
    <3>. SUFFICES ASSUME NEW i \in 1..Len(stream), i > Len(stream) - unsent'
                  PROVE  stream[i].size = enc.size
      BY DEF EncoderMatchesFrame
    <3>1. unsent \in Nat /\ Len(stream) \in Nat /\ unsent' = unsent - 1
      BY DEF TypeOK
    <3>2. i > Len(stream) - unsent
      BY <3>1
    <3>. QED BY <3>2 DEF EncoderMatchesFrame
  <2>3. Decodable' /\ StreamContinues'
    BY DEF Decodable, StreamContinues, Follows, netVars
  <2>4. UnsentWhileSending'
    BY DEF UnsentWhileSending, TypeOK, netVars
  <2>. QED BY <2>1, <2>2, <2>3, <2>4
<1>2. CASE SendFails
  <2>. USE <1>2 DEF SendFails, VideoEnds
  <2>1. TypeOK' /\ EncodableMode'
    BY VideoAssumption DEF TypeOK, EncodableMode, netVars
  <2>2. EncoderMatchesFrame' /\ Decodable' /\ StreamContinues' /\ UnsentWhileSending'
    BY DEF EncoderMatchesFrame, Decodable, StreamContinues, UnsentWhileSending, Follows, netVars
  <2>. QED BY <2>1, <2>2
<1>. QED BY <1>1, <1>2

-----------------------------------------------------------------------------
(* Encoding.                                                               *)

\* A frame is encoded by an encoder of its size, replaced if need be, whose
\* packets continue the stream.
LEMMA TakeFrameStep ==
  ASSUME StreamInv, TakeFrame
  PROVE  StreamInv'
<1>. USE DEF StreamInv
<1>. DEFINE f == NextFrame
            e == EncoderFor(f)
<1>1. f \in InRange
  BY DEF TakeFrame, NextFrame, TypeOK
<1>2. /\ e \in Encoder
      /\ e.size = f
      /\ e.fresh \/ e = enc
  <2>1. enc \in Encoder /\ enc.gen + 1 \in Nat
    BY DEF TypeOK, Encoder
  <2>. QED BY <1>1, <2>1, NewEncoderType DEF EncoderFor
<1>3. PICK n \in 0..(e.holds + 1) :
        /\ e.holds + 1 - n <= Delay
        /\ enc' = [e EXCEPT !.fresh = @ /\ (n = 0), !.holds = @ + 1 - n]
        /\ \E ps \in Packets(f, e, n) : stream' = stream \o ps
        /\ unsent' = n
        /\ vtask' = IF n = 0 THEN "select" ELSE "send"
  BY DEF TakeFrame
<1>. HIDE DEF e, f
<1>4. PICK ps \in Packets(f, e, n) : stream' = stream \o ps
  BY <1>3
<1>5. n \in Nat
  BY <1>2 DEF Encoder
<1>6. /\ ps \in [1..n -> Packet]
      /\ \A i \in 1..n : ps[i].size = f /\ ps[i].gen = e.gen
      /\ e.fresh /\ n > 0 => ps[1].key
  <2>1. ps \in [1..n -> [size : {f}, gen : {e.gen}, key : BOOLEAN]]
    BY <1>4 DEF Packets
  <2>2. \A i \in 1..n : ps[i] \in [size : {f}, gen : {e.gen}, key : BOOLEAN]
    BY <2>1
  <2>3. \A i \in 1..n : ps[i] \in Packet /\ ps[i].size = f /\ ps[i].gen = e.gen
    BY <2>2, <1>1, <1>2 DEF Packet, Encoder
  <2>4. e.fresh /\ n > 0 => ps[1].key
    BY <1>4 DEF Packets
  <2>. QED BY <2>1, <2>3, <2>4
<1>7. stream \in Seq(Packet)
  BY DEF TypeOK
<1>8. /\ stream' \in Seq(Packet)
      /\ Len(stream') = Len(stream) + n
      /\ \A i \in 1..Len(stream) : stream'[i] = stream[i]
      /\ \A i \in Len(stream) + 1 .. Len(stream) + n : stream'[i] = ps[i - Len(stream)]
  BY <1>4, <1>5, <1>6, <1>7, Appended
<1>9. /\ enc' \in Encoder
      /\ enc'.size = f /\ enc'.gen = e.gen
      /\ e.fresh /\ n = 0 => enc'.fresh
  <2>1. e.size \in InRange /\ e.gen \in Nat /\ e.fresh \in BOOLEAN /\ e.holds \in 0..Delay
    BY <1>2 DEF Encoder
  <2>2. e.holds + 1 - n \in 0..Delay
    BY <2>1, <1>3, VideoAssumption
  <2>3. (e.fresh /\ (n = 0)) \in BOOLEAN
    OBVIOUS
  <2>4. enc' = [size |-> e.size, gen |-> e.gen, fresh |-> e.fresh /\ (n = 0),
                holds |-> e.holds + 1 - n]
    BY <1>2, <1>3 DEF Encoder
  <2>. QED BY <1>2, <2>1, <2>2, <2>3, <2>4 DEF Encoder
<1>10. UNCHANGED <<conn, want, sent, ctrl, itask, held, cooling, extents, chan, mode,
                   inflight, over, new, rejected, dec>>
  BY DEF TakeFrame, Source!Take, netVars, inputVars
<1>11. pending' \in InRange \cup {None} /\ watch' \in InRange \cup {None}
  BY DEF TakeFrame, Source!Take, TypeOK
<1>12. Len(stream) \in Nat
  BY <1>7
<1>13. TypeOK'
  <2>1. unsent' \in 0..Len(stream')
    BY <1>3, <1>5, <1>8, <1>12
  <2>2. vtask' \in {"select", "setmode", "send", "ended"}
    BY <1>3
  <2>. QED BY <2>1, <2>2, <1>8, <1>9, <1>10, <1>11 DEF TypeOK
<1>14. EncodableMode'
  BY <1>9, <1>10 DEF EncodableMode, Encoder
<1>15. EncoderMatchesFrame'
  <2>. SUFFICES ASSUME NEW i \in 1..Len(stream'), i > Len(stream') - unsent'
                PROVE  stream'[i].size = enc'.size
    BY DEF EncoderMatchesFrame
  <2>1. i \in Len(stream) + 1 .. Len(stream) + n /\ i - Len(stream) \in 1..n
    BY <1>3, <1>5, <1>8, <1>12
  <2>2. stream'[i] = ps[i - Len(stream)]
    BY <2>1, <1>8
  <2>. QED BY <2>1, <2>2, <1>6, <1>9
<1>16. UnsentWhileSending'
  BY <1>3, <1>5 DEF UnsentWhileSending
<1>17. ASSUME conn' = "open", n > 0
       PROVE  IF stream = <<>> THEN Follows(ps[1], dec.size, dec.gen)
              ELSE Follows(ps[1], stream[Len(stream)].size, stream[Len(stream)].gen)
  <2>1. CASE e.fresh
    BY <2>1, <1>6, <1>17 DEF Follows
  <2>2. CASE ~e.fresh
    <3>1. e = enc
      BY <2>2, <1>2
    <3>2. ps[1].size = enc.size /\ ps[1].gen = enc.gen
      BY <3>1, <1>2, <1>5, <1>6, <1>17
    <3>. QED BY <2>2, <3>1, <3>2, <1>10, <1>17 DEF StreamContinues, Follows
  <2>. QED BY <2>1, <2>2
<1>18. Decodable'
  <2>. SUFFICES ASSUME conn' = "open", stream' # <<>>
                PROVE  Follows(stream'[1], dec.size, dec.gen)
    BY <1>8, <1>10 DEF Decodable, Follows
  <2>1. CASE stream = <<>>
    <3>1. n > 0 /\ stream'[1] = ps[1]
      BY <2>1, <1>5, <1>8
    <3>. QED BY <2>1, <3>1, <1>17
  <2>2. CASE stream # <<>>
    BY <2>2, <1>7, <1>8, <1>10, <1>12 DEF Decodable, Follows
  <2>. QED BY <2>1, <2>2
<1>19. StreamContinues'
  <2>. SUFFICES ASSUME conn' = "open"
                PROVE  /\ \A i \in 1..Len(stream') - 1 :
                            Follows(stream'[i + 1], stream'[i].size, stream'[i].gen)
                       /\ \/ enc'.fresh
                          \/ stream' = <<>> /\ dec'.size = enc'.size /\ dec'.gen = enc'.gen
                          \/ stream' # <<>> /\ stream'[Len(stream')].size = enc'.size
                                            /\ stream'[Len(stream')].gen = enc'.gen
    BY DEF StreamContinues, Follows
  <2>1. ASSUME NEW i \in 1..Len(stream') - 1
        PROVE  Follows(stream'[i + 1], stream'[i].size, stream'[i].gen)
    <3>1. CASE i + 1 <= Len(stream)
      <4>1. stream'[i] = stream[i] /\ stream'[i + 1] = stream[i + 1]
        BY <3>1, <1>8, <1>12
      <4>2. Follows(stream[i + 1], stream[i].size, stream[i].gen)
        BY <3>1, <1>10, <1>12 DEF StreamContinues
      <4>. QED BY <4>1, <4>2
    <3>2. CASE i = Len(stream)
      <4>1. n > 0 /\ stream # <<>> /\ stream'[i] = stream[i] /\ stream'[i + 1] = ps[1]
        BY <3>2, <1>5, <1>8, <1>12
      <4>. QED BY <3>2, <4>1, <1>17
    <3>3. CASE i > Len(stream)
      <4>1. /\ i - Len(stream) \in 1..n
            /\ i + 1 - Len(stream) \in 1..n
            /\ stream'[i] = ps[i - Len(stream)]
            /\ stream'[i + 1] = ps[i + 1 - Len(stream)]
        <5>1. /\ i \in Len(stream) + 1 .. Len(stream) + n
              /\ i + 1 \in Len(stream) + 1 .. Len(stream) + n
          BY <3>3, <1>5, <1>8, <1>12
        <5>2. /\ stream'[i] = ps[i - Len(stream)]
              /\ stream'[i + 1] = ps[i + 1 - Len(stream)]
          BY <5>1, <1>8
        <5>. QED BY <5>1, <5>2, <1>5, <1>12
      <4>. QED BY <4>1, <1>6 DEF Follows
    <3>. QED BY <3>1, <3>2, <3>3, <1>5, <1>8, <1>12
  <2>2. CASE n = 0
    <3>1. stream' = stream
      BY <2>2, <1>4, <1>6, <1>7
    <3>2. enc'.fresh \/ (enc'.size = enc.size /\ enc'.gen = enc.gen /\ ~enc.fresh)
      BY <2>2, <1>2, <1>9 DEF TypeOK, Encoder
    <3>. QED BY <2>1, <3>1, <3>2, <1>10 DEF StreamContinues
  <2>3. CASE n > 0
    <3>1. stream' # <<>> /\ stream'[Len(stream')] = ps[n]
      BY <2>3, <1>5, <1>8, <1>12
    <3>. QED BY <2>1, <2>3, <3>1, <1>5, <1>6, <1>9
  <2>. QED BY <2>2, <2>3, <1>5
<1>. QED BY <1>13, <1>14, <1>15, <1>16, <1>18, <1>19

-----------------------------------------------------------------------------
(* Decoding.                                                               *)

\* The decoder takes the oldest packet and the next one follows it.
LEMMA DecodeStep ==
  ASSUME StreamInv, Decode
  PROVE  StreamInv'
<1>. USE DEF StreamInv
<1>1. /\ stream \in Seq(Packet) /\ stream # <<>>
      /\ unsent \in Nat /\ Len(stream) \in Nat /\ unsent < Len(stream)
  BY DEF Decode, TypeOK
<1>2. /\ stream' \in Seq(Packet)
      /\ Len(stream') = Len(stream) - 1
      /\ \A i \in 1..Len(stream') : stream'[i] = stream[i + 1]
  BY <1>1 DEF Decode
<1>3. UNCHANGED <<conn, want, sent, ctrl, itask, held, cooling, extents, chan, mode,
                  inflight, watch, over, pending, vtask, new, rejected, enc, unsent>>
  BY DEF Decode, netVars, inputVars, cameraVars
<1>4. stream[1] \in Packet /\ Head(stream) = stream[1]
  BY <1>1
<1>5. conn = "open" /\ Follows(stream[1], dec.size, dec.gen)
  BY <1>1, <1>4 DEF Decode, Decodable
<1>6. /\ dec' \in [size : InRange \cup {None}, gen : Nat]
      /\ dec'.size = stream[1].size /\ dec'.gen = stream[1].gen
  BY <1>4, <1>5 DEF Decode, Decoded, DecodedBy, NewDecoder, Packet, Follows, TypeOK
<1>7. TypeOK'
  BY <1>1, <1>2, <1>3, <1>6 DEF TypeOK
<1>8. EncodableMode'
  BY <1>3 DEF EncodableMode
<1>9. EncoderMatchesFrame'
  <2>. SUFFICES ASSUME vtask = "send", NEW i \in 1..Len(stream'), i > Len(stream') - unsent
                PROVE  stream'[i].size = enc.size
    BY <1>3 DEF EncoderMatchesFrame
  <2>1. i + 1 \in 1..Len(stream) /\ i + 1 > Len(stream) - unsent
    BY <1>1, <1>2
  <2>2. stream'[i] = stream[i + 1]
    BY <1>2
  <2>. QED BY <2>1, <2>2 DEF EncoderMatchesFrame
<1>10. UnsentWhileSending'
  BY <1>3 DEF UnsentWhileSending
<1>11. \A i \in 1..Len(stream) - 1 : Follows(stream[i + 1], stream[i].size, stream[i].gen)
  BY <1>5 DEF StreamContinues
<1>12. Decodable'
  <2>. SUFFICES ASSUME stream' # <<>>
                PROVE  Follows(stream'[1], dec'.size, dec'.gen)
    BY <1>2 DEF Decodable, Follows
  <2>1. stream'[1] = stream[2] /\ 1 \in 1..Len(stream) - 1
    BY <1>1, <1>2
  <2>2. Follows(stream[2], stream[1].size, stream[1].gen)
    BY <2>1, <1>11
  <2>. QED BY <2>1, <2>2, <1>6
<1>13. StreamContinues'
  <2>1. ASSUME NEW i \in 1..Len(stream') - 1
        PROVE  Follows(stream'[i + 1], stream'[i].size, stream'[i].gen)
    <3>1. i + 1 \in 1..Len(stream) - 1
      BY <1>1, <1>2
    <3>2. Follows(stream[i + 2], stream[i + 1].size, stream[i + 1].gen)
      BY <3>1, <1>1, <1>11
    <3>. QED BY <3>1, <3>2, <1>1, <1>2
  <2>2. CASE Len(stream) = 1
    <3>1. stream' = <<>>
      BY <2>2, <1>2
    <3>. QED BY <2>1, <2>2, <3>1, <1>1, <1>3, <1>5, <1>6 DEF StreamContinues, Follows
  <2>3. CASE Len(stream) # 1
    <3>1. stream' # <<>> /\ stream'[Len(stream')] = stream[Len(stream)]
      BY <2>3, <1>1, <1>2
    <3>. QED BY <2>1, <3>1, <1>1, <1>3, <1>5 DEF StreamContinues, Follows
  <2>. QED BY <2>2, <2>3
<1>. QED BY <1>7, <1>8, <1>9, <1>10, <1>12, <1>13

-----------------------------------------------------------------------------
(* Every step.                                                             *)

\* What is said of sizes and stream is preserved.
LEMMA NextStreamInv == StreamInv /\ [Next]_vars => StreamInv'
<1>. SUFFICES ASSUME StreamInv, [Next]_vars PROVE StreamInv'
  OBVIOUS
<1>1. CASE UNCHANGED vars
  BY <1>1
  DEF StreamInv, TypeOK, EncoderMatchesFrame, EncodableMode, Decodable, StreamContinues,
      UnsentWhileSending, Follows, vars, netVars, inputVars, cameraVars, videoVars
<1>2. CASE Next
  BY <1>2, OutsideVideoLoop, ResizeSteps, LoseStep, SendSteps, TakeFrameStep, DecodeStep
  DEF Next
<1>. QED BY <1>1, <1>2

-----------------------------------------------------------------------------
(* The way of an accepted size.                                            *)

\* The initial output has the size the first extents are of.
LEMMA InitTravels == Init => AcceptedSizeTravels
<1>. SUFFICES ASSUME Init PROVE mode = RoundUpToEven(extents)
  BY DEF Init, AcceptedSizeTravels
<1>1. PICK v \in Sizes : mode = RoundUpToEven(Clamp(v))
  BY DEF Init
<1>2. mode \in InRange /\ mode % 2 = 0
  BY <1>1, VideoAssumption, ClampInRange, RoundInRange
<1>3. mode \in Nat
  BY <1>2, VideoAssumption DEF InRange
<1>. QED BY <1>2, <1>3 DEF Init, RoundUpToEven

\* Steps that leave the two tasks, the channel and the output as they are.
LEMMA ElsewhereTravels ==
  ASSUME AcceptedSizeTravels,
         \/ \E v \in Sizes : RequestMode(v)
         \/ SendInput \/ Lose \/ Inject \/ IgnoreRequest \/ CoolDown
         \/ CaptureOutput \/ FrameReady \/ FrameFailed \/ SourceEnds
         \/ FrameFails \/ EndOfFrames \/ SendFails \/ Decode \/ UNCHANGED vars
  PROVE  AcceptedSizeTravels'
<1>1. \/ vtask' = "ended"
      \/ UNCHANGED <<vtask, itask, held, extents, chan, new, mode, rejected>>
  BY DEF RequestMode, SendInput, Tell, Lose, Inject, IgnoreRequest, CoolDown, CaptureOutput,
         FrameReady, FrameFailed, SourceEnds, Source!Shoot, Source!Publish, Source!Drop, Source!End,
         FrameFails, EndOfFrames, SendFails, VideoEnds, Decode, vars, netVars, inputVars,
         cameraVars, videoVars
<1>. QED BY <1>1 DEF AcceptedSizeTravels

\* The input task accepts a size, hands it to the channel, or ends with nothing
\* in its hands that the loop could still take.
LEMMA InputTaskTravels ==
  ASSUME TypeOK, AcceptedSizeTravels, AcceptRequest \/ SendResize \/ InputEnds
  PROVE  AcceptedSizeTravels'
<1>1. CASE AcceptRequest
  BY <1>1 DEF AcceptRequest, AcceptedSizeTravels
<1>2. CASE SendResize
  <2>1. chan \in Seq(InRange) /\ held \in InRange
    BY DEF TypeOK
  <2>2. /\ Append(chan, held) # <<>>
        /\ Append(chan, held)[Len(Append(chan, held))] = held
    BY <2>1
  <2>. QED BY <1>2, <2>2 DEF SendResize, AcceptedSizeTravels
<1>3. CASE InputEnds
  BY <1>3 DEF InputEnds, AcceptedSizeTravels, videoVars, cameraVars
<1>. QED BY <1>1, <1>2, <1>3

\* The loop takes sizes in their order, and applies each before the next.
LEMMA VideoLoopTravels ==
  ASSUME TypeOK, AcceptedSizeTravels,
         TakeResize \/ SetMode \/ SetModeFails \/ TakeFrame \/ SendPacket
  PROVE  AcceptedSizeTravels'
<1>1. CASE TakeResize
  <2>1. chan \in Seq(InRange) /\ chan # <<>>
    BY <1>1 DEF TypeOK, TakeResize
  <2>2. /\ Tail(chan) = <<>> => chan[Len(chan)] = Head(chan)
        /\ Tail(chan) # <<>> => Tail(chan)[Len(Tail(chan))] = chan[Len(chan)]
    BY <2>1
  <2>. QED BY <1>1, <2>2 DEF TakeResize, AcceptedSizeTravels, netVars, inputVars, cameraVars
<1>2. CASE SetMode \/ SetModeFails
  BY <1>2 DEF SetMode, Source!ResizeTo, SetModeFails, AcceptedSizeTravels, netVars, inputVars, cameraVars
<1>3. CASE TakeFrame \/ SendPacket
  <2>1. UNCHANGED <<itask, held, extents, chan, new, mode, rejected>> /\ vtask # "setmode"
    BY <1>3 DEF TakeFrame, Source!Take, SendPacket, netVars, inputVars, cameraVars
  <2>2. vtask' \in {"select", "send"} /\ vtask # "ended"
    BY <1>3 DEF TakeFrame, SendPacket
  <2>. QED BY <2>1, <2>2 DEF AcceptedSizeTravels
<1>. QED BY <1>1, <1>2, <1>3

\* Every step preserves the whole invariant.
LEMMA NextIInv == IInv /\ [Next]_vars => IInv'
<1>. SUFFICES ASSUME IInv, [Next]_vars PROVE IInv'
  OBVIOUS
<1>1. StreamInv /\ TypeOK /\ AcceptedSizeTravels
  BY DEF IInv, StreamInv
<1>2. AcceptedSizeTravels'
  BY <1>1, ElsewhereTravels, InputTaskTravels, VideoLoopTravels DEF Next
<1>. QED BY <1>1, <1>2, NextStreamInv DEF IInv

-----------------------------------------------------------------------------
(* The theorems.                                                           *)

\* The types, and with them the capacity of the resize channel and the bound
\* on the frames the encoder holds, and the safety properties hold always.
THEOREM Safety == Spec => []IInv
<1>1. Init => IInv
  BY InitStreamInv, InitTravels DEF IInv
<1>. QED BY <1>1, NextIInv, PTL DEF Spec

\* No frame reaches an encoder of another size, so encode() never fails on it.
THEOREM FrameFitsEncoder == Spec => []EncoderMatchesFrame
<1>1. IInv => EncoderMatchesFrame
  BY DEF IInv, StreamInv
<1>. QED BY <1>1, Safety, PTL

\* The mode is even and, like the encoder, within the hardware's range.
THEOREM ModesEncodable == Spec => []EncodableMode
<1>1. IInv => EncodableMode
  BY DEF IInv, StreamInv
<1>. QED BY <1>1, Safety, PTL

\* The client has the keyframe of every packet it decodes.
THEOREM StreamDecodable == Spec => []Decodable
<1>1. IInv => Decodable
  BY DEF IInv, StreamInv
<1>. QED BY <1>1, Safety, PTL

\* The last size the server accepted is in the hands of one of the two tasks,
\* in the channel, or the size of the output, for every capacity of the channel.
THEOREM NoSizeLost == Spec => []AcceptedSizeTravels
<1>1. IInv => AcceptedSizeTravels
  BY DEF IInv
<1>. QED BY <1>1, Safety, PTL
=============================================================================
