------------------------ MODULE VideoPipelineProofs ------------------------
(***************************************************************************)
(* Proofs about VideoPipeline, for every queue capacity, codec delay and   *)
(* number of frames.  TypeOK and the control invariants are proved         *)
(* together: what the encode thread holds is well typed only because the   *)
(* caller creates and joins that thread in the right order.                *)
(***************************************************************************)
EXTENDS VideoPipeline, SequenceTheorems, TLAPS

Control == EncoderConfined /\ ThreadDiscipline /\ NoMissedFrame /\ CaptureQuiescent

\* Sending one more frame to the codec and taking the first k packets from it
\* splits what it holds in two and loses nothing.
LEMMA CodecSplit ==
  ASSUME NEW S, NEW s \in Seq(S), NEW t \in Seq(S), Len(t) = 1,
         NEW k \in 0..(Len(s) + 1)
  PROVE  /\ SubSeq(s \o t, 1, k) \in Seq(S)
         /\ SubSeq(s \o t, k + 1, Len(s) + 1) \in Seq(S)
         /\ Len(SubSeq(s \o t, 1, k)) = k
         /\ Len(SubSeq(s \o t, k + 1, Len(s) + 1)) = Len(s) + 1 - k
         /\ SubSeq(s \o t, 1, k) \o SubSeq(s \o t, k + 1, Len(s) + 1) = s \o t
<1> DEFINE u == s \o t
<1>1. u \in Seq(S) /\ Len(u) = Len(s) + 1
  <2>1. s \o t \in Seq(S) /\ Len(s \o t) = Len(s) + Len(t)
    BY ConcatProperties, Zenon
  <2> QED
    BY <2>1
<1>2. Len(s) \in Nat /\ Len(u) \in Nat
  BY <1>1, LenProperties
<1>3. \A i \in 1..Len(u) : u[i] \in S
  BY <1>1, ElementOfSeq
<1> HIDE DEF u
<1>4. SubSeq(u, 1, k) \in Seq(S) /\ Len(SubSeq(u, 1, k)) = k
  <2>1. \A i \in 1..k : u[i] \in S
    BY <1>1, <1>2, <1>3
  <2> QED
    BY <2>1, <1>2, SubSeqProperties
<1>5. /\ SubSeq(u, k + 1, Len(s) + 1) \in Seq(S)
      /\ Len(SubSeq(u, k + 1, Len(s) + 1)) = Len(s) + 1 - k
  <2>1. \A i \in (k + 1)..(Len(s) + 1) : u[i] \in S
    BY <1>1, <1>2, <1>3
  <2> QED
    BY <2>1, <1>2, SubSeqProperties
<1>6. SubSeq(u, 1, k) \o SubSeq(u, k + 1, Len(s) + 1) = SubSeq(u, 1, Len(s) + 1)
  <2>1. 1 \in 1..(Len(u) + 1) /\ k \in (1 - 1)..Len(u) /\ Len(u) \in k..Len(u)
    BY <1>1, <1>2
  <2>2. SubSeq(u, 1, k) \o SubSeq(u, k + 1, Len(u)) = SubSeq(u, 1, Len(u))
    BY <1>1, <2>1, ConcatAdjacentSubSeq, Zenon
  <2> QED
    BY <1>1, <2>2
<1>7. SubSeq(u, 1, Len(s) + 1) = u
  BY <1>1, SubSeqFull
<1> QED
  BY <1>4, <1>5, <1>6, <1>7 DEF u

\* Frame names are numbers.
LEMMA FramesAreNumbers ==
  ASSUME NEW s \in Seq(Frames)
  PROVE  s \in Seq(Nat)
<1>1. Len(s) \in Nat /\ s \in [1..Len(s) -> Frames]
  BY LenProperties
<1>2. s \in [1..Len(s) -> Nat]
  BY <1>1 DEF Frames
<1> QED
  BY <1>1, <1>2, SeqDef

\* The Boolean flags stay Boolean: each is only ever assigned a truth value.
LEMMA FlagsInductive ==
  ASSUME FlagsOK, [Next]_vars
  PROVE  FlagsOK'
<1>1. CASE Initialize
  BY <1>1, Zenon DEF Initialize, DestroyDevice, BuildPipeline, FlagsOK, capVars, encVars
<1>2. CASE StartEncoder
  BY <1>2, Zenon DEF StartEncoder, FlagsOK, capVars, encVars
<1>3. CASE StartCaptureFails
  BY <1>3, Zenon DEF StartCaptureFails, FlagsOK, capVars, encVars
<1>4. CASE StartCapture
  BY <1>4, Zenon DEF StartCapture, FlagsOK, capVars, encVars
<1>5. CASE StartEncodeThread
  BY <1>5, Zenon DEF StartEncodeThread, FlagsOK, capVars, encVars
<1>6. CASE StopBegin
  BY <1>6, Zenon DEF StopBegin, FlagsOK, capVars, encVars
<1>7. CASE StopCapture
  BY <1>7, Zenon DEF StopCapture, FlagsOK, capVars, encVars
<1>8. CASE StopJoinCapture
  BY <1>8, Zenon DEF StopJoinCapture, FlagsOK, capVars, encVars
<1>9. CASE StopNotify
  BY <1>9, Zenon DEF StopNotify, Notified, FlagsOK, capVars, encVars
<1>10. CASE StopRequest
  BY <1>10, Zenon DEF StopRequest, FlagsOK, capVars, encVars
<1>11. CASE StopJoin
  BY <1>11, Zenon DEF StopJoin, FlagsOK, capVars, encVars
<1>12. CASE StopEncoder
  BY <1>12, Zenon DEF StopEncoder, FlagsOK, capVars, encVars
<1>13. CASE RequestKeyframe
  BY <1>13, Zenon DEF RequestKeyframe, FlagsOK, capVars, encVars
<1>14. CASE CapturePull
  BY <1>14, Zenon DEF CapturePull, FlagsOK, capVars, encVars
<1>15. CASE CaptureBusError
  BY <1>15, Zenon DEF CaptureBusError, FlagsOK, capVars, encVars
<1>16. CASE CaptureLeaveLoop
  BY <1>16, Zenon DEF CaptureLeaveLoop, FlagsOK, capVars, encVars
<1>17. CASE CapturePush
  BY <1>17, Zenon DEF CapturePush, FlagsOK, capVars, encVars
<1>18. CASE CaptureNotify
  BY <1>18, Zenon DEF CaptureNotify, Notified, FlagsOK, capVars, encVars
<1>19. CASE CaptureCount
  BY <1>19, Zenon DEF CaptureCount, FlagsOK, capVars, encVars
<1>20. CASE CaptureExit
  BY <1>20, Zenon DEF CaptureExit, FlagsOK, capVars, encVars
<1>21. CASE EncodeLoopTest
  BY <1>21, Zenon DEF EncodeLoopTest, FlagsOK, capVars, encVars
<1>22. CASE EncodeCheck
  BY <1>22, Zenon DEF EncodeCheck, FlagsOK, capVars, encVars
<1>23. CASE EncodeBlock
  BY <1>23, Zenon DEF EncodeBlock, FlagsOK, capVars, encVars
<1>24. CASE EncodeWakeSpuriously
  BY <1>24, Zenon DEF EncodeWakeSpuriously, FlagsOK, capVars, encVars
<1>25. CASE EncodeFrameFails
  BY <1>25, Zenon DEF EncodeFrameFails, FlagsOK, capVars, encVars
<1>26. CASE EncodeFrame
  BY <1>26, Zenon DEF EncodeFrame, FlagsOK, capVars, encVars
<1>27. CASE UNCHANGED vars
  BY <1>27, Zenon DEF vars, FlagsOK, capVars, encVars
<1> QED
  BY <1>1, <1>2, <1>3, <1>4, <1>5, <1>6, <1>7, <1>8, <1>9, <1>10, <1>11,
     <1>12, <1>13, <1>14, <1>15, <1>16, <1>17, <1>18, <1>19, <1>20, <1>21,
     <1>22, <1>23, <1>24, <1>25, <1>26, <1>27
     DEF Next, CallerReturns, Camera, CaptureThread, EncodeThread

\* One step keeps every variable in its type.
LEMMA TypeInductive ==
  ASSUME TypeOK, Control, [Next]_vars
  PROVE  TypeOK'
<1> USE ConstantsAssumption DEF TypeOK, Starting, Stopping, statVars, capVars, encVars
<1>0. FlagsOK'
  BY FlagsInductive
<1> USE <1>0
<1>1. CASE Initialize
  BY <1>1 DEF Initialize, DestroyDevice, BuildPipeline
<1>2. CASE StartEncoder
  BY <1>2 DEF StartEncoder
<1>3. CASE StartCaptureFails
  BY <1>3 DEF StartCaptureFails
<1>4. CASE StartCapture
  BY <1>4 DEF StartCapture
<1>5. CASE StartEncodeThread
  BY <1>5 DEF StartEncodeThread, Control, EncoderConfined
<1>6. CASE StopBegin
  BY <1>6 DEF StopBegin
<1>7. CASE StopCapture
  BY <1>7 DEF StopCapture
<1>8. CASE StopJoinCapture
  BY <1>8 DEF StopJoinCapture
<1>9. CASE StopNotify
  BY <1>9 DEF StopNotify, Notified
<1>10. CASE StopRequest
  BY <1>10 DEF StopRequest
<1>11. CASE StopJoin
  BY <1>11 DEF StopJoin
<1>12. CASE StopEncoder
  <2>1. packets \o codec \in Seq(Frames) /\ Len(codec) \in Nat
    BY ConcatProperties, LenProperties
  <2>2. packets' \in Seq(Frames) /\ codec' \in Seq(Frames) /\ framesEncoded' \in Nat
    <3>1. CASE encoder = "open"
      <4>1. /\ packets' = packets \o codec
            /\ codec' = <<>>
            /\ framesEncoded' = framesEncoded + Len(codec)
        BY <1>12, <3>1 DEF StopEncoder
      <4> QED
        BY <4>1, <2>1, EmptySeq
    <3>2. CASE encoder # "open"
      BY <1>12, <3>2 DEF StopEncoder
    <3> QED
      BY <3>1, <3>2
  <2> QED
    BY <1>12, <2>2 DEF StopEncoder
<1>13. CASE RequestKeyframe
  BY <1>13 DEF RequestKeyframe
<1>14. CASE CapturePull
  BY <1>14 DEF CapturePull
<1>15. CASE CaptureBusError
  BY <1>15 DEF CaptureBusError
<1>16. CASE CaptureLeaveLoop
  BY <1>16 DEF CaptureLeaveLoop
<1>17. CASE CapturePush
  <2>1. captured \in Frames
    BY <1>17 DEF CapturePush, Frames
  <2>2. CASE Len(frameQueue) >= QueueCapacity
    <3>1. /\ Tail(frameQueue) \in Seq(Frames)
          /\ Len(Tail(frameQueue)) = Len(frameQueue) - 1
      BY <2>2, HeadTailProperties, EmptySeq
    <3>2. /\ Append(Tail(frameQueue), captured) \in Seq(Frames)
          /\ Len(Append(Tail(frameQueue), captured)) = Len(frameQueue)
      BY <2>1, <3>1, AppendProperties, LenProperties
    <3>3. /\ frameQueue' = Append(Tail(frameQueue), captured)
          /\ framesDropped' = framesDropped + 1
      BY <1>17, <2>2 DEF CapturePush
    <3>4. /\ frameQueue' \in Seq(Frames)
          /\ Len(frameQueue') <= QueueCapacity
          /\ framesDropped' \in Nat
      BY <3>2, <3>3
    <3> QED
      BY <1>17, <3>4 DEF CapturePush
  <2>3. CASE ~(Len(frameQueue) >= QueueCapacity)
    <3>1. /\ Append(frameQueue, captured) \in Seq(Frames)
          /\ Len(Append(frameQueue, captured)) = Len(frameQueue) + 1
          /\ Len(frameQueue) \in Nat
      BY <2>1, AppendProperties, LenProperties
    <3>2. frameQueue' = Append(frameQueue, captured) /\ framesDropped' = framesDropped
      BY <1>17, <2>3 DEF CapturePush
    <3>3. frameQueue' \in Seq(Frames) /\ Len(frameQueue') <= QueueCapacity
      BY <2>3, <3>1, <3>2
    <3> QED
      BY <1>17, <3>2, <3>3 DEF CapturePush
  <2> QED
    BY <2>2, <2>3
<1>18. CASE CaptureNotify
  BY <1>18 DEF CaptureNotify, Notified
<1>19. CASE CaptureCount
  BY <1>19 DEF CaptureCount
<1>20. CASE CaptureExit
  BY <1>20 DEF CaptureExit
<1>21. CASE EncodeLoopTest
  BY <1>21 DEF EncodeLoopTest
<1>22. CASE EncodeCheck
  <2>1. CASE frameQueue # <<>>
    <3>1. /\ Head(frameQueue) \in Frames
          /\ Tail(frameQueue) \in Seq(Frames)
          /\ Len(Tail(frameQueue)) = Len(frameQueue) - 1
          /\ Len(frameQueue) \in Nat
      BY <2>1, HeadTailProperties, LenProperties
    <3>2. <<Head(frameQueue)>> \in Seq(Frames) /\ Len(<<Head(frameQueue)>>) = 1
      BY <3>1
    <3>3. frameQueue' = Tail(frameQueue) /\ held' = <<Head(frameQueue)>> /\ encThread' = "encode"
      BY <1>22, <2>1 DEF EncodeCheck
    <3>4. frameQueue' \in Seq(Frames) /\ Len(frameQueue') <= QueueCapacity
      BY <3>1, <3>3
    <3>5. held' \in Seq(Frames) /\ Len(held') = 1
      BY <3>2, <3>3
    <3> QED
      BY <1>22, <3>3, <3>4, <3>5 DEF EncodeCheck
  <2>2. CASE frameQueue = <<>>
    BY <1>22, <2>2 DEF EncodeCheck
  <2> QED
    BY <2>1, <2>2
<1>23. CASE EncodeBlock
  BY <1>23 DEF EncodeBlock
<1>24. CASE EncodeWakeSpuriously
  BY <1>24 DEF EncodeWakeSpuriously
<1>25. CASE EncodeFrameFails
  BY <1>25 DEF EncodeFrameFails
<1>26. CASE EncodeFrame
  <2>1. PICK k \in 0..(Len(codec) + 1) :
           /\ packets' = packets \o SubSeq(codec \o held, 1, k)
           /\ codec' = SubSeq(codec \o held, k + 1, Len(codec) + 1)
           /\ framesEncoded' = framesEncoded + k
    BY <1>26 DEF EncodeFrame
  <2>2. Len(held) = 1
    BY <1>26 DEF EncodeFrame
  <2>3. /\ SubSeq(codec \o held, 1, k) \in Seq(Frames)
        /\ SubSeq(codec \o held, k + 1, Len(codec) + 1) \in Seq(Frames)
    BY <2>2, CodecSplit
  <2>4. packets' \in Seq(Frames) /\ codec' \in Seq(Frames)
    BY <2>1, <2>3, ConcatProperties
  <2>5. framesEncoded' \in Nat
    BY <2>1, LenProperties
  <2> QED
    BY <1>26, <2>4, <2>5, EmptySeq DEF EncodeFrame
<1>27. CASE UNCHANGED vars
  BY <1>27 DEF vars
<1> QED
  BY <1>1, <1>2, <1>3, <1>4, <1>5, <1>6, <1>7, <1>8, <1>9, <1>10, <1>11,
     <1>12, <1>13, <1>14, <1>15, <1>16, <1>17, <1>18, <1>19, <1>20, <1>21,
     <1>22, <1>23, <1>24, <1>25, <1>26, <1>27
     DEF Next, CallerReturns, Camera, CaptureThread, EncodeThread

\* One step keeps the caller, the capture thread and the encode thread in step.
LEMMA ControlInductive ==
  ASSUME TypeOK, Control, [Next]_vars
  PROVE  Control'
<1> USE DEF Control, EncoderConfined, ThreadDiscipline, NoMissedFrame,
            CaptureQuiescent, TypeOK, FlagsOK, Starting, Stopping, statVars, capVars,
            encVars
<1>1. CASE Initialize
  BY <1>1 DEF Initialize, DestroyDevice, BuildPipeline
<1>2. CASE StartEncoder
  BY <1>2 DEF StartEncoder
<1>3. CASE StartCaptureFails
  BY <1>3 DEF StartCaptureFails
<1>4. CASE StartCapture
  BY <1>4 DEF StartCapture
<1>5. CASE StartEncodeThread
  BY <1>5 DEF StartEncodeThread
<1>6. CASE StopBegin
  BY <1>6 DEF StopBegin
<1>7. CASE StopCapture
  BY <1>7 DEF StopCapture
<1>8. CASE StopJoinCapture
  BY <1>8 DEF StopJoinCapture
<1>9. CASE StopNotify
  BY <1>9 DEF StopNotify, Notified
<1>10. CASE StopRequest
  BY <1>10 DEF StopRequest
<1>11. CASE StopJoin
  BY <1>11 DEF StopJoin
<1>12. CASE StopEncoder
  BY <1>12 DEF StopEncoder
<1>13. CASE RequestKeyframe
  BY <1>13 DEF RequestKeyframe
<1>14. CASE CapturePull
  BY <1>14 DEF CapturePull
<1>15. CASE CaptureBusError
  BY <1>15 DEF CaptureBusError
<1>16. CASE CaptureLeaveLoop
  BY <1>16 DEF CaptureLeaveLoop
<1>17. CASE CapturePush
  BY <1>17 DEF CapturePush
<1>18. CASE CaptureNotify
  BY <1>18 DEF CaptureNotify, Notified
<1>19. CASE CaptureCount
  BY <1>19 DEF CaptureCount
<1>20. CASE CaptureExit
  BY <1>20 DEF CaptureExit
<1>21. CASE EncodeLoopTest
  BY <1>21 DEF EncodeLoopTest
<1>22. CASE EncodeCheck
  BY <1>22 DEF EncodeCheck
<1>23. CASE EncodeBlock
  BY <1>23 DEF EncodeBlock
<1>24. CASE EncodeWakeSpuriously
  BY <1>24 DEF EncodeWakeSpuriously
<1>25. CASE EncodeFrameFails
  BY <1>25 DEF EncodeFrameFails
<1>26. CASE EncodeFrame
  BY <1>26 DEF EncodeFrame
<1>27. CASE UNCHANGED vars
  BY <1>27 DEF vars
<1> QED
  BY <1>1, <1>2, <1>3, <1>4, <1>5, <1>6, <1>7, <1>8, <1>9, <1>10, <1>11,
     <1>12, <1>13, <1>14, <1>15, <1>16, <1>17, <1>18, <1>19, <1>20, <1>21,
     <1>22, <1>23, <1>24, <1>25, <1>26, <1>27
     DEF Next, CallerReturns, Camera, CaptureThread, EncodeThread

\* What the callback's critical section does to the queue: it grows by the new
\* frame, at the price of the oldest one when it is full.
LEMMA PushEffect ==
  ASSUME TypeOK, CapturePush
  PROVE  \/ /\ frameQueue # <<>>
            /\ frameQueue' = Append(Tail(frameQueue), captured)
            /\ Len(frameQueue') = Len(frameQueue)
            /\ framesDropped' = framesDropped + 1
         \/ /\ frameQueue' = Append(frameQueue, captured)
            /\ Len(frameQueue') = Len(frameQueue) + 1
            /\ framesDropped' = framesDropped
<1>1. frameQueue \in Seq(Frames) /\ captured \in Frames /\ Len(frameQueue) \in Nat
  BY LenProperties DEF CapturePush, TypeOK, Frames
<1>2. CASE Len(frameQueue) >= QueueCapacity
  <2>1. frameQueue # <<>>
    BY <1>2, EmptySeq, ConstantsAssumption
  <2>2. Tail(frameQueue) \in Seq(Frames) /\ Len(Tail(frameQueue)) = Len(frameQueue) - 1
    BY <1>1, <2>1, HeadTailProperties
  <2>3. Len(Append(Tail(frameQueue), captured)) = Len(Tail(frameQueue)) + 1
    BY <1>1, <2>2, AppendProperties
  <2>4. frameQueue' = Append(Tail(frameQueue), captured) /\ framesDropped' = framesDropped + 1
    BY <1>2 DEF CapturePush
  <2>5. Len(frameQueue') = Len(frameQueue)
    BY <1>1, <2>2, <2>3, <2>4
  <2> QED
    BY <2>1, <2>4, <2>5
<1>3. CASE ~(Len(frameQueue) >= QueueCapacity)
  <2>1. Len(Append(frameQueue, captured)) = Len(frameQueue) + 1
    BY <1>1, AppendProperties
  <2> QED
    BY <1>3, <2>1 DEF CapturePush
<1> QED
  BY <1>2, <1>3

\* What a successful encodeFrame does: k packets leave the codec, the frame
\* enters it, and nothing is lost or reordered in between.
LEMMA EncodeEffect ==
  ASSUME TypeOK, EncodeFrame
  PROVE  \E k \in Nat, out \in Seq(Frames) :
            /\ Len(out) = k
            /\ packets' = packets \o out
            /\ codec' \in Seq(Frames)
            /\ out \o codec' = codec \o held
            /\ framesEncoded' = framesEncoded + k
            /\ Len(packets') = Len(packets) + k
            /\ Len(codec') = Len(codec) + 1 - k
<1>1. PICK k \in 0..(Len(codec) + 1) :
         /\ packets' = packets \o SubSeq(codec \o held, 1, k)
         /\ codec' = SubSeq(codec \o held, k + 1, Len(codec) + 1)
         /\ framesEncoded' = framesEncoded + k
  BY DEF EncodeFrame
<1>2. codec \in Seq(Frames) /\ held \in Seq(Frames) /\ packets \in Seq(Frames) /\ Len(held) = 1
  BY DEF TypeOK, EncodeFrame
<1> DEFINE out == SubSeq(codec \o held, 1, k)
<1>3. /\ out \in Seq(Frames) /\ codec' \in Seq(Frames) /\ Len(out) = k
      /\ Len(codec') = Len(codec) + 1 - k
      /\ out \o codec' = codec \o held
  <2> DEFINE rest == SubSeq(codec \o held, k + 1, Len(codec) + 1)
  <2>1. /\ out \in Seq(Frames) /\ rest \in Seq(Frames) /\ Len(out) = k
        /\ Len(rest) = Len(codec) + 1 - k
        /\ out \o rest = codec \o held
    <3>1. /\ SubSeq(codec \o held, 1, k) \in Seq(Frames)
          /\ SubSeq(codec \o held, k + 1, Len(codec) + 1) \in Seq(Frames)
      BY <1>2, CodecSplit
    <3>2. /\ Len(SubSeq(codec \o held, 1, k)) = k
          /\ Len(SubSeq(codec \o held, k + 1, Len(codec) + 1)) = Len(codec) + 1 - k
      BY <1>2, CodecSplit
    <3>3. SubSeq(codec \o held, 1, k) \o SubSeq(codec \o held, k + 1, Len(codec) + 1)
             = codec \o held
      BY <1>2, CodecSplit
    <3> QED
      BY <3>1, <3>2, <3>3, Zenon
  <2>2. codec' = rest
    BY <1>1
  <2> QED
    BY <2>1, <2>2, Zenon
<1>4. Len(packets') = Len(packets) + k
  <2>1. Len(packets \o out) = Len(packets) + Len(out)
    BY <1>2, <1>3, ConcatProperties, Zenon
  <2> QED
    BY <1>1, <1>3, <2>1
<1>5. k \in Nat
  BY <1>2, LenProperties
<1> HIDE DEF out
<1>6. packets' = packets \o out
  BY <1>1 DEF out
<1> QED
  BY <1>1, <1>3, <1>4, <1>5, <1>6

\* One step keeps the statistics in agreement with where the frames are.
LEMMA AccountingInductive ==
  ASSUME TypeOK, Control, FrameAccounting, [Next]_vars
  PROVE  FrameAccounting'
<1>0. /\ frameQueue \in Seq(Frames) /\ held \in Seq(Frames)
      /\ codec \in Seq(Frames) /\ packets \in Seq(Frames)
      /\ Len(frameQueue) \in Nat /\ Len(held) \in Nat
      /\ Len(codec) \in Nat /\ Len(packets) \in Nat
      /\ captured \in Nat /\ frameCount \in Nat /\ framesDropped \in Nat
      /\ framesEncoded \in Nat /\ encodeErrors \in Nat
  BY LenProperties DEF TypeOK
<1>total. Accounted \in Nat
  BY <1>0 DEF Accounted
<1> USE <1>0, <1>total DEF FrameAccounting
<1>1. CASE Initialize
  <2>1. Accounted' = Accounted
    BY <1>1 DEF Initialize, DestroyDevice, BuildPipeline, Accounted, statVars, capVars, encVars
  <2> QED
    BY <1>1, <2>1 DEF Initialize, DestroyDevice, BuildPipeline, statVars, Control, CaptureQuiescent
<1>2. CASE StartEncoder
  <2>1. Accounted' = Accounted
    BY <1>2 DEF StartEncoder, Accounted, statVars, capVars, encVars
  <2> QED
    BY <1>2, <2>1 DEF StartEncoder, capVars, statVars
<1>3. CASE StartCaptureFails
  <2>1. Accounted' = Accounted
    BY <1>3 DEF StartCaptureFails, Accounted, statVars, capVars, encVars
  <2> QED
    BY <1>3, <2>1 DEF StartCaptureFails, capVars, statVars
<1>4. CASE StartCapture
  <2>1. Accounted' = Accounted
    BY <1>4 DEF StartCapture, Accounted, statVars, capVars, encVars
  <2> QED
    BY <1>4, <2>1 DEF StartCapture, capVars, statVars
<1>5. CASE StartEncodeThread
  <2>1. Accounted' = Accounted
    BY <1>5 DEF StartEncodeThread, Accounted, statVars, capVars, encVars
  <2> QED
    BY <1>5, <2>1 DEF StartEncodeThread, capVars, statVars
<1>6. CASE StopBegin
  <2>1. Accounted' = Accounted
    BY <1>6 DEF StopBegin, Accounted, statVars, capVars, encVars
  <2> QED
    BY <1>6, <2>1 DEF StopBegin, capVars, statVars
<1>7. CASE StopCapture
  <2>1. Accounted' = Accounted
    BY <1>7 DEF StopCapture, Accounted, statVars, capVars, encVars
  <2> QED
    BY <1>7, <2>1 DEF StopCapture, capVars, statVars
<1>8. CASE StopJoinCapture
  <2>1. Accounted' = Accounted
    BY <1>8 DEF StopJoinCapture, Accounted, statVars, capVars, encVars
  <2> QED
    BY <1>8, <2>1 DEF StopJoinCapture, capVars, statVars
<1>9. CASE StopNotify
  <2>1. Accounted' = Accounted
    BY <1>9 DEF StopNotify, Accounted, statVars, capVars, encVars
  <2> QED
    BY <1>9, <2>1 DEF StopNotify, capVars, statVars
<1>10. CASE StopRequest
  <2>1. Accounted' = Accounted
    BY <1>10 DEF StopRequest, Accounted, statVars, capVars, encVars
  <2> QED
    BY <1>10, <2>1 DEF StopRequest, capVars, statVars
<1>11. CASE StopJoin
  <2>1. Accounted' = Accounted
    BY <1>11 DEF StopJoin, Accounted, statVars, capVars, encVars
  <2> QED
    BY <1>11, <2>1 DEF StopJoin, capVars, statVars
<1>12. CASE StopEncoder
  <2>1. CASE encoder = "open"
    <3>1. /\ packets' = packets \o codec
          /\ codec' = <<>>
          /\ framesEncoded' = framesEncoded + Len(codec)
          /\ UNCHANGED <<framesDropped, frameQueue, held, encodeErrors>>
      BY <1>12, <2>1 DEF StopEncoder
    <3>2. Len(packets \o codec) = Len(packets) + Len(codec) /\ Len(codec') = 0
      BY <1>0, <3>1, ConcatProperties, EmptySeq, Zenon
    <3>3. Accounted' = Accounted /\ framesEncoded' = Len(packets')
      BY <3>1, <3>2 DEF Accounted
    <3> QED
      BY <1>12, <3>3 DEF StopEncoder, capVars
  <2>2. CASE encoder # "open"
    <3>1. Accounted' = Accounted
      BY <1>12, <2>2 DEF StopEncoder, Accounted
    <3> QED
      BY <1>12, <2>2, <3>1 DEF StopEncoder, capVars
  <2> QED
    BY <2>1, <2>2
<1>13. CASE RequestKeyframe
  <2>1. Accounted' = Accounted
    BY <1>13 DEF RequestKeyframe, Accounted, statVars, capVars, encVars
  <2> QED
    BY <1>13, <2>1 DEF RequestKeyframe, capVars, statVars
<1>14. CASE CapturePull
  <2>1. Accounted' = Accounted
    BY <1>14 DEF CapturePull, Accounted, statVars, capVars, encVars
  <2> QED
    BY <1>14, <2>1 DEF CapturePull, capVars, statVars
<1>15. CASE CaptureBusError
  <2>1. Accounted' = Accounted
    BY <1>15 DEF CaptureBusError, Accounted, statVars, capVars, encVars
  <2> QED
    BY <1>15, <2>1 DEF CaptureBusError, capVars, statVars
<1>16. CASE CaptureLeaveLoop
  <2>1. Accounted' = Accounted
    BY <1>16 DEF CaptureLeaveLoop, Accounted, statVars, capVars, encVars
  <2> QED
    BY <1>16, <2>1 DEF CaptureLeaveLoop, capVars, statVars
<1>17. CASE CapturePush
  <2>1. UNCHANGED <<held, codec, framesEncoded, encodeErrors>>
    BY <1>17 DEF CapturePush, encVars
  <2>2. \/ Len(frameQueue') = Len(frameQueue) /\ framesDropped' = framesDropped + 1
        \/ Len(frameQueue') = Len(frameQueue) + 1 /\ framesDropped' = framesDropped
    BY <1>17, PushEffect
  <2>3. Accounted' = Accounted + 1
    <3>1. CASE Len(frameQueue') = Len(frameQueue) /\ framesDropped' = framesDropped + 1
      BY <2>1, <3>1 DEF Accounted
    <3>2. CASE Len(frameQueue') = Len(frameQueue) + 1 /\ framesDropped' = framesDropped
      BY <2>1, <3>2 DEF Accounted
    <3> QED
      BY <2>2, <3>1, <3>2
  <2> QED
    BY <1>17, <2>3 DEF CapturePush
<1>18. CASE CaptureNotify
  <2>1. Accounted' = Accounted
    BY <1>18 DEF CaptureNotify, Accounted, statVars, capVars, encVars
  <2> QED
    BY <1>18, <2>1 DEF CaptureNotify, capVars, statVars
<1>19. CASE CaptureCount
  <2>1. Accounted' = Accounted
    BY <1>19 DEF CaptureCount, Accounted, statVars, capVars, encVars
  <2> QED
    BY <1>19, <2>1 DEF CaptureCount, capVars, statVars
<1>20. CASE CaptureExit
  <2>1. Accounted' = Accounted
    BY <1>20 DEF CaptureExit, Accounted, statVars, capVars, encVars
  <2> QED
    BY <1>20, <2>1 DEF CaptureExit, capVars, statVars
<1>21. CASE EncodeLoopTest
  <2>1. Accounted' = Accounted
    BY <1>21 DEF EncodeLoopTest, Accounted, statVars, capVars, encVars
  <2> QED
    BY <1>21, <2>1 DEF EncodeLoopTest, capVars, statVars
<1>22. CASE EncodeCheck
  <2>1. UNCHANGED <<framesDropped, codec, framesEncoded, encodeErrors>>
    BY <1>22 DEF EncodeCheck, statVars
  <2>2. Accounted' = Accounted
    <3>1. CASE frameQueue # <<>>
      <4>1. frameQueue' = Tail(frameQueue) /\ held' = <<Head(frameQueue)>>
        BY <1>22, <3>1 DEF EncodeCheck
      <4>2. Len(Tail(frameQueue)) = Len(frameQueue) - 1
        BY <1>0, <3>1, HeadTailProperties
      <4>3. Len(<<Head(frameQueue)>>) = 1 /\ Len(held) = 0
        BY <1>22 DEF EncodeCheck, TypeOK
      <4> QED
        BY <2>1, <4>1, <4>2, <4>3 DEF Accounted
    <3>2. CASE frameQueue = <<>>
      BY <1>22, <2>1, <3>2 DEF EncodeCheck, Accounted
    <3> QED
      BY <3>1, <3>2
  <2> QED
    BY <1>22, <2>2 DEF EncodeCheck, capVars, statVars
<1>23. CASE EncodeBlock
  <2>1. Accounted' = Accounted
    BY <1>23 DEF EncodeBlock, Accounted, statVars, capVars, encVars
  <2> QED
    BY <1>23, <2>1 DEF EncodeBlock, capVars, statVars
<1>24. CASE EncodeWakeSpuriously
  <2>1. Accounted' = Accounted
    BY <1>24 DEF EncodeWakeSpuriously, Accounted, statVars, capVars, encVars
  <2> QED
    BY <1>24, <2>1 DEF EncodeWakeSpuriously, capVars, statVars
<1>25. CASE EncodeFrameFails
  <2>1. Len(held) = 1 /\ Len(held') = 0
    BY <1>25, EmptySeq DEF EncodeFrameFails, TypeOK
  <2>2. UNCHANGED <<framesDropped, frameQueue, codec, framesEncoded>> /\ encodeErrors' = encodeErrors + 1
    BY <1>25 DEF EncodeFrameFails
  <2>3. Accounted' = Accounted
    BY <2>1, <2>2 DEF Accounted
  <2> QED
    BY <1>25, <2>3 DEF EncodeFrameFails, capVars
<1>26. CASE EncodeFrame
  <2>1. Len(held) = 1 /\ Len(held') = 0
    BY <1>26, EmptySeq DEF EncodeFrame, TypeOK
  <2>2. PICK k \in Nat : /\ framesEncoded' = framesEncoded + k
                         /\ Len(packets') = Len(packets) + k
                         /\ Len(codec') = Len(codec) + 1 - k
    BY <1>26, EncodeEffect
  <2>3. UNCHANGED <<framesDropped, frameQueue, encodeErrors>>
    BY <1>26 DEF EncodeFrame
  <2>4. Accounted' = Accounted /\ framesEncoded' = Len(packets')
    BY <2>1, <2>2, <2>3 DEF Accounted
  <2> QED
    BY <1>26, <2>4 DEF EncodeFrame, capVars
<1>27. CASE UNCHANGED vars
  BY <1>27 DEF vars, Accounted, capVars, encVars, statVars
<1> QED
  BY <1>1, <1>2, <1>3, <1>4, <1>5, <1>6, <1>7, <1>8, <1>9, <1>10, <1>11,
     <1>12, <1>13, <1>14, <1>15, <1>16, <1>17, <1>18, <1>19, <1>20, <1>21,
     <1>22, <1>23, <1>24, <1>25, <1>26, <1>27
     DEF Next, CallerReturns, Camera, CaptureThread, EncodeThread

-----------------------------------------------------------------------------
(***************************************************************************)
(* Order.                                                                  *)
(***************************************************************************)

\* Leaving out a stretch of an increasing sequence leaves it increasing.
LEMMA DropMiddle ==
  ASSUME NEW s \in Seq(Nat), NEW m \in Seq(Nat), NEW t \in Seq(Nat), NEW b \in Int,
         IncreasingUpTo((s \o m) \o t, b)
  PROVE  IncreasingUpTo(s \o t, b)
<1> DEFINE u == (s \o m) \o t
           v == s \o t
           at(i) == IF i <= Len(s) THEN i ELSE i + Len(m)
<1>1. /\ Len(s) \in Nat /\ Len(m) \in Nat /\ Len(t) \in Nat
      /\ s \o m \in Seq(Nat) /\ Len(s \o m) = Len(s) + Len(m)
  BY LenProperties, ConcatProperties
<1>2. /\ u \in Seq(Nat) /\ Len(u) = Len(s) + Len(m) + Len(t)
      /\ v \in Seq(Nat) /\ Len(v) = Len(s) + Len(t)
  BY <1>1, ConcatProperties
<1>3. \A i \in 1..Len(v) : at(i) \in 1..Len(u) /\ v[i] = u[at(i)]
  <2> SUFFICES ASSUME NEW i \in 1..Len(v)
               PROVE  at(i) \in 1..Len(u) /\ v[i] = u[at(i)]
    OBVIOUS
  <2>1. at(i) \in 1..Len(u)
    BY <1>1, <1>2
  <2>2. v[i] = IF i <= Len(s) THEN s[i] ELSE t[i - Len(s)]
    BY <1>1, <1>2, ConcatProperties
  <2>3. CASE i <= Len(s)
    <3>1. u[i] = (s \o m)[i] /\ (s \o m)[i] = s[i]
      BY <1>1, <1>2, <2>3, ConcatProperties
    <3> QED
      BY <2>1, <2>2, <2>3, <3>1
  <2>4. CASE ~(i <= Len(s))
    <3>1. u[i + Len(m)] = t[i + Len(m) - Len(s \o m)]
      BY <1>1, <1>2, <2>4, ConcatProperties
    <3>2. i + Len(m) - Len(s \o m) = i - Len(s)
      BY <1>1, <1>2
    <3> QED
      BY <2>1, <2>2, <2>4, <3>1, <3>2
  <2> QED
    BY <2>3, <2>4
<1>4. \A i, j \in 1..Len(v) : i < j => at(i) < at(j)
  BY <1>1, <1>2
<1>5. IncreasingUpTo(u, b)
  OBVIOUS
<1> HIDE DEF u, v, at
<1>6. IncreasingUpTo(v, b)
  BY <1>3, <1>4, <1>5 DEF IncreasingUpTo
<1> QED
  BY <1>6 DEF v

\* A larger element may follow.
LEMMA AppendLarger ==
  ASSUME NEW s \in Seq(Nat), NEW b \in Int, NEW x \in Nat, b < x,
         IncreasingUpTo(s, b)
  PROVE  IncreasingUpTo(Append(s, x), x)
<1> DEFINE a == Append(s, x)
<1>1. /\ Len(s) \in Nat /\ Len(a) = Len(s) + 1
      /\ \A i \in 1..Len(s) : a[i] = s[i]
      /\ a[Len(s) + 1] = x
      /\ \A i \in 1..Len(s) : s[i] \in Nat
  BY AppendProperties, LenProperties, ElementOfSeq
<1> HIDE DEF a
<1>2. \A i \in 1..Len(a) : (i \in 1..Len(s) /\ a[i] = s[i]) \/ (i = Len(s) + 1 /\ a[i] = x)
  <2>1. \A n \in Nat : \A i \in 1..(n + 1) : i \in 1..n \/ i = n + 1
    OBVIOUS
  <2>2. \A i \in 1..Len(a) : i \in 1..Len(s) \/ i = Len(s) + 1
    BY <1>1, <2>1, Zenon
  <2> QED
    <3> SUFFICES ASSUME NEW i \in 1..Len(a)
                 PROVE  (i \in 1..Len(s) /\ a[i] = s[i]) \/ (i = Len(s) + 1 /\ a[i] = x)
      OBVIOUS
    <3>1. CASE i \in 1..Len(s)
      <4>1. \A k \in 1..Len(s) : a[k] = s[k]
        BY <1>1
      <4> QED
        BY <3>1, <4>1, Zenon
    <3>2. CASE i = Len(s) + 1
      BY <1>1, <3>2
    <3> QED
      BY <2>2, <3>1, <3>2
<1>3. \A i \in 1..Len(a) : a[i] <= x
  BY <1>1, <1>2 DEF IncreasingUpTo
<1>4. \A i, j \in 1..Len(a) : i < j => a[i] < a[j]
  <2> SUFFICES ASSUME NEW i \in 1..Len(a), NEW j \in 1..Len(a), i < j
               PROVE  a[i] < a[j]
    OBVIOUS
  <2>1. i \in 1..Len(s) /\ a[i] = s[i]
    BY <1>1, <1>2
  <2>2. s[i] <= b
    BY <2>1 DEF IncreasingUpTo
  <2>3. CASE j \in 1..Len(s) /\ a[j] = s[j]
    BY <2>1, <2>3 DEF IncreasingUpTo
  <2>4. CASE a[j] = x
    BY <1>1, <2>1, <2>2, <2>4
  <2> QED
    BY <1>2, <2>3, <2>4
<1> QED
  BY <1>3, <1>4 DEF IncreasingUpTo, a

\* How the pipeline regroups a sequence of frames: a push, a pop and the emission
\* of packets.
LEMMA PushRegroups ==
  ASSUME NEW p \in Seq(Nat), NEW q \in Seq(Nat), NEW x \in Nat
  PROVE  p \o Append(q, x) = Append(p \o q, x)
<1>1. <<x>> \in Seq(Nat) /\ p \o q \in Seq(Nat)
  BY ConcatProperties
<1>2. Append(q, x) = q \o <<x>>
  BY AppendIsConcat
<1>3. Append(p \o q, x) = (p \o q) \o <<x>>
  BY <1>1, AppendIsConcat
<1>4. (p \o q) \o <<x>> = p \o (q \o <<x>>)
  BY <1>1, ConcatAssociative
<1> QED
  BY <1>2, <1>3, <1>4

LEMMA PopRegroups ==
  ASSUME NEW p \in Seq(Nat), NEW q \in Seq(Nat), q # <<>>
  PROVE  /\ <<Head(q)>> \in Seq(Nat)
         /\ Tail(q) \in Seq(Nat)
         /\ (p \o <<Head(q)>>) \o Tail(q) = p \o q
<1>1. Head(q) \in Nat /\ Tail(q) \in Seq(Nat)
  BY HeadTailProperties
<1>2. <<Head(q)>> \in Seq(Nat) /\ q = <<Head(q)>> \o Tail(q)
  BY <1>1
<1>3. (p \o <<Head(q)>>) \o Tail(q) = p \o (<<Head(q)>> \o Tail(q))
  BY <1>1, <1>2, ConcatAssociative
<1> QED
  BY <1>1, <1>2, <1>3

LEMMA Associate ==
  \A p, q, r \in Seq(Nat) : (p \o q) \o r = p \o (q \o r)
BY ConcatAssociative

\* Where the frames are on their way, and what a push adds to it.
LEMMA InFlightShape ==
  ASSUME TypeOK
  PROVE  /\ packets \o codec \in Seq(Nat)
         /\ (packets \o codec) \o held \in Seq(Nat)
         /\ InFlight = ((packets \o codec) \o held) \o frameQueue
         /\ InFlight \in Seq(Nat)
<1>1. packets \in Seq(Nat) /\ codec \in Seq(Nat) /\ held \in Seq(Nat) /\ frameQueue \in Seq(Nat)
  BY FramesAreNumbers DEF TypeOK
<1>2. packets \o codec \in Seq(Nat)
  BY <1>1, ConcatProperties
<1>3. (packets \o codec) \o held \in Seq(Nat)
  BY <1>1, <1>2, ConcatProperties
<1>4. ((packets \o codec) \o held) \o frameQueue \in Seq(Nat)
  BY <1>1, <1>3, ConcatProperties
<1> QED
  BY <1>2, <1>3, <1>4 DEF InFlight

\* One step never lets a frame overtake another.
LEMMA OrderInductive ==
  ASSUME TypeOK, Control, DeliveryOrder, [Next]_vars
  PROVE  DeliveryOrder'
<1>types. /\ frameQueue \in Seq(Nat) /\ held \in Seq(Nat) /\ codec \in Seq(Nat)
      /\ packets \in Seq(Nat) /\ captured \in Nat
  BY FramesAreNumbers DEF TypeOK
<1>shape. /\ packets \o codec \in Seq(Nat) /\ (packets \o codec) \o held \in Seq(Nat)
      /\ InFlight = ((packets \o codec) \o held) \o frameQueue
      /\ InFlight \in Seq(Nat)
  BY InFlightShape
<1>1. CASE Initialize
  <2>1. InFlight' = InFlight
    BY <1>1 DEF Initialize, DestroyDevice, BuildPipeline, InFlight, encVars
  <2> QED
    BY <1>1, <2>1 DEF Initialize, DestroyDevice, BuildPipeline, Control, CaptureQuiescent, DeliveryOrder, IncreasingUpTo
<1>2. CASE StartEncoder
  <2>1. InFlight' = InFlight
    BY <1>2 DEF StartEncoder, InFlight, encVars
  <2> QED
    BY <1>2, <2>1 DEF StartEncoder, capVars, DeliveryOrder, IncreasingUpTo
<1>3. CASE StartCaptureFails
  <2>1. InFlight' = InFlight
    BY <1>3 DEF StartCaptureFails, InFlight, encVars
  <2> QED
    BY <1>3, <2>1 DEF StartCaptureFails, capVars, DeliveryOrder, IncreasingUpTo
<1>4. CASE StartCapture
  <2>1. InFlight' = InFlight
    BY <1>4 DEF StartCapture, InFlight, encVars
  <2> QED
    BY <1>4, <2>1 DEF StartCapture, capVars, DeliveryOrder, IncreasingUpTo
<1>5. CASE StartEncodeThread
  <2>1. InFlight' = InFlight
    BY <1>5 DEF StartEncodeThread, InFlight, encVars
  <2> QED
    BY <1>5, <2>1 DEF StartEncodeThread, capVars, DeliveryOrder, IncreasingUpTo
<1>6. CASE StopBegin
  <2>1. InFlight' = InFlight
    BY <1>6 DEF StopBegin, InFlight, encVars
  <2> QED
    BY <1>6, <2>1 DEF StopBegin, capVars, DeliveryOrder, IncreasingUpTo
<1>7. CASE StopCapture
  <2>1. InFlight' = InFlight
    BY <1>7 DEF StopCapture, InFlight, encVars
  <2> QED
    BY <1>7, <2>1 DEF StopCapture, capVars, DeliveryOrder, IncreasingUpTo
<1>8. CASE StopJoinCapture
  <2>1. InFlight' = InFlight
    BY <1>8 DEF StopJoinCapture, InFlight, encVars
  <2> QED
    BY <1>8, <2>1 DEF StopJoinCapture, capVars, DeliveryOrder, IncreasingUpTo
<1>9. CASE StopNotify
  <2>1. InFlight' = InFlight
    BY <1>9 DEF StopNotify, InFlight, encVars
  <2> QED
    BY <1>9, <2>1 DEF StopNotify, capVars, DeliveryOrder, IncreasingUpTo
<1>10. CASE StopRequest
  <2>1. InFlight' = InFlight
    BY <1>10 DEF StopRequest, InFlight, encVars
  <2> QED
    BY <1>10, <2>1 DEF StopRequest, capVars, DeliveryOrder, IncreasingUpTo
<1>11. CASE StopJoin
  <2>1. InFlight' = InFlight
    BY <1>11 DEF StopJoin, InFlight, encVars
  <2> QED
    BY <1>11, <2>1 DEF StopJoin, capVars, DeliveryOrder, IncreasingUpTo
<1>12. CASE StopEncoder
  <2>1. CASE encoder = "open"
    <3>1. packets' = packets \o codec /\ codec' = <<>> /\ UNCHANGED <<held, frameQueue>>
      BY <1>12, <2>1 DEF StopEncoder
    <3>2. (packets \o codec) \o <<>> = packets \o codec
      BY <1>shape, ConcatEmptySeq
    <3>3. InFlight' = InFlight
      BY <3>1, <3>2, <1>shape, Zenon DEF InFlight
    <3> QED
      BY <1>12, <3>3 DEF StopEncoder, capVars, DeliveryOrder, IncreasingUpTo
  <2>2. CASE encoder # "open"
    <3>1. InFlight' = InFlight
      BY <1>12, <2>2 DEF StopEncoder, InFlight
    <3> QED
      BY <1>12, <3>1 DEF StopEncoder, capVars, DeliveryOrder, IncreasingUpTo
  <2> QED
    BY <2>1, <2>2
<1>13. CASE RequestKeyframe
  <2>1. InFlight' = InFlight
    BY <1>13 DEF RequestKeyframe, InFlight, encVars
  <2> QED
    BY <1>13, <2>1 DEF RequestKeyframe, capVars, DeliveryOrder, IncreasingUpTo
<1>14. CASE CapturePull
  <2>1. InFlight' = InFlight
    BY <1>14 DEF CapturePull, InFlight, encVars
  <2>2. capThread # "push" /\ capThread' = "push" /\ captured' - 1 = captured
    BY <1>14, <1>types DEF CapturePull
  <2> QED
    BY <2>1, <2>2 DEF DeliveryOrder, IncreasingUpTo
<1>15. CASE CaptureBusError
  <2>1. InFlight' = InFlight
    BY <1>15 DEF CaptureBusError, InFlight, encVars
  <2> QED
    BY <1>15, <2>1 DEF CaptureBusError, capVars, DeliveryOrder, IncreasingUpTo
<1>16. CASE CaptureLeaveLoop
  <2>1. InFlight' = InFlight
    BY <1>16 DEF CaptureLeaveLoop, InFlight, encVars
  <2> QED
    BY <1>16, <2>1 DEF CaptureLeaveLoop, capVars, DeliveryOrder, IncreasingUpTo
<1>17. CASE CapturePush
  <2> DEFINE p == (packets \o codec) \o held
  <2>1. /\ packets' = packets /\ codec' = codec /\ held' = held
        /\ captured' = captured /\ capThread = "push" /\ capThread' = "notify"
    BY <1>17 DEF CapturePush, encVars
  <2>2. InFlight = p \o frameQueue /\ p \in Seq(Nat)
    BY <1>shape
  <2>3. InFlight' = p \o frameQueue'
    BY <2>1 DEF InFlight
  <2>4. IncreasingUpTo(p \o frameQueue, captured - 1)
    BY <2>1, <2>2 DEF DeliveryOrder
  <2> HIDE DEF p
  <2>5. captured - 1 \in Int /\ captured - 1 < captured
    BY <1>types
  <2>6. CASE frameQueue # <<>> /\ frameQueue' = Append(Tail(frameQueue), captured)
    <3> DEFINE h == <<Head(frameQueue)>>
               t == Tail(frameQueue)
    <3>1. h \in Seq(Nat) /\ t \in Seq(Nat) /\ (p \o h) \o t = p \o frameQueue
      BY <1>types, <2>2, <2>6, PopRegroups
    <3> HIDE DEF h, t
    <3>2. IncreasingUpTo((p \o h) \o t, captured - 1)
      BY <2>4, <3>1
    <3>3. IncreasingUpTo(p \o t, captured - 1)
      BY <2>2, <2>5, <3>1, <3>2, DropMiddle
    <3>4. p \o t \in Seq(Nat)
      BY <2>2, <3>1, ConcatProperties
    <3>5. IncreasingUpTo(Append(p \o t, captured), captured)
      BY <1>types, <2>5, <3>3, <3>4, AppendLarger
    <3>6. p \o Append(t, captured) = Append(p \o t, captured)
      BY <1>types, <2>2, <3>1, PushRegroups
    <3>7. InFlight' = Append(p \o t, captured)
      BY <2>3, <2>6, <3>6 DEF t
    <3> QED
      BY <2>1, <3>5, <3>7 DEF DeliveryOrder, IncreasingUpTo
  <2>7. CASE frameQueue' = Append(frameQueue, captured)
    <3>1. p \o frameQueue \in Seq(Nat)
      BY <1>shape, <2>2
    <3>2. IncreasingUpTo(Append(p \o frameQueue, captured), captured)
      BY <1>types, <2>4, <2>5, <3>1, AppendLarger
    <3>3. p \o Append(frameQueue, captured) = Append(p \o frameQueue, captured)
      BY <1>types, <2>2, PushRegroups
    <3>4. InFlight' = Append(p \o frameQueue, captured)
      BY <2>3, <2>7, <3>3
    <3> QED
      BY <2>1, <3>2, <3>4 DEF DeliveryOrder, IncreasingUpTo
  <2> QED
    BY <1>17, <2>6, <2>7, PushEffect
<1>18. CASE CaptureNotify
  <2>1. InFlight' = InFlight
    BY <1>18 DEF CaptureNotify, InFlight, encVars
  <2> QED
    BY <1>18, <2>1 DEF CaptureNotify, capVars, DeliveryOrder, IncreasingUpTo
<1>19. CASE CaptureCount
  <2>1. InFlight' = InFlight
    BY <1>19 DEF CaptureCount, InFlight, encVars
  <2> QED
    BY <1>19, <2>1 DEF CaptureCount, capVars, DeliveryOrder, IncreasingUpTo
<1>20. CASE CaptureExit
  <2>1. InFlight' = InFlight
    BY <1>20 DEF CaptureExit, InFlight, encVars
  <2> QED
    BY <1>20, <2>1 DEF CaptureExit, capVars, DeliveryOrder, IncreasingUpTo
<1>21. CASE EncodeLoopTest
  <2>1. InFlight' = InFlight
    BY <1>21 DEF EncodeLoopTest, InFlight, encVars
  <2> QED
    BY <1>21, <2>1 DEF EncodeLoopTest, capVars, DeliveryOrder, IncreasingUpTo
<1>22. CASE EncodeCheck
  <2> DEFINE p == packets \o codec
  <2>1. p \in Seq(Nat) /\ InFlight = (p \o held) \o frameQueue
    BY <1>shape
  <2>2. packets' = packets /\ codec' = codec
    BY <1>22 DEF EncodeCheck
  <2>3. InFlight' = (p \o held') \o frameQueue'
    BY <2>2 DEF InFlight
  <2> HIDE DEF p
  <2>4. InFlight' = InFlight
    <3>1. CASE frameQueue # <<>>
      <4>1. held' = <<Head(frameQueue)>> /\ frameQueue' = Tail(frameQueue)
        BY <1>22, <3>1 DEF EncodeCheck
      <4>2. held = <<>>
        BY <1>22, <1>types, EmptySeq DEF EncodeCheck, TypeOK
      <4>3. (p \o <<Head(frameQueue)>>) \o Tail(frameQueue) = p \o frameQueue
        BY <1>types, <2>1, <3>1, PopRegroups
      <4>4. p \o <<>> = p
        BY <2>1, ConcatEmptySeq
      <4> QED
        BY <2>1, <2>3, <4>1, <4>2, <4>3, <4>4
    <3>2. CASE frameQueue = <<>>
      BY <1>22, <2>1, <2>3, <3>2 DEF EncodeCheck
    <3> QED
      BY <3>1, <3>2
  <2> QED
    BY <1>22, <2>4 DEF EncodeCheck, capVars, DeliveryOrder, IncreasingUpTo
<1>23. CASE EncodeBlock
  <2>1. InFlight' = InFlight
    BY <1>23 DEF EncodeBlock, InFlight, encVars
  <2> QED
    BY <1>23, <2>1 DEF EncodeBlock, capVars, DeliveryOrder, IncreasingUpTo
<1>24. CASE EncodeWakeSpuriously
  <2>1. InFlight' = InFlight
    BY <1>24 DEF EncodeWakeSpuriously, InFlight, encVars
  <2> QED
    BY <1>24, <2>1 DEF EncodeWakeSpuriously, capVars, DeliveryOrder, IncreasingUpTo
<1>25. CASE EncodeFrameFails
  <2> DEFINE p == packets \o codec
             b == IF capThread = "push" THEN captured - 1 ELSE captured
  <2>1. held' = <<>> /\ p' = p /\ frameQueue' = frameQueue /\ b' = b
    BY <1>25 DEF EncodeFrameFails, capVars
  <2>2. p \in Seq(Nat) /\ b \in Int
    BY <1>types, <1>shape
  <2>3. IncreasingUpTo((p \o held) \o frameQueue, b)
    BY <1>shape, Zenon DEF DeliveryOrder
  <2> HIDE DEF p, b
  <2>4. IncreasingUpTo(p \o frameQueue, b)
    BY <1>types, <2>2, <2>3, DropMiddle
  <2>5. p \o <<>> = p
    BY <2>2, ConcatEmptySeq
  <2>6. InFlight' = p \o frameQueue
    BY <2>1, <2>5 DEF InFlight, p
  <2> QED
    BY <2>1, <2>4, <2>6 DEF DeliveryOrder, b, IncreasingUpTo
<1>26. CASE EncodeFrame
  <2>1. PICK out \in Seq(Nat), rest \in Seq(Nat) :
           packets' = packets \o out /\ codec' = rest /\ out \o rest = codec \o held
    BY <1>26, EncodeEffect, FramesAreNumbers
  <2>2. held' = <<>> /\ frameQueue' = frameQueue
    BY <1>26 DEF EncodeFrame
  <2>3. (packets \o out) \o codec' = (packets \o codec) \o held
    <3>1. (packets \o out) \o rest = packets \o (out \o rest)
      BY <1>types, Associate, Zenon
    <3>2. (packets \o codec) \o held = packets \o (codec \o held)
      BY <1>types, Associate, Zenon
    <3> QED
      BY <2>1, <3>1, <3>2, Zenon
  <2>5. ((packets \o codec) \o held) \o <<>> = (packets \o codec) \o held
    BY <1>shape, ConcatEmptySeq
  <2>6. InFlight' = InFlight
    BY <2>1, <2>2, <2>3, <2>5, Zenon DEF InFlight
  <2> QED
    BY <1>26, <2>6 DEF EncodeFrame, capVars, DeliveryOrder, IncreasingUpTo
<1>27. CASE UNCHANGED vars
  BY <1>27 DEF vars, DeliveryOrder, IncreasingUpTo, InFlight, capVars, encVars, statVars
<1> QED
  BY <1>1, <1>2, <1>3, <1>4, <1>5, <1>6, <1>7, <1>8, <1>9, <1>10, <1>11,
     <1>12, <1>13, <1>14, <1>15, <1>16, <1>17, <1>18, <1>19, <1>20, <1>21,
     <1>22, <1>23, <1>24, <1>25, <1>26, <1>27
     DEF Next, CallerReturns, Camera, CaptureThread, EncodeThread

-----------------------------------------------------------------------------
\* The pipeline's inductive invariant: types, the discipline of the three
\* threads, the accounting of frames and their order.
IndInv == TypeOK /\ Control /\ FrameAccounting /\ DeliveryOrder

LEMMA Invariance == Spec => []IndInv
<1>1. Init => IndInv
  <2> SUFFICES ASSUME Init PROVE IndInv
    OBVIOUS
  <2>1. FlagsOK
    BY Zenon DEF Init, FlagsOK
  <2>2. <<>> \in Seq(Frames) /\ Len(<<>>) = 0
    BY EmptySeq
  <2>3. TypeOK
    BY <2>1, <2>2, ConstantsAssumption DEF Init, TypeOK, Starting, Stopping
  <2>4. Control
    BY DEF Init, Control, EncoderConfined, ThreadDiscipline, NoMissedFrame,
           CaptureQuiescent, Starting
  <2>5. FrameAccounting
    BY <2>2 DEF Init, FrameAccounting, Accounted
  <2>6. DeliveryOrder
    <3>1. InFlight = <<>>
      BY <2>2, ConcatEmptySeq DEF Init, InFlight
    <3> QED
      BY <3>1, <2>2 DEF DeliveryOrder, IncreasingUpTo
  <2> QED
    BY <2>3, <2>4, <2>5, <2>6 DEF IndInv
<1>2. IndInv /\ [Next]_vars => IndInv'
  BY TypeInductive, ControlInductive, AccountingInductive, OrderInductive DEF IndInv
<1> QED
  BY <1>1, <1>2, PTL DEF Spec

\* Every variable keeps its type, and the capture callback and the encode thread
\* together never let the frame queue exceed its capacity.
THEOREM TypeCorrect == Spec => []TypeOK
<1>1. IndInv => TypeOK
  BY DEF IndInv
<1> QED
  BY <1>1, Invariance, PTL

\* Every sample pulled is dropped, queued, being encoded, in the codec, delivered
\* or refused, and the reported statistics say which.
THEOREM FramesAccounted == Spec => []FrameAccounting
<1>1. IndInv => FrameAccounting
  BY DEF IndInv
<1> QED
  BY <1>1, Invariance, PTL

\* Frames reach the packet callback in the order in which they were captured,
\* none of them twice.
THEOREM FramesOrdered == Spec => []DeliveryOrder
<1>1. IndInv => DeliveryOrder
  BY DEF IndInv
<1> QED
  BY <1>1, Invariance, PTL

\* The encode thread never sleeps on a queued frame whose notification is past.
THEOREM NoFrameMissed == Spec => []NoMissedFrame
<1>1. IndInv => NoMissedFrame
  BY DEF IndInv, Control
<1> QED
  BY <1>1, Invariance, PTL

\* The encoder is touched by the caller only while there is no encode thread.
THEOREM EncoderUnshared == Spec => []EncoderConfined
<1>1. IndInv => EncoderConfined
  BY DEF IndInv, Control
<1> QED
  BY <1>1, Invariance, PTL

\* No capture callback runs once stop() has joined the encode thread.
THEOREM CaptureStops == Spec => []CaptureQuiescent
<1>1. IndInv => CaptureQuiescent
  BY DEF IndInv, Control
<1> QED
  BY <1>1, Invariance, PTL

\* start() and stop() keep their order with the two threads: a capture thread that
\* ends by itself, a join and a failed start leave running_, the codec and the
\* encoder as the next call expects them.
THEOREM ThreadsInOrder == Spec => []ThreadDiscipline
<1>1. IndInv => ThreadDiscipline
  BY DEF IndInv, Control
<1> QED
  BY <1>1, Invariance, PTL

-----------------------------------------------------------------------------
(***************************************************************************)
(* The pipeline implements FrameStream.  Packets are only ever appended,   *)
(* by encodeFrame() and by the flush in stop(), and captured only counts   *)
(* up; that what is appended is newer than what is there is DeliveryOrder. *)
(***************************************************************************)
LEMMA PacketsGrow ==
  ASSUME TypeOK, [Next]_vars
  PROVE  \/ packets' = packets /\ captured' \in {captured, captured + 1}
         \/ captured' = captured /\ \E out \in Seq(Frames) : packets' = packets \o out
<1>1. CASE StopEncoder
  <2>1. CASE encoder = "open"
    BY <1>1, <2>1 DEF StopEncoder, capVars, TypeOK
  <2>2. CASE encoder # "open"
    BY <1>1, <2>2 DEF StopEncoder, capVars
  <2> QED
    BY <2>1, <2>2
<1>2. CASE EncodeFrame
  BY <1>2, EncodeEffect DEF EncodeFrame, capVars
<1>3. CASE CapturePull
  BY <1>3 DEF CapturePull
<1>4. CASE CallerReturns /\ ~StopEncoder
  BY <1>4 DEF CallerReturns, StartCapture, StartCaptureFails, StartEncodeThread, StopCapture,
              StopJoinCapture, StopNotify, StopRequest, StopJoin, capVars
<1>5. CASE Initialize \/ StartEncoder \/ StopBegin \/ RequestKeyframe
  BY <1>5 DEF Initialize, StartEncoder, StopBegin, RequestKeyframe, capVars
<1>6. CASE CaptureBusError \/ CaptureThread
  BY <1>6 DEF CaptureBusError, CaptureThread, CaptureLeaveLoop, CapturePush, CaptureNotify,
              CaptureCount, CaptureExit
<1>7. CASE (EncodeThread /\ ~EncodeFrame) \/ EncodeWakeSpuriously
  BY <1>7 DEF EncodeThread, EncodeLoopTest, EncodeCheck, EncodeBlock, EncodeFrameFails,
              EncodeWakeSpuriously, capVars
<1>8. CASE UNCHANGED vars
  BY <1>8 DEF vars, capVars
<1> QED
  BY <1>1, <1>2, <1>3, <1>4, <1>5, <1>6, <1>7, <1>8 DEF Next, Camera, CallerReturns, EncodeThread

\* What has been delivered was captured, and is in order.
Delivered ==
    /\ packets \in Seq(1..captured)
    /\ \A i, j \in 1..Len(packets) : i < j => packets[i] < packets[j]

LEMMA DeliveredInOrder ==
  ASSUME TypeOK, DeliveryOrder
  PROVE  Delivered
<1> DEFINE rest == (codec \o held) \o frameQueue
<1>1. /\ packets \in Seq(Nat) /\ codec \in Seq(Nat) /\ held \in Seq(Nat)
      /\ frameQueue \in Seq(Nat) /\ captured \in Nat
  BY FramesAreNumbers DEF TypeOK
<1>2. rest \in Seq(Nat) /\ InFlight = packets \o rest
  <2>1. codec \o held \in Seq(Nat) /\ packets \o codec \in Seq(Nat)
    BY <1>1, ConcatProperties
  <2>2. rest \in Seq(Nat)
    BY <1>1, <2>1, ConcatProperties
  <2>3. (packets \o codec) \o held = packets \o (codec \o held)
    BY <1>1, Associate, Zenon
  <2>4. (packets \o (codec \o held)) \o frameQueue = packets \o ((codec \o held) \o frameQueue)
    BY <1>1, <2>1, Associate, Zenon
  <2> QED
    BY <2>2, <2>3, <2>4, InFlightShape
<1> HIDE DEF rest
<1>3. /\ Len(packets) \in Nat /\ Len(rest) \in Nat
      /\ Len(InFlight) = Len(packets) + Len(rest)
      /\ \A i \in 1..Len(packets) : InFlight[i] = packets[i]
  <2>1. Len(packets) \in Nat /\ Len(rest) \in Nat
    BY <1>1, <1>2, LenProperties
  <2>2. /\ Len(packets \o rest) = Len(packets) + Len(rest)
        /\ \A i \in 1..(Len(packets) + Len(rest)) :
              (packets \o rest)[i] = IF i <= Len(packets) THEN packets[i] ELSE rest[i - Len(packets)]
    BY <1>1, <1>2, ConcatProperties
  <2> QED
    BY <1>2, <2>1, <2>2
<1>4. \A i \in 1..Len(packets) : packets[i] \in 1..captured
  <2>1. \A i \in 1..Len(packets) : packets[i] \in Frames
    BY ElementOfSeq DEF TypeOK
  <2>2. \A i \in 1..Len(packets) : packets[i] <= captured
    BY <1>1, <1>3, <2>1 DEF DeliveryOrder, IncreasingUpTo, Frames
  <2> QED
    BY <1>1, <2>1, <2>2 DEF Frames
<1>5. packets \in Seq(1..captured)
  <2>1. packets \in [1..Len(packets) -> Nat]
    BY <1>1, LenProperties
  <2>2. packets \in [1..Len(packets) -> 1..captured]
    BY <1>4, <2>1
  <2> QED
    BY <1>3, <2>2, SeqDef
<1>6. \A i, j \in 1..Len(packets) : i < j => packets[i] < packets[j]
  BY <1>3 DEF DeliveryOrder, IncreasingUpTo
<1> QED
  BY <1>5, <1>6 DEF Delivered

\* Seen from the packet callback, the pipeline with its three threads, its queue,
\* its codec and its restarts is a FrameStream: frames in capture order, none
\* twice, none that was not captured, and nothing taken back.
THEOREM PipelineImplementsStream == Spec => ImplementsFrameStream
<1>1. Init => Stream!Init
  BY DEF Init, Stream!Init
<1>2. IndInv => Delivered
  BY DeliveredInOrder DEF IndInv
<1>3. IndInv /\ Delivered' /\ [Next]_vars => [Stream!Next]_(Stream!streamVars)
  <2> SUFFICES ASSUME IndInv, Delivered', [Next]_vars
               PROVE  Stream!Next \/ UNCHANGED <<captured, packets>>
    BY DEF Stream!streamVars
  <2>1. TypeOK
    BY DEF IndInv
  <2>2. CASE packets' = packets /\ captured' \in {captured, captured + 1}
    BY <2>2 DEF Stream!Next, Stream!Capture
  <2>3. CASE captured' = captured /\ \E out \in Seq(Frames) : packets' = packets \o out
    <3>1. PICK out \in Seq(Frames) : packets' = packets \o out
      BY <2>3
    <3>2. packets \in Seq(Frames)
      BY <2>1 DEF TypeOK
    <3>3. Len(packets) \in Nat /\ Len(out) \in Nat
      BY <3>2, LenProperties
    <3>4. /\ Len(packets \o out) = Len(packets) + Len(out)
          /\ \A i \in 1..(Len(packets) + Len(out)) :
                (packets \o out)[i] = IF i <= Len(packets) THEN packets[i] ELSE out[i - Len(packets)]
      BY <3>2, ConcatProperties
    <3>5. /\ Len(packets) <= Len(packets')
          /\ \A i \in 1..Len(packets) : packets'[i] = packets[i]
      BY <3>1, <3>3, <3>4
    <3>6. /\ packets' \in Seq(1..captured')
          /\ \A i, j \in 1..Len(packets') : i < j => packets'[i] < packets'[j]
      BY DEF Delivered
    <3> QED
      BY <2>3, <3>5, <3>6 DEF Stream!Next, Stream!Deliver
  <2> QED
    BY <2>1, <2>2, <2>3, PacketsGrow
<1> QED
  BY <1>1, <1>2, <1>3, Invariance, PTL DEF Spec, ImplementsFrameStream, Stream!Spec
=============================================================================
