------------------------------- MODULE Codecs -------------------------------
(***************************************************************************)
(* The four wrappers around libav: SoftwareEncoder and NVENCEncoder        *)
(* (video-core/src/encode), SoftwareDecoder and NvdecDecoder               *)
(* (video-core/src/decode), from the factory that picks one to the         *)
(* destructor.  Each keeps libav objects behind raw pointers, which        *)
(* initialize() fills one by one, stop() releases in part and the          *)
(* destructor releases altogether.  The model keeps what each pointer      *)
(* refers to, how many objects nothing refers to any more, and which       *)
(* output reached which callback.  One thread calls a codec, in any order: *)
(* nothing in the classes keeps initialize() from being called again on a  *)
(* codec in use.  Keyframe requests come from another thread, between any  *)
(* two steps of encodeFrame().                                             *)
(* libav is external: any of its calls may fail, an input may be refused,  *)
(* an output may come late.                                                *)
(***************************************************************************)
EXTENDS Integers, Sequences, FiniteSets

CONSTANTS
    CodecDepth,     \* most inputs a context holds before an output comes
    MaxInputs,      \* bound: inputs accepted by one codec
    MaxInits        \* bound: calls of initialize() on one codec

ASSUME ConstantsAssumption ==
    CodecDepth \in Nat /\ MaxInputs \in Nat /\ MaxInits \in Nat

VARIABLES
    kind,           \* which class the codec is of, "none" before there is one
    alive,          \* not yet destroyed
    ptr,            \* codecCtx_, frame_, cpuFrame_, hwDeviceCtx_: "null", "held"; "open" for an opened context
    ready,          \* running_ of an encoder, initialized_ of a decoder
    inits,          \* calls of initialize() so far; names the callback it stored
    lost,           \* objects that nothing refers to and nobody released
    sent,           \* inputs accepted so far; names the newest
    pending,        \* inputs accepted by the context whose output is to come
    delivered,      \* outputs taken out: input, callback meant, callback reached (0 for none)
    step,           \* encodeFrame(): outside, or about to send an ordinary or an intra frame;
                    \* "crashed" when the program has used a null pointer
    forceKeyframe,  \* SoftwareEncoder::forceKeyframe_
    failed,         \* history: the calls of initialize() that returned an error
    overwritten,    \* history: inputs that were in a context which initialize() replaced
    due             \* history: a request not yet answered, nor lost with a refused frame

life == <<kind, alive, ptr, ready, inits, lost, failed>>
flow == <<sent, pending, delivered, overwritten>>
vars == <<life, flow, step, forceKeyframe, due>>

Encoders == {"x264", "nvenc"}
Decoders == {"h264", "nvdec"}
Slots == {"codecCtx", "frame", "cpuFrame", "hwDeviceCtx"}
Empty == [s \in Slots |-> "null"]
Held(p) == {s \in Slots : p[s] # "null"}

Init ==
    /\ kind = "none" /\ alive = FALSE
    /\ ptr = Empty /\ ready = FALSE /\ inits = 0 /\ lost = 0
    /\ failed = {} /\ overwritten = 0
    /\ sent = 0 /\ pending = <<>> /\ delivered = <<>>
    /\ step = "out" /\ forceKeyframe = FALSE /\ due = FALSE

\* A codec of one of the classes ks comes into being.
Construct(ks) ==
    /\ ~alive /\ alive' = TRUE
    /\ kind' \in ks
    /\ ptr' = Empty /\ ready' = FALSE /\ inits' = 0 /\ lost' = 0
    /\ failed' = {} /\ overwritten' = 0
    /\ sent' = 0 /\ pending' = <<>> /\ delivered' = <<>>
    /\ step' = "out" /\ forceKeyframe' = FALSE /\ due' = FALSE

\* createEncoder(): NVENC whenever libav has it, whichever type was asked for.
CreateEncoder == Construct(Encoders)

\* createDecoder(): NVDEC if a device context can be made, which is released again.
CreateDecoder == Construct(Decoders)

-----------------------------------------------------------------------------
(***************************************************************************)
(* initialize().  A run of it says what it did to each pointer before it   *)
(* returned: left it, or overwrote it with a null, an object or an opened  *)
(* context.                                                                *)
(***************************************************************************)
Run(codecCtx, frame, cpuFrame, hwDeviceCtx) ==
    [codecCtx |-> codecCtx, frame |-> frame, cpuFrame |-> cpuFrame, hwDeviceCtx |-> hwDeviceCtx]

\* Both encoders: no codec; no context; context not opened; success.
EncoderReady == Run("open", "kept", "kept", "kept")
EncoderRuns == {Run(c, "kept", "kept", "kept") : c \in {"kept", "null", "held", "open"}}

\* No codec; no context; context not opened; no frame; success.
SoftwareReady == Run("open", "held", "kept", "kept")
SoftwareRuns ==
    {Run(c, "kept", "kept", "kept") : c \in {"kept", "null", "held"}}
    \cup {Run("open", "null", "kept", "kept"), SoftwareReady}

\* No device (av_hwdevice_ctx_create clears the pointer); no codec; no context;
\* context not opened; then both frames are allocated before either is tested.
NvdecReady == Run("open", "held", "held", "held")
NvdecRuns ==
    {Run("kept", "kept", "kept", "null")}
    \cup {Run(c, "kept", "kept", "held") : c \in {"kept", "null", "held"}}
    \cup {Run("open", f, c, "held") : f, c \in {"null", "held"}}

\* Nothing asks whether the codec is in use.  The callback is replaced first, pointers
\* are overwritten whatever they held, what an old context still held is out of reach
\* with it, and a failure leaves the flag as it was, true over what is left.
Assign(run, success) ==
    /\ alive /\ step = "out" /\ inits < MaxInits
    /\ inits' = inits + 1
    /\ failed' = IF run = success THEN failed ELSE failed \cup {inits + 1}
    /\ ready' = (ready \/ run = success)
    /\ ptr' = [s \in Slots |-> IF run[s] = "kept" THEN ptr[s] ELSE run[s]]
    /\ lost' = lost + Cardinality({s \in Held(ptr) : run[s] # "kept"})
    /\ IF run.codecCtx = "kept"
       THEN UNCHANGED <<pending, overwritten>>
       ELSE pending' = <<>> /\ overwritten' = overwritten + Len(pending)
    /\ UNCHANGED <<kind, alive, sent, delivered, step, forceKeyframe, due>>

InitializeSoftwareEncoder == kind = "x264" /\ \E run \in EncoderRuns : Assign(run, EncoderReady)
InitializeNVENCEncoder == kind = "nvenc" /\ \E run \in EncoderRuns : Assign(run, EncoderReady)

\* Mutant: the decoder counts as initialized before its frame is allocated.
InitializeDecoderEarly ==
    kind = "h264" /\ \E run \in SoftwareRuns :
        Assign(run, IF run.codecCtx = "open" THEN run ELSE SoftwareReady)

InitializeSoftwareDecoder == kind = "h264" /\ \E run \in SoftwareRuns : Assign(run, SoftwareReady)
InitializeNvdecDecoder == kind = "nvdec" /\ \E run \in NvdecRuns : Assign(run, NvdecReady)

-----------------------------------------------------------------------------
(***************************************************************************)
(* Inputs and outputs.                                                     *)
(***************************************************************************)
\* Past the test of running_ or initialized_, with an input to give.  A context that
\* was not opened refuses it.
Called == alive /\ ready /\ step = "out" /\ sent < MaxInputs
Usable == Called /\ ptr.codecCtx = "open"

\* Past that test no pointer is looked at before it is used: encodeFrame(), decodePacket(),
\* and stop() and destructor of a decoder end the program on a null context, a decoder also
\* where an output is to go into a null frame.
UseNull ==
    /\ alive /\ ready /\ step = "out"
    /\ \/ ptr.codecCtx = "null"
       \/ kind \in Decoders /\ ptr.codecCtx = "open" /\ ptr.frame = "null"
       \/ kind = "nvdec" /\ ptr.codecCtx = "open" /\ ptr.cpuFrame = "null"
    /\ step' = "crashed"
    /\ UNCHANGED <<life, flow, forceKeyframe, due>>

\* Outputs s go to the callback that is in place, except those of the inputs in
\* skipped, which cannot be handed on.
Delivery(s, skipped) ==
    [i \in 1..Len(s) |-> [input |-> s[i].input, meant |-> s[i].meant,
                          got |-> IF s[i].input \in skipped THEN 0 ELSE inits]]

\* Mutant: the last output taken out is not unreferenced and comes again.
AcceptTwice(skipped) ==
    \E n \in 0..(Len(pending) + 1) :
        LET all == Append(pending, [input |-> sent + 1, meant |-> inits])
        IN  /\ Len(all) - n <= CodecDepth
            /\ pending' = SubSeq(all, IF n = 0 THEN 1 ELSE n, Len(all))
            /\ delivered' = delivered \o Delivery(SubSeq(all, 1, n), skipped)
            /\ sent' = sent + 1
            /\ UNCHANGED overwritten

\* The context takes the input and the first n of what it holds come out.
Accept(skipped) ==
    \E n \in 0..(Len(pending) + 1) :
        LET all == Append(pending, [input |-> sent + 1, meant |-> inits])
        IN  /\ Len(all) - n <= CodecDepth
            /\ pending' = SubSeq(all, n + 1, Len(all))
            /\ delivered' = delivered \o Delivery(SubSeq(all, 1, n), skipped)
            /\ sent' = sent + 1
            /\ UNCHANGED overwritten

\* SoftwareEncoder::encodeFrame up to the send: the frame is converted and the
\* flag taken, whatever becomes of the frame.
EncodeBegin ==
    /\ kind = "x264" /\ Called /\ ptr.codecCtx # "null"
    /\ step' = IF forceKeyframe THEN "intra" ELSE "plain"
    /\ forceKeyframe' = FALSE
    /\ UNCHANGED <<life, flow, due>>

\* Mutant: the flag is cleared once more after the send.
EncodeSendClearsFlag ==
    /\ kind = "x264" /\ step \in {"plain", "intra"} /\ ptr.codecCtx = "open"
    /\ Accept({})
    /\ forceKeyframe' = FALSE
    /\ due' = IF step = "intra" THEN forceKeyframe ELSE due
    /\ step' = "out"
    /\ UNCHANGED life

\* The send succeeds.  An intra frame answers the requests made before the flag
\* was taken, not one made since.
EncodeSend ==
    /\ kind = "x264" /\ step \in {"plain", "intra"} /\ ptr.codecCtx = "open"
    /\ Accept({})
    /\ due' = IF step = "intra" THEN forceKeyframe ELSE due
    /\ step' = "out"
    /\ UNCHANGED <<life, forceKeyframe>>

\* The send is refused, and a request that was taken goes with the frame.
EncodeRefused ==
    /\ kind = "x264" /\ step \in {"plain", "intra"}
    /\ due' = IF step = "intra" THEN forceKeyframe ELSE due
    /\ step' = "out"
    /\ UNCHANGED <<life, flow, forceKeyframe>>

\* SoftwareEncoder::requestKeyframe; the encoder base class ignores the call,
\* and so does NVENC.
RequestKeyframe ==
    /\ alive /\ kind = "x264" /\ step # "crashed"
    /\ forceKeyframe' = TRUE /\ due' = TRUE
    /\ UNCHANGED <<life, flow, step>>

\* NVENCEncoder::encodeFrame; a refused frame leaves nothing behind.
EncodeOnDevice ==
    /\ kind = "nvenc" /\ Usable
    /\ Accept({})
    /\ UNCHANGED <<life, step, forceKeyframe, due>>

\* SoftwareDecoder::decodePacket; without a frame it lives as long as nothing comes out.
Decode ==
    /\ kind = "h264" /\ Usable
    /\ Accept({})
    /\ ptr.frame = "null" => delivered' = delivered
    /\ UNCHANGED <<life, step, forceKeyframe, due>>

\* NvdecDecoder::decodePacket: a frame that cannot be copied from the device is
\* skipped.
DecodeOnDevice ==
    /\ kind = "nvdec" /\ Usable
    /\ \E skipped \in SUBSET (1..(sent + 1)) : Accept(skipped)
    /\ ptr.frame = "null" \/ ptr.cpuFrame = "null" => delivered' = delivered
    /\ UNCHANGED <<life, step, forceKeyframe, due>>

-----------------------------------------------------------------------------
(***************************************************************************)
(* stop() and the destructors.                                             *)
(***************************************************************************)

\* Mutant: the encoder releases its context without flushing it.
StopEncoderUnflushed ==
    /\ alive /\ kind \in Encoders /\ step = "out" /\ ptr.codecCtx # "null"
    /\ pending' = <<>>
    /\ ptr' = [ptr EXCEPT !.codecCtx = "null"] /\ ready' = FALSE
    /\ UNCHANGED <<kind, alive, inits, lost, failed, overwritten, sent, delivered, step, forceKeyframe, due>>

\* Both encoders: with a context, what it holds goes to the callback (a context
\* that was never opened holds nothing) and it is released.  Without one stop() returns
\* at once, and running_ stays as it is.
StopEncoder ==
    /\ alive /\ kind \in Encoders /\ step = "out" /\ ptr.codecCtx # "null"
    /\ delivered' = delivered \o Delivery(pending, {}) /\ pending' = <<>>
    /\ ptr' = [ptr EXCEPT !.codecCtx = "null"] /\ ready' = FALSE
    /\ UNCHANGED <<kind, alive, inits, lost, failed, overwritten, sent, step, forceKeyframe, due>>

\* There is a context, and a frame for what comes out of it.
Drainable == ptr.codecCtx # "null" /\ (ptr.frame = "null" => pending = <<>>)

\* Mutant: the released context is not cleared.
StopDecoderDangling ==
    /\ alive /\ kind \in Decoders /\ ready /\ step = "out" /\ Drainable
    /\ pending' = <<>>
    /\ ptr' = [ptr EXCEPT !.codecCtx = "freed"] /\ ready' = FALSE
    /\ UNCHANGED <<kind, alive, inits, lost, failed, overwritten, sent, delivered, step, forceKeyframe, due>>

\* Both decoders: what the context holds is taken out and dropped, and only the
\* context is released.
StopDecoder ==
    /\ alive /\ kind \in Decoders /\ ready /\ step = "out" /\ Drainable
    /\ pending' = <<>>
    /\ ptr' = [ptr EXCEPT !.codecCtx = "null"] /\ ready' = FALSE
    /\ UNCHANGED <<kind, alive, inits, lost, failed, overwritten, sent, delivered, step, forceKeyframe, due>>

\* ~SoftwareEncoder and ~NVENCEncoder: stop() if running, then the context.
DestroyEncoder ==
    /\ alive /\ kind \in Encoders /\ step = "out"
    /\ delivered' = IF ready THEN delivered \o Delivery(pending, {}) ELSE delivered
    /\ pending' = <<>> /\ ready' = FALSE /\ alive' = FALSE
    /\ ptr' = Empty /\ lost' = lost + Cardinality(Held(ptr) \ {"codecCtx"})
    /\ UNCHANGED <<kind, inits, failed, overwritten, sent, step, forceKeyframe, due>>

\* Mutant: the device context is not released.
ReleasedNotDevice(k) == {"codecCtx", "frame", "cpuFrame"}

\* What each decoder's destructor releases.
Released(k) == IF k = "nvdec" THEN Slots ELSE {"codecCtx", "frame"}

\* ~SoftwareDecoder and ~NvdecDecoder: the members are gone, and an object that
\* was not released is lost.
DestroyDecoder ==
    /\ alive /\ kind \in Decoders /\ step = "out" /\ (ready => Drainable)
    /\ pending' = <<>> /\ ready' = FALSE /\ alive' = FALSE
    /\ ptr' = Empty /\ lost' = lost + Cardinality(Held(ptr) \ Released(kind))
    /\ UNCHANGED <<kind, inits, failed, overwritten, sent, delivered, step, forceKeyframe, due>>

Encoder ==
    \/ CreateEncoder \/ InitializeSoftwareEncoder \/ InitializeNVENCEncoder
    \/ EncodeBegin \/ EncodeSend \/ EncodeRefused \/ RequestKeyframe \/ EncodeOnDevice
    \/ StopEncoder \/ DestroyEncoder

Decoder ==
    \/ CreateDecoder \/ InitializeSoftwareDecoder \/ InitializeNvdecDecoder
    \/ Decode \/ DecodeOnDevice \/ StopDecoder \/ DestroyDecoder

Next == Encoder \/ Decoder \/ UseNull

Spec == Init /\ [][Next]_vars
-----------------------------------------------------------------------------
\* Every variable has its type: no pointer is left to an object that is gone.
TypeOK ==
    /\ kind \in {"none"} \cup Encoders \cup Decoders
    /\ ptr \in [Slots -> {"null", "held", "open"}]
    /\ \A s \in Slots \ {"codecCtx"} : ptr[s] # "open"
    /\ alive \in BOOLEAN /\ ready \in BOOLEAN
    /\ inits \in Nat /\ lost \in Nat /\ sent \in Nat
    /\ pending \in Seq([input : Nat, meant : Nat])
    /\ delivered \in Seq([input : Nat, meant : Nat, got : Nat])
    /\ failed \subseteq 1..inits /\ overwritten \in Nat
    /\ step \in {"out", "plain", "intra", "crashed"}
    /\ forceKeyframe \in BOOLEAN /\ due \in BOOLEAN

\* A codec that goes past its test of running_ or initialized_ (encodeFrame,
\* decodePacket, stop, the destructors) has an open context and every frame that code
\* dereferences, after any failures, stops and second initializations, unless its last
\* initialize() has failed; and the program ends in a null pointer only when that call
\* failed on a codec which an earlier one had made ready.
ReadyIsUsable ==
    /\ ready /\ inits \notin failed =>
          /\ ptr.codecCtx = "open"
          /\ kind \in Decoders => ptr.frame = "held"
          /\ kind = "nvdec" => ptr.cpuFrame = "held" /\ ptr.hwDeviceCtx = "held"
    /\ step = "crashed" => inits \in failed /\ failed # 1..inits

\* Every initialize() after call m, up to call n, is one of fs.
OnlyFailures(fs, m, n) == m <= n /\ (m + 1)..n \subseteq fs

\* An output reaches the callback that was in place when its input was accepted, or a
\* later one if every initialize() in between has failed: those replace the callback
\* and may leave the context.  Outputs come in the order of the inputs and none of
\* them twice, although stop() flushes into the callback.
OutputsReachTheirCallback ==
    /\ \A i \in 1..Len(delivered) :
          delivered[i].got = 0 \/ OnlyFailures(failed, delivered[i].meant, delivered[i].got)
    /\ \A i, j \in 1..Len(delivered) : i < j => delivered[i].input < delivered[j].input

\* The one way an encoder loses a frame it has accepted is an initialize() that
\* replaces the context with the frame in it: every other packet has been delivered or
\* is still to come, and stop() and the destructor deliver the rest, also after an
\* initialize() that failed.  (The decoders drop what is left.)
EncoderKeepsAll ==
    kind \in Encoders =>
        /\ Len(delivered) + Len(pending) + overwritten = sent
        /\ inits <= 1 => overwritten = 0
        /\ \A i \in 1..Len(delivered) : delivered[i].got # 0
        /\ ~alive => pending = <<>>

\* A codec on which initialize() is called once leaks nothing, however far that
\* call came and whether or not stop() precedes the destructor.
OneInitializeReleasesAll == inits <= 1 => lost = 0

\* A keyframe request that reaches the software encoder between any two steps of
\* encodeFrame() is in the flag or in the frame about to be sent, until a frame
\* that was begun after it has been sent; a refused frame takes its request along.
KeyframeNotLost == due => forceKeyframe \/ step = "intra"
=============================================================================
