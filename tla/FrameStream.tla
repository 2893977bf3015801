---------------------------- MODULE FrameStream ----------------------------
(***************************************************************************)
(* What the capture-and-encode pipeline promises to whoever receives its   *)
(* packets: frames are numbered as the camera delivers them, and the       *)
(* receiver gets some of them, each at most once and in that order.  A     *)
(* frame may be left out, and several may come together, but what has been *)
(* delivered is never taken back or changed.  VideoPipeline, with its      *)
(* threads, queue, codec and restarts, implements this.                    *)
(***************************************************************************)
EXTENDS Integers, Sequences

VARIABLES
    captured,   \* frames the camera has delivered
    output      \* the frames whose packets the receiver was given

streamVars == <<captured, output>>

Init == captured = 0 /\ output = <<>>

Capture ==
    /\ captured' = captured + 1
    /\ UNCHANGED output

\* Newer frames follow those already delivered.
Deliver ==
    /\ output' \in Seq(1..captured)
    /\ Len(output) <= Len(output')
    /\ \A i \in 1..Len(output) : output'[i] = output[i]
    /\ \A i, j \in 1..Len(output') : i < j => output'[i] < output'[j]
    /\ UNCHANGED captured

Next == Capture \/ Deliver

Spec == Init /\ [][Next]_streamVars
=============================================================================
