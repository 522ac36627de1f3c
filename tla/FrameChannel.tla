---------------------------- MODULE FrameChannel ----------------------------
(***************************************************************************)
(* What the telemetry path from the interceptor to the core promises: a    *)
(* fail-open FIFO channel.  Frames are numbered in the order in which the  *)
(* interceptor emits them.  A frame that is under way may be lost, but a   *)
(* frame is delivered at most once, never before an older frame that is    *)
(* delivered later, and never unless it was emitted.  The emitter is never *)
(* blocked: Emit is always enabled.                                        *)
(***************************************************************************)
EXTENDS Naturals, Sequences

VARIABLES
    emitted,    \* number of frames emitted so far; frame n is the n-th one
    underway,   \* the frames that may still be delivered
    delivered   \* the frames handed to the core, in the order of delivery

vars == <<emitted, underway, delivered>>

Init ==
    /\ emitted = 0
    /\ underway = {}
    /\ delivered = <<>>

\* Emitting may push out any frames, the new one included.
Emit ==
    /\ emitted' = emitted + 1
    /\ underway' \in SUBSET (underway \cup {emitted + 1})
    /\ UNCHANGED delivered

Lose ==
    /\ underway' \in SUBSET underway
    /\ UNCHANGED <<emitted, delivered>>

\* Only the oldest frame under way can be delivered.
Deliver ==
    \E f \in underway :
        /\ \A g \in underway : f <= g
        /\ underway' = underway \ {f}
        /\ delivered' = Append(delivered, f)
        /\ UNCHANGED emitted

Next == Emit \/ Lose \/ Deliver

Spec == Init /\ [][Next]_vars
-----------------------------------------------------------------------------
\* At most once and in order: the numbers of the delivered frames increase.
InOrder ==
    \A i, j \in 1..Len(delivered) : i < j => delivered[i] < delivered[j]
=============================================================================
