------------------------------- MODULE Egress -------------------------------
(***************************************************************************)
(* The telemetry path of the interceptor: the bounded ring buffer          *)
(* (interceptor/egress/ring_buffer.py), the UDS client with its worker     *)
(* thread (interceptor/egress/uds_client.py), the Unix domain socket, and  *)
(* the frame server of the core (core/server/uds_server.py).               *)
(*                                                                         *)
(* Processes and what makes them interleave:                               *)
(*   - the emitters (mitmproxy's event loop, the reaper thread) push under *)
(*     the buffer's lock, at any moment;                                   *)
(*   - the worker thread runs _egress_loop; every call that takes the lock *)
(*     or enters the kernel is a step of its own;                          *)
(*   - the thread that stops the client sets the flags, joins the worker   *)
(*     and closes the socket;                                              *)
(*   - the server's reader coroutine dispatches frames; the server may     *)
(*     stop, crash and start again.                                        *)
(* A frame is the number of its push; a payload's bytes are abstracted to  *)
(* whether the server's decoder accepts their length (Oversize) and to how *)
(* far _send_frame has got with them (nothing, a part, everything).        *)
(***************************************************************************)
EXTENDS Naturals, Sequences, FiniteSets

CONSTANTS
    Capacity,   \* capacity of the ring buffer
    KernelCap,  \* frames the socket's kernel buffer holds
    Oversize,   \* frames longer than the decoder's max_frame_size
    MaxPush,    \* bound: frames emitted
    MaxOutage   \* bound: times the server goes down

ASSUME CapacityAssumption == Capacity \in Nat \ {0}
ASSUME KernelCapAssumption == KernelCap \in Nat \ {0}
ASSUME BoundsAssumption == MaxPush \in Nat /\ MaxOutage \in Nat

VARIABLES
    queue,          \* BoundedRingBuffer.queue
    dropped_count,  \* BoundedRingBuffer._dropped_count
    running,        \* UDSClient.running and not _stop_event.is_set()
    worker,         \* where the worker thread is in _egress_loop
    payload,        \* the frame the worker has popped, 0 for none
    partial,        \* the frame whose first bytes alone are in the kernel, 0 for none
    sock,           \* UDSClient.sock is not None
    peer,           \* the connection: "none", "open", or "gone" (server closed it)
    wire,           \* whole frames in the kernel buffer, not read by the server
    server,         \* the server is listening
    outages,        \* times the server went down
    pushed,         \* history: frames emitted
    delivered,      \* history: frames passed to on_turn_callback
    lost            \* history: frames that vanished without being counted

bufferVars == <<queue, dropped_count, pushed>>
clientVars == <<running, worker, payload, sock>>
netVars    == <<peer, wire, partial>>
serverVars == <<server, outages, delivered>>
vars == <<bufferVars, clientVars, netVars, serverVars, lost>>

Init ==
    /\ queue = <<>> /\ dropped_count = 0 /\ pushed = 0
    /\ running = FALSE /\ worker = "none" /\ payload = 0 /\ sock = FALSE
    /\ peer = "none" /\ wire = <<>> /\ partial = 0
    /\ server \in BOOLEAN /\ outages = 0 /\ delivered = <<>>
    /\ lost = 0
-----------------------------------------------------------------------------
(* The ring buffer. *)

Full == Len(queue) = Capacity

\* A push that counts the drop only once the buffer has overrun its capacity.
PushOneTooMany(f) ==
    /\ queue' = Append(IF Len(queue) > Capacity THEN Tail(queue) ELSE queue, f)
    /\ dropped_count' = IF Len(queue) > Capacity THEN dropped_count + 1 ELSE dropped_count

\* BoundedRingBuffer.push: deque(maxlen) evicts the oldest frame when full.
Push(f) ==
    /\ queue' = Append(IF Full THEN Tail(queue) ELSE queue, f)
    /\ dropped_count' = IF Full THEN dropped_count + 1 ELSE dropped_count

\* A put-back that lets a saturated deque evict a frame without counting it.
UnpopUncounted(f) ==
    /\ queue' = IF Full THEN queue ELSE <<f>> \o queue
    /\ UNCHANGED dropped_count

\* A put-back at the wrong end of the deque.
UnpopAtTail(f) ==
    /\ queue' = IF Full THEN queue ELSE Append(queue, f)
    /\ dropped_count' = IF Full THEN dropped_count + 1 ELSE dropped_count

\* BoundedRingBuffer.unpop: back to the front, dropped when the buffer filled up meanwhile.
Unpop(f) ==
    /\ queue' = IF Full THEN queue ELSE <<f>> \o queue
    /\ dropped_count' = IF Full THEN dropped_count + 1 ELSE dropped_count

\* CtxinsAddon.emit_envelope: a hook or the reaper pushes an envelope, at any time.
Emit ==
    /\ pushed < MaxPush
    /\ pushed' = pushed + 1
    /\ Push(pushed + 1)
    /\ UNCHANGED <<clientVars, netVars, serverVars, lost>>
-----------------------------------------------------------------------------
(* The worker thread. *)

\* UDSClient.start, called once by CtxinsAddon.start.
Start ==
    /\ worker = "none"
    /\ running' = TRUE
    /\ worker' = "check"
    /\ UNCHANGED <<bufferVars, payload, sock, netVars, serverVars, lost>>

\* The loop condition: a stopped client's worker leaves the loop.
WorkerExit ==
    /\ worker = "check" /\ ~running
    /\ worker' = "done"
    /\ UNCHANGED <<bufferVars, running, payload, sock, netVars, serverVars, lost>>

\* _is_socket_alive: peek finds the connection open.
CheckAlive ==
    /\ worker = "check" /\ running
    /\ sock /\ peer = "open"
    /\ worker' = "pop"
    /\ UNCHANGED <<bufferVars, running, payload, sock, netVars, serverVars, lost>>

\* A worker that gives up when the server refuses the connection.
ReconnectOrExit ==
    /\ worker = "check" /\ running
    /\ ~sock \/ peer = "gone"
    /\ sock' = server
    /\ peer' = IF server THEN "open" ELSE "none"
    /\ worker' = IF server THEN "pop" ELSE "done"
    /\ wire' = <<>>
    /\ partial' = 0
    /\ UNCHANGED <<bufferVars, running, payload, serverVars, lost>>

\* No socket, or a dead one: _disconnect, then _connect.
Reconnect ==
    /\ worker = "check" /\ running
    /\ ~sock \/ peer = "gone"
    /\ sock' = server
    /\ peer' = IF server THEN "open" ELSE "none"
    /\ worker' = IF server THEN "pop" ELSE "check"
    /\ wire' = <<>>
    /\ partial' = 0
    /\ UNCHANGED <<bufferVars, running, payload, serverVars, lost>>

Pop ==
    /\ worker = "pop"
    /\ IF queue = <<>>
       THEN worker' = "check" /\ UNCHANGED <<queue, payload>>
       ELSE /\ payload' = Head(queue)
            /\ queue' = Tail(queue)
            /\ worker' = "send"
    /\ UNCHANGED <<dropped_count, pushed, running, sock, netVars, serverVars, lost>>

\* _send_frame, a send() that takes some of the bytes.
SendPart ==
    /\ worker = "send" /\ peer = "open"
    /\ partial = 0 /\ Len(wire) < KernelCap
    /\ partial' = payload
    /\ UNCHANGED <<bufferVars, clientVars, peer, wire, serverVars, lost>>

\* _send_frame, the send() that takes the last bytes. The kernel never holds all of an
\* oversize frame: the server reads its header and hangs up first.
SendRest ==
    /\ worker = "send" /\ peer = "open"
    /\ Len(wire) < KernelCap /\ payload \notin Oversize
    /\ wire' = Append(wire, payload)
    /\ partial' = 0
    /\ payload' = 0
    /\ worker' = "check"
    /\ UNCHANGED <<bufferVars, running, sock, peer, serverVars, lost>>

\* _send_frame, the loop's test of the stop flag: the frame is given up where it stands.
SendAbandon ==
    /\ worker = "send" /\ ~running
    /\ payload' = 0
    /\ worker' = "check"
    /\ lost' = lost + 1
    /\ UNCHANGED <<bufferVars, running, sock, netVars, serverVars>>

\* A failed send that forgets to put the frame back.
SendFailNoUnpop ==
    /\ worker = "send" /\ peer = "gone"
    /\ sock' = FALSE /\ peer' = "none" /\ partial' = 0
    /\ payload' = 0 /\ lost' = lost + 1
    /\ worker' = "check"
    /\ UNCHANGED <<bufferVars, running, wire, serverVars>>

\* send() raises EPIPE or ECONNRESET: _disconnect, unpop, back off.
SendFail ==
    /\ worker = "send" /\ peer = "gone"
    /\ sock' = FALSE /\ peer' = "none" /\ partial' = 0
    /\ Unpop(payload)
    /\ payload' = 0
    /\ worker' = "check"
    /\ UNCHANGED <<pushed, running, wire, serverVars, lost>>
-----------------------------------------------------------------------------
(* Stopping the client: CtxinsAddon.stop calls UDSClient.stop, in two steps. *)

\* running = False and _stop_event.set().
StopRequest ==
    /\ running
    /\ running' = FALSE
    /\ UNCHANGED <<bufferVars, worker, payload, sock, netVars, serverVars, lost>>

\* The join has returned: _disconnect. What the kernel holds stays readable.
StopDisconnect ==
    /\ worker = "done" /\ sock
    /\ sock' = FALSE
    /\ peer' = IF peer = "gone" THEN "none" ELSE peer
    /\ UNCHANGED <<bufferVars, running, worker, payload, wire, partial, serverVars, lost>>
-----------------------------------------------------------------------------
(* The server. *)

\* Dispatching the newest frame of the chunk first.
DispatchLast ==
    /\ server /\ peer = "open" /\ wire # <<>>
    /\ delivered' = Append(delivered, wire[Len(wire)])
    /\ wire' = SubSeq(wire, 1, Len(wire) - 1)
    /\ UNCHANGED <<bufferVars, clientVars, peer, partial, server, outages, lost>>

\* _handle_client and _dispatch_frame: the next frame goes to on_turn_callback.
Dispatch ==
    /\ server /\ peer = "open" /\ wire # <<>>
    /\ delivered' = Append(delivered, Head(wire))
    /\ wire' = Tail(wire)
    /\ UNCHANGED <<bufferVars, clientVars, peer, partial, server, outages, lost>>

\* The server's end is closed: the client keeps a dead socket, if it still has one.
HungUp == IF sock /\ peer # "none" THEN "gone" ELSE "none"

\* read() returns no bytes: the client has closed its end and everything is read.
EndOfStream ==
    /\ server /\ peer = "open" /\ ~sock /\ wire = <<>>
    /\ peer' = "none"
    /\ partial' = 0
    /\ UNCHANGED <<bufferVars, clientVars, wire, serverVars, lost>>

\* FrameDecoder.feed raises on the header of an oversize frame: the frames read together
\* with that header are lost and the connection is closed.
Reject ==
    /\ server /\ peer = "open" /\ partial \in Oversize
    /\ peer' = HungUp
    /\ lost' = lost + Len(wire)
    /\ wire' = <<>>
    /\ UNCHANGED <<bufferVars, clientVars, partial, serverVars>>

\* UDSFrameServer.stop, or a crash: unread frames go with the connection.
ServerDown ==
    /\ server /\ outages < MaxOutage
    /\ server' = FALSE
    /\ outages' = outages + 1
    /\ peer' = HungUp
    /\ lost' = lost + Len(wire)
    /\ wire' = <<>>
    /\ UNCHANGED <<bufferVars, clientVars, partial, delivered>>

ServerUp ==
    /\ ~server
    /\ server' = TRUE
    /\ UNCHANGED <<bufferVars, clientVars, netVars, outages, delivered, lost>>
-----------------------------------------------------------------------------
Worker ==
    \/ WorkerExit \/ CheckAlive \/ Reconnect \/ Pop
    \/ SendPart \/ SendRest \/ SendAbandon \/ SendFail

Next ==
    \/ Emit
    \/ Start \/ StopRequest \/ StopDisconnect
    \/ WorkerExit \/ CheckAlive \/ Reconnect \/ Pop
    \/ SendPart \/ SendRest \/ SendAbandon \/ SendFail
    \/ Dispatch \/ EndOfStream \/ Reject \/ ServerDown \/ ServerUp

Spec == Init /\ [][Next]_vars

(***************************************************************************)
(* The worker is a thread the operating system schedules, and the server's *)
(* reader is a coroutine the event loop wakes when the socket is readable: *)
(* each is weakly fair.  Nothing is assumed of the emitters, of the thread *)
(* that stops the client, or of the server's coming back.                  *)
(***************************************************************************)
FairSpec ==
    /\ Spec
    /\ WF_vars(Worker)
    /\ WF_vars(Dispatch)
    /\ WF_vars(Reject)
-----------------------------------------------------------------------------
(* Properties. *)

TypeOK ==
    /\ pushed \in Nat /\ dropped_count \in Nat /\ lost \in Nat /\ outages \in Nat
    /\ queue \in Seq(1..pushed) /\ wire \in Seq(1..pushed) /\ delivered \in Seq(1..pushed)
    /\ payload \in 0..pushed /\ partial \in 0..pushed
    /\ running \in BOOLEAN /\ sock \in BOOLEAN /\ server \in BOOLEAN
    /\ worker \in {"none", "check", "pop", "send", "done"}
    /\ peer \in {"none", "open", "gone"}
    /\ Len(queue) <= Capacity
    /\ Len(wire) <= KernelCap

InHand == IF payload = 0 THEN 0 ELSE 1

\* Every frame emit_envelope pushed is in exactly one place: passed to the core, in the
\* kernel, in the worker's hands, buffered, counted by dropped_count, or lost.
Accounting ==
    pushed = Len(delivered) + Len(wire) + InHand + Len(queue) + dropped_count + lost

Increasing(s) == \A i, j \in 1..Len(s) : i < j => s[i] < s[j]

Below(s, t) == \A i \in 1..Len(s), j \in 1..Len(t) : s[i] < t[j]

Hand == IF payload = 0 THEN <<>> ELSE <<payload>>

\* The path is a FIFO from end to end whatever is retried, evicted or put back: the
\* core's frames are older than the kernel's, those older than the one in the worker's
\* hands, that one older than the buffered ones, and each part is in order of emission.
\* So no frame reaches the core twice or after a younger one.
PipelineOrder ==
    /\ Increasing(delivered) /\ Increasing(wire) /\ Increasing(queue)
    /\ Below(delivered, wire) /\ Below(delivered, Hand) /\ Below(delivered, queue)
    /\ Below(wire, Hand) /\ Below(wire, queue)
    /\ Below(Hand, queue)

\* What losing the server costs: at most the kernel buffer's frames for every time it
\* goes down, and the frame in the worker's hands when the client is stopped. Retries,
\* reconnections and put-backs cost nothing that dropped_count does not show.
OutageCost ==
    lost <= KernelCap * outages + (IF worker # "none" /\ ~running THEN 1 ELSE 0)

ElementsOf(s) == {s[i] : i \in 1..Len(s)}

Underway == ElementsOf(wire) \cup ElementsOf(Hand) \cup ElementsOf(queue)

Channel == INSTANCE FrameChannel WITH
    emitted <- pushed, underway <- Underway, delivered <- delivered

\* The buffer, the worker, the socket and the server together are a fail-open FIFO channel.
ImplementsChannel == Channel!Spec

\* While the client runs and the server stays up, no emitted frame stays under way for
\* ever: it reaches the core, or a full buffer drops it.
EventuallySettled ==
    <>[](running /\ server) =>
        \A f \in 1..MaxPush : [](f \in Underway => <>(f \notin Underway))

\* docs/test-strategy.md:119 "Assert client connects and drains queued frames": once the
\* server stays up and the client keeps running, the buffer empties.
DrainsQueued ==
    <>[](running /\ server) => <>(running /\ queue = <<>> /\ payload = 0)
=============================================================================
