---------------------------- MODULE TurnLifecycle ----------------------------
(***************************************************************************)
(* The life of a turn in the interceptor: the hooks of CtxinsAddon         *)
(* (interceptor/addon.py), the ActiveTurnTracker with its TTL reaper       *)
(* (interceptor/correlation/tracker.py) and the tee of a streamed response *)
(* (interceptor/stream/passthrough.py).                                    *)
(*                                                                         *)
(* Three threads share the tracker, the chunk queue and the accumulators:  *)
(*   - mitmproxy's event loop runs the hooks, one at a time, and the       *)
(*     stream taps between hooks.  A hook is cut into steps wherever it    *)
(*     takes the tracker's lock, the queue's lock or the buffer's lock;    *)
(*   - the reaper removes expired turns under the lock and emits their     *)
(*     errors after releasing it;                                          *)
(*   - the chunk worker takes an item off the queue in one step and feeds  *)
(*     it to the turn in another.                                          *)
(* A turn is named after the flow whose requestheaders hook created it.    *)
(* Time is abstracted to the set of turns older than the TTL.              *)
(***************************************************************************)
EXTENDS Naturals, Sequences, FiniteSets

CONSTANTS
    Flow,       \* HTTP flows to an LLM provider
    Id,         \* correlation ids
    None,       \* Python's None
    QueueCap,   \* maxsize of the chunk queue
    MaxChunks   \* bound: data chunks of all the streamed responses together

ASSUME NoneAssumption == None \notin Flow /\ None \notin Id
ASSUME QueueAssumption == QueueCap \in Nat \ {0} /\ MaxChunks \in Nat

Eof == 0
Chunks == [flow : Flow, n : 0..MaxChunks]

ASSUME NoneIsNoData == None \notin Chunks /\ None \notin Seq(Chunks)

VARIABLES
    phase,          \* how far each flow is
    corr,           \* flow.metadata["ctxins_correlation_id"]
    turns,          \* ActiveTurnTracker._turns: the turn registered under each id
    expired,        \* turns whose created_at_wall is more than default_ttl ago
    accumulator,    \* turn.accumulator: the chunks it was fed, None if the turn has none
    tapped,         \* flows whose response.stream is a StreamTap
    sent,           \* data chunks the tap of each flow has seen
    chunk_queue,    \* CtxinsAddon.chunk_queue
    dropped,        \* chunks that found the queue full
    worker,         \* the item the chunk worker is about to record, None if it has none
    hook,           \* the hook in progress: its step, flow, turn, chunk and envelope
    reaping,        \* expired_turns: removed by the reaper, errors not emitted yet
    running,        \* CtxinsAddon._running
    reaper,         \* the reaper thread runs
    log             \* envelopes emitted about each turn, in order

flowVars    == <<phase, corr, sent>>
trackerVars == <<turns, expired, accumulator>>
streamVars  == <<tapped, chunk_queue, dropped>>
vars == <<flowVars, trackerVars, streamVars, worker, hook, reaping, running, reaper, log>>

Initiated    == [event |-> "REQUEST_INITIATED", status |-> "ok", blocks |-> <<>>]
Completed(b) == [event |-> "TURN_COMPLETED", status |-> "ok", blocks |-> b]
Failed(s)    == [event |-> "TURN_ERROR", status |-> s, blocks |-> <<>>]

Idle == [at |-> "idle", flow |-> None, turn |-> None, chunk |-> None, envelope |-> None]

Init ==
    /\ phase = [f \in Flow |-> "new"]
    /\ corr = [f \in Flow |-> None]
    /\ turns = [i \in Id |-> None]
    /\ expired = {}
    /\ accumulator = [f \in Flow |-> None]
    /\ tapped = {}
    /\ sent = [f \in Flow |-> 0]
    /\ chunk_queue = <<>> /\ dropped = {}
    /\ worker = None /\ hook = Idle /\ reaping = {}
    /\ running = TRUE /\ reaper = TRUE
    /\ log = [f \in Flow |-> <<>>]
-----------------------------------------------------------------------------
(* Pieces the hooks and the threads are made of. *)

\* emit_envelope: the push to the ring buffer is atomic.
Emit(t, envelope) == log' = [log EXCEPT ![t] = Append(@, envelope)]

\* The hook of flow f goes on with turn t, and with envelope e to emit.
Go(at, f, t, e) ==
    hook' = [at |-> at, flow |-> f, turn |-> t, chunk |-> None, envelope |-> e]

\* The hook hands its envelope to emit_envelope, outside any lock of the tracker.
EmitFromHook ==
    /\ Emit(hook.turn, hook.envelope)
    /\ UNCHANGED <<flowVars, trackerVars, streamVars, worker, reaping, running, reaper>>

\* A tee into an unbounded queue.
PutUnbounded(c) ==
    /\ chunk_queue' = Append(chunk_queue, c)
    /\ UNCHANGED dropped

\* put_nowait: a full queue drops the chunk from telemetry.
Put(c) ==
    IF Len(chunk_queue) < QueueCap
    THEN chunk_queue' = Append(chunk_queue, c) /\ UNCHANGED dropped
    ELSE dropped' = dropped \cup {c} /\ UNCHANGED chunk_queue

\* ActiveTurnTracker.record_chunk, under the lock: a chunk whose turn is gone is discarded.
RecordChunk(c) ==
    LET t == turns[corr[c.flow]]
    IN  accumulator' = IF t # None /\ accumulator[t] # None
                       THEN [accumulator EXCEPT ![t] = Append(@, c)]
                       ELSE accumulator

\* abort_turn that reads the turn and leaves it to its later steps to remove it.
AbortWithoutRemoval(f, status) ==
    /\ IF turns[corr[f]] = None
       THEN hook' = Idle
       ELSE Go("abort", f, turns[corr[f]], Failed(status))
    /\ UNCHANGED turns

\* ActiveTurnTracker.abort_turn up to the release of the lock: whoever removes the turn
\* emits its error.
Abort(f, status) ==
    /\ IF turns[corr[f]] = None
       THEN hook' = Idle
       ELSE Go("abort", f, turns[corr[f]], Failed(status))
    /\ turns' = [turns EXCEPT ![corr[f]] = None]

HookFree == running /\ hook = Idle
-----------------------------------------------------------------------------
(* The event loop: hooks of the request. *)

\* requestheaders: the id is the client's x-request-id, if it sent one, or a fresh one.
RequestHeaders(f) ==
    /\ HookFree /\ phase[f] = "new"
    /\ phase' = [phase EXCEPT ![f] = "headers"]
    /\ \E i \in Id :
        /\ corr' = [corr EXCEPT ![f] = i]
        /\ turns' = [turns EXCEPT ![i] = f]
    /\ UNCHANGED <<sent, expired, accumulator, streamVars, worker, hook, reaping, running,
                   reaper, log>>

\* request: tracker.get; a turn that is gone ends the hook.
Request(f) ==
    /\ HookFree /\ phase[f] = "headers"
    /\ phase' = [phase EXCEPT ![f] = "sent"]
    /\ IF turns[corr[f]] = None
       THEN UNCHANGED hook
       ELSE Go("initiate", f, turns[corr[f]], Initiated)
    /\ UNCHANGED <<corr, sent, trackerVars, streamVars, worker, reaping, running, reaper, log>>

EmitInitiated ==
    /\ hook.at = "initiate"
    /\ EmitFromHook
    /\ hook' = Idle

\* responseheaders of a streamed response: the turn gets an accumulator, the flow a tap.
ResponseHeadersStream(f) ==
    /\ HookFree /\ phase[f] = "sent" /\ turns[corr[f]] # None
    /\ phase' = [phase EXCEPT ![f] = "answering"]
    /\ accumulator' = [accumulator EXCEPT ![turns[corr[f]]] = <<>>]
    /\ tapped' = tapped \cup {f}
    /\ UNCHANGED <<corr, sent, turns, expired, chunk_queue, dropped, worker, hook, reaping,
                   running, reaper, log>>

\* responseheaders of a response with a body, or of a turn that is gone.
ResponseHeadersPlain(f) ==
    /\ HookFree /\ phase[f] = "sent"
    /\ phase' = [phase EXCEPT ![f] = "answering"]
    /\ UNCHANGED <<corr, sent, trackerVars, streamVars, worker, hook, reaping, running,
                   reaper, log>>

Streamed == {c \in Chunks : c.n # Eof /\ c.n <= sent[c.flow]}

\* StreamTap.process_chunk.
StreamChunk(f) ==
    /\ HookFree /\ phase[f] = "answering" /\ f \in tapped
    /\ Cardinality(Streamed) < MaxChunks
    /\ sent' = [sent EXCEPT ![f] = @ + 1]
    /\ Put([flow |-> f, n |-> sent[f] + 1])
    /\ UNCHANGED <<phase, corr, trackerVars, tapped, worker, hook, reaping, running, reaper,
                   log>>

\* The message has ended; a tap closes once and pushes the EOF sentinel.
StreamEnd(f) ==
    /\ HookFree /\ phase[f] = "answering"
    /\ phase' = [phase EXCEPT ![f] = "ended"]
    /\ IF f \in tapped
       THEN Put([flow |-> f, n |-> Eof])
       ELSE UNCHANGED <<chunk_queue, dropped>>
    /\ UNCHANGED <<corr, sent, trackerVars, tapped, worker, hook, reaping, running, reaper,
                   log>>

\* A response hook that goes on with the flow's turn when the tracker has it no more.
ResponseUnchecked(f) ==
    /\ HookFree /\ phase[f] = "ended"
    /\ phase' = [phase EXCEPT ![f] = "done"]
    /\ Go("drain", f, f, None)
    /\ UNCHANGED <<corr, sent, trackerVars, streamVars, worker, reaping, running, reaper, log>>

\* response: tracker.get; a turn that is gone ends the hook.
Response(f) ==
    /\ HookFree /\ phase[f] = "ended"
    /\ phase' = [phase EXCEPT ![f] = "done"]
    /\ IF turns[corr[f]] = None
       THEN UNCHANGED hook
       ELSE Go("drain", f, turns[corr[f]], None)
    /\ UNCHANGED <<corr, sent, trackerVars, streamVars, worker, reaping, running, reaper, log>>

\* drain_chunk_queue, get_nowait: the chunks of every flow, not only of this one.
DrainGet ==
    /\ hook.at = "drain" /\ chunk_queue # <<>>
    /\ hook' = [hook EXCEPT !.at = "record", !.chunk = Head(chunk_queue)]
    /\ chunk_queue' = Tail(chunk_queue)
    /\ UNCHANGED <<flowVars, trackerVars, tapped, dropped, worker, reaping, running, reaper,
                   log>>

DrainRecord ==
    /\ hook.at = "record"
    /\ RecordChunk(hook.chunk)
    /\ hook' = [hook EXCEPT !.at = "drain", !.chunk = None]
    /\ UNCHANGED <<flowVars, turns, expired, streamVars, worker, reaping, running, reaper, log>>

Drained == hook.at = "drain" /\ chunk_queue = <<>>

\* A status of 400 or more: abort_turn.
ResponseIsError ==
    /\ Drained
    /\ Abort(hook.flow, "HTTP_ERROR")
    /\ UNCHANGED <<flowVars, expired, accumulator, streamVars, worker, reaping, running,
                   reaper, log>>

\* A hook that frees the turn whatever happened.
ResponseRaisesAndFrees ==
    /\ Drained
    /\ turns' = [turns EXCEPT ![corr[hook.flow]] = None]
    /\ hook' = Idle
    /\ UNCHANGED <<flowVars, expired, accumulator, streamVars, worker, reaping, running,
                   reaper, log>>

\* An accumulator or the body's parser raises: the hook's except clause only logs.
ResponseRaises ==
    /\ Drained
    /\ hook' = Idle
    /\ UNCHANGED <<flowVars, trackerVars, streamVars, worker, reaping, running, reaper, log>>

\* A hook that flushes as soon as it has the turn, whatever is still queued.
FlushUndrained ==
    /\ hook.at = "drain"
    /\ LET fed == accumulator[hook.turn]
       IN  Go("complete", hook.flow, hook.turn,
              Completed(IF fed = None THEN <<>> ELSE fed))
    /\ UNCHANGED <<flowVars, trackerVars, streamVars, worker, reaping, running, reaper, log>>

\* The accumulator is flushed and its blocks are read, without the tracker's lock.
Flush ==
    /\ Drained
    /\ LET fed == accumulator[hook.turn]
       IN  Go("complete", hook.flow, hook.turn,
              Completed(IF fed = None THEN <<>> ELSE fed))
    /\ UNCHANGED <<flowVars, trackerVars, streamVars, worker, reaping, running, reaper, log>>

EmitCompleted ==
    /\ hook.at = "complete"
    /\ EmitFromHook
    /\ hook' = [hook EXCEPT !.at = "remove", !.envelope = None]

\* The turn is freed after its completion was emitted, by id.
RemoveTurn ==
    /\ hook.at = "remove"
    /\ turns' = [turns EXCEPT ![corr[hook.flow]] = None]
    /\ hook' = Idle
    /\ UNCHANGED <<flowVars, expired, accumulator, streamVars, worker, reaping, running,
                   reaper, log>>

\* error: the flow died before its response was complete.  CLIENT_ABORTED also stands for
\* the status ERROR of a failure upstream.
FlowError(f) ==
    /\ HookFree /\ phase[f] \in {"headers", "sent", "answering"}
    /\ phase' = [phase EXCEPT ![f] = "done"]
    /\ Abort(f, "CLIENT_ABORTED")
    /\ UNCHANGED <<corr, sent, expired, accumulator, streamVars, worker, reaping, running,
                   reaper, log>>

\* The callback of abort_turn runs outside the lock.
EmitAborted ==
    /\ hook.at = "abort"
    /\ EmitFromHook
    /\ hook' = Idle

\* done: stop() clears _running and waits for the threads; no hook runs afterwards.
Done ==
    /\ HookFree
    /\ running' = FALSE
    /\ UNCHANGED <<flowVars, trackerVars, streamVars, worker, hook, reaping, reaper, log>>
-----------------------------------------------------------------------------
(* The chunk worker. *)

WorkerGet ==
    /\ running /\ worker = None /\ chunk_queue # <<>>
    /\ worker' = Head(chunk_queue)
    /\ chunk_queue' = Tail(chunk_queue)
    /\ UNCHANGED <<flowVars, trackerVars, tapped, dropped, hook, reaping, running, reaper, log>>

WorkerRecord ==
    /\ worker # None
    /\ RecordChunk(worker)
    /\ worker' = None
    /\ UNCHANGED <<flowVars, turns, expired, streamVars, hook, reaping, running, reaper, log>>
-----------------------------------------------------------------------------
(* The reaper. *)

Registered(f) == \E i \in Id : turns[i] = f

\* created_at_wall + default_ttl passes.  Chunks that arrive do not refresh it, and nobody
\* asks a turn that is not registered for its age.
Expire(f) ==
    /\ Registered(f) /\ f \notin expired
    /\ expired' = expired \cup {f}
    /\ UNCHANGED <<flowVars, turns, accumulator, streamVars, worker, hook, reaping, running,
                   reaper, log>>

\* A sweep that trusts a flow that is done to have freed its turn.
OverdueUnfinished == {f \in expired : Registered(f) /\ phase[f] # "done"}

Overdue == {f \in expired : Registered(f)}

\* reap_expired up to the release of the lock.
Sweep ==
    /\ reaper /\ reaping = {} /\ Overdue # {}
    /\ turns' = [i \in Id |-> IF turns[i] \in Overdue THEN None ELSE turns[i]]
    /\ reaping' = Overdue
    /\ UNCHANGED <<flowVars, expired, accumulator, streamVars, worker, hook, running, reaper,
                   log>>

EmitTimeout(f) ==
    /\ f \in reaping
    /\ Emit(f, Failed("TIMEOUT"))
    /\ reaping' = reaping \ {f}
    /\ UNCHANGED <<flowVars, trackerVars, streamVars, worker, hook, running, reaper>>

\* stop_reaper, once the chunk worker has been joined.
StopReaper ==
    /\ ~running /\ worker = None /\ reaper
    /\ reaper' = FALSE
    /\ UNCHANGED <<flowVars, trackerVars, streamVars, worker, hook, reaping, running, log>>
-----------------------------------------------------------------------------
HookStep ==
    \/ EmitInitiated \/ DrainGet \/ DrainRecord \/ ResponseIsError \/ ResponseRaises \/ Flush
    \/ EmitCompleted \/ RemoveTurn \/ EmitAborted

Traffic(f) ==
    \/ RequestHeaders(f) \/ Request(f) \/ ResponseHeadersStream(f) \/ ResponseHeadersPlain(f)
    \/ StreamChunk(f) \/ StreamEnd(f) \/ Response(f) \/ FlowError(f)

Reaper == Sweep \/ \E f \in Flow : EmitTimeout(f)

Next ==
    \/ HookStep
    \/ Done
    \/ WorkerGet \/ WorkerRecord
    \/ Sweep \/ StopReaper
    \/ \E f \in Flow : Traffic(f) \/ Expire(f) \/ EmitTimeout(f)

Spec == Init /\ [][Next]_vars

(***************************************************************************)
(* A hook that has begun runs to its end; the worker and the reaper are    *)
(* threads the operating system schedules; time passes.  Nothing is        *)
(* assumed of clients and providers: a flow may stop at any point.         *)
(***************************************************************************)
FairSpec ==
    /\ Spec
    /\ WF_vars(HookStep)
    /\ WF_vars(WorkerGet \/ WorkerRecord)
    /\ WF_vars(Reaper)
    /\ \A f \in Flow : WF_vars(Expire(f))
-----------------------------------------------------------------------------
(* Properties. *)

Envelopes ==
    [event  : {"REQUEST_INITIATED", "TURN_COMPLETED", "TURN_ERROR"},
     status : {"ok", "HTTP_ERROR", "CLIENT_ABORTED", "TIMEOUT"},
     blocks : Seq(Chunks)]

Hooks ==
    [at       : {"idle", "initiate", "drain", "record", "complete", "remove", "abort"},
     flow     : Flow \cup {None},
     turn     : Flow \cup {None},
     chunk    : Chunks \cup {None},
     envelope : Envelopes \cup {None}]

TypeOK ==
    /\ phase \in [Flow -> {"new", "headers", "sent", "answering", "ended", "done"}]
    /\ corr \in [Flow -> Id \cup {None}]
    /\ turns \in [Id -> Flow \cup {None}]
    /\ expired \subseteq Flow /\ tapped \subseteq Flow /\ reaping \subseteq Flow
    /\ accumulator \in [Flow -> Seq(Chunks) \cup {None}]
    /\ sent \in [Flow -> 0..MaxChunks]
    /\ chunk_queue \in Seq(Chunks) /\ Len(chunk_queue) <= QueueCap
    /\ dropped \subseteq Chunks
    /\ worker \in Chunks \cup {None}
    /\ hook \in Hooks
    /\ running \in BOOLEAN /\ reaper \in BOOLEAN
    /\ log \in [Flow -> Seq(Envelopes)]

Positions(f, event) == {i \in 1..Len(log[f]) : log[f][i].event = event}

Has(f, event) == Positions(f, event) # {}

\* Two flows in flight with one id: a client that reuses its x-request-id.
Shared(f) == \E g \in Flow \ {f} : corr[g] = corr[f] /\ corr[f] # None

\* The hooks, the reaper and a disconnect race to end a turn.  Whoever removes it from
\* the registry is the only one to emit its error, and the response hook completes it at
\* most once, even when flows share an id.
EndedOnceEachWay ==
    \A f \in Flow : \A e \in {"TURN_COMPLETED", "TURN_ERROR"} :
        Cardinality(Positions(f, e)) <= 1

\* What the core may rely on for a turn whose id is its own: a completion follows the
\* request's envelope, and a turn has both a completion and an error only if the reaper
\* timed it out while its response hook was running.
CompletionIsInitiated ==
    \A f \in Flow : ~Shared(f) =>
        \A c \in Positions(f, "TURN_COMPLETED") :
            /\ \E i \in Positions(f, "REQUEST_INITIATED") : i < c
            /\ \A e \in Positions(f, "TURN_ERROR") : log[f][e].status = "TIMEOUT"

\* The numbers of the data chunks of flow f among those fed to an accumulator.
DataOf(f, fed) == {fed[i].n : i \in {j \in 1..Len(fed) : fed[j].flow = f /\ fed[j].n # Eof}}

\* The chunk worker and the response hook share the queue without a common lock, so a
\* completed turn may lack the chunk the worker held, but no other chunk that reached the
\* queue, and none is fed twice.
AtMostOneChunkMissing ==
    \A f \in Flow : ~Shared(f) /\ ~Has(f, "TURN_ERROR") /\ f \notin reaping =>
        \A c \in Positions(f, "TURN_COMPLETED") :
            LET fed     == log[f][c].blocks
                arrived == {n \in 1..sent[f] : [flow |-> f, n |-> n] \notin dropped}
            IN  f \in tapped =>
                    /\ Cardinality(arrived \ DataOf(f, fed)) <= 1
                    /\ \A i, j \in 1..Len(fed) : fed[i] = fed[j] => i = j

\* While the interceptor runs, every turn whose id is its own ends: with a completion,
\* with an error, or with both, whatever the client, the provider and the hooks do.
EveryTurnEnds ==
    \A f \in Flow :
        phase[f] # "new" ~>
            (Has(f, "TURN_COMPLETED") \/ Has(f, "TURN_ERROR") \/ Shared(f) \/ ~running)

\* docs/design-interceptor-uds.md:301: the reaper "evicts orphaned registry entries ... to
\* prevent memory leaks": no turn stays registered for ever, even under a reused id.
NothingLeaks ==
    \A f \in Flow : Registered(f) ~> (~Registered(f) \/ ~running)

\* docs/design-interceptor-uds.md:301: what the reaper evicts is an orphan: a flow whose
\* response is still streaming through the proxy is not one.
OnlyOrphansReaped ==
    \A f \in Flow :
        ~ (f \in reaping /\ phase[f] = "answering" /\ sent[f] > 0 /\ running)

\* docs/design-interceptor-uds.md:403 "Accurate AST synthesis and token count collection":
\* if no chunk was dropped, a completed turn was built from the stream's chunks in order.
BuiltFromWholeStream ==
    \A f \in Flow : ~Shared(f) /\ ~Has(f, "TURN_ERROR") /\ f \notin reaping /\ dropped = {} =>
        \A c \in Positions(f, "TURN_COMPLETED") :
            LET fed  == log[f][c].blocks
                data == SelectSeq(fed, LAMBDA x : x.n # Eof)
            IN  f \in tapped => data = [i \in 1..sent[f] |-> [flow |-> f, n |-> i]]
=============================================================================
