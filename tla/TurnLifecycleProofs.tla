------------------------- MODULE TurnLifecycleProofs -------------------------
(***************************************************************************)
(* Theorems about TurnLifecycle, for every set of flows and ids, every     *)
(* capacity of the queue and every number of chunks.                       *)
(*                                                                         *)
(* The inductive invariant is built in layers, each of which stands on the *)
(* ones before it:                                                         *)
(*   - Base: types, which flow has an id, what a registered turn is, and   *)
(*     what the hook in progress works on;                                 *)
(*   - Ends: who may still end a turn.  A turn that failed, or that        *)
(*     somebody is about to report as failed, is registered no more;       *)
(*   - Alone: what holds of a turn whose id is its own: it is initiated    *)
(*     before its response hook begins, and its hooks end it one way;      *)
(*   - Stream: where the chunks of a streamed response are.                *)
(***************************************************************************)
EXTENDS TurnLifecycle, FiniteSetTheorems, FunctionTheorems, TLAPS

USE NoneAssumption, QueueAssumption

-----------------------------------------------------------------------------
(* The inductive invariant. *)

Responding == hook.at \in {"drain", "record", "complete", "remove"}

\* A flow has an id from its first hook on, and nothing is known of it before.
Flows ==
    \A f \in Flow :
        /\ phase[f] = "new" => corr[f] = None /\ log[f] = <<>> /\ f \notin reaping
        /\ phase[f] # "new" => corr[f] \in Id
        /\ phase[f] \in {"new", "headers", "sent"} => f \notin tapped /\ sent[f] = 0

Registry == \A i \in Id : turns[i] # None => corr[turns[i]] = i

InHook ==
    hook.at # "idle" =>
        /\ hook.flow \in Flow /\ hook.turn \in Flow
        /\ corr[hook.flow] = corr[hook.turn] /\ corr[hook.flow] \in Id
        /\ phase[hook.flow] = IF hook.at = "initiate" THEN "sent" ELSE "done"
        /\ hook.at = "initiate" => hook.envelope = Initiated
        /\ hook.at = "record" => hook.chunk \in Chunks
        /\ hook.at = "complete" => /\ hook.envelope \in Envelopes
                                   /\ hook.envelope.event = "TURN_COMPLETED"
        /\ hook.at = "abort" => hook.envelope \in {Failed("HTTP_ERROR"), Failed("CLIENT_ABORTED")}

Base == TypeOK /\ IsFiniteSet(Streamed) /\ Flows /\ Registry /\ InHook

\* Only the hook that completes a turn holds it registered once its completion is out.
Completing ==
    /\ \A f \in Flow :
        /\ \A i, j \in Positions(f, "TURN_COMPLETED") : i = j
        /\ Has(f, "TURN_COMPLETED") /\ Registered(f) => hook.at = "remove" /\ hook.turn = f
    /\ hook.at \in {"drain", "record", "complete"} => ~Has(hook.turn, "TURN_COMPLETED")

\* Somebody is about to report the failure of the turn.
Doomed(f) == f \in reaping \/ (hook.at = "abort" /\ hook.turn = f)

Failing ==
    /\ \A f \in Flow :
        /\ \A i, j \in Positions(f, "TURN_ERROR") : i = j
        /\ Has(f, "TURN_ERROR") => ~Registered(f) /\ ~Doomed(f)
        /\ Doomed(f) => ~Registered(f)
    /\ hook.at = "abort" => hook.turn \notin reaping

Ends == Completing /\ Failing

\* The response hook of a turn whose id is its own begins when the turn was initiated.
InitiatedFirst ==
    \A f \in Flow : ~Shared(f) =>
        /\ Registered(f) /\ phase[f] \notin {"new", "headers"} =>
            Has(f, "REQUEST_INITIATED") \/ (hook.at = "initiate" /\ hook.turn = f)
        /\ Responding /\ hook.turn = f => Has(f, "REQUEST_INITIATED")

\* A turn whose id is its own fails in a hook only if no response hook completes it.
EndsOneWay ==
    \A f \in Flow : ~Shared(f) =>
        /\ Has(f, "TURN_COMPLETED") => phase[f] = "done" /\ ~(hook.at = "abort" /\ hook.turn = f)
        /\ \A e \in Positions(f, "TURN_ERROR") : log[f][e].status # "TIMEOUT" =>
            phase[f] = "done" /\ ~Has(f, "TURN_COMPLETED") /\ ~(Responding /\ hook.turn = f)

Alone == InitiatedFirst /\ EndsOneWay /\ CompletionIsInitiated

\* The chunk has been seen by its tap.
Seen(c) ==
    IF c.n = Eof THEN phase[c.flow] \in {"ended", "done"} ELSE c.n <= sent[c.flow]

Queued(c) == \E i \in 1..Len(chunk_queue) : chunk_queue[i] = c
Recording(c) == hook.at = "record" /\ hook.chunk = c
Underway(c) == Queued(c) \/ worker = c \/ Recording(c)
Fed(f, c) == \E i \in 1..Len(accumulator[f]) : accumulator[f][i] = c

\* A chunk is in one place on its way to the turn.
OnePlace ==
    /\ \A c \in Chunks : Underway(c) => Seen(c) /\ corr[c.flow] \in Id
    /\ \A i, j \in 1..Len(chunk_queue) : chunk_queue[i] = chunk_queue[j] => i = j
    /\ worker # None => ~Queued(worker) /\ ~Recording(worker)
    /\ hook.at = "record" => ~Queued(hook.chunk)

Arrived(f, n) == n \in 1..sent[f] /\ [flow |-> f, n |-> n] \notin dropped

\* While a turn whose id is its own is registered, every chunk that reached the queue is on
\* its way to the accumulator or in it, and in it once.
NoneLost ==
    \A f \in Flow : ~Shared(f) /\ Registered(f) /\ f \in tapped =>
        /\ accumulator[f] # None
        /\ \A i, j \in 1..Len(accumulator[f]) : accumulator[f][i] = accumulator[f][j] => i = j
        /\ \A c \in Chunks : Fed(f, c) => c.flow = f /\ Seen(c) /\ ~Underway(c)
        /\ \A n \in 1..MaxChunks : Arrived(f, n) =>
            Underway([flow |-> f, n |-> n]) \/ Fed(f, [flow |-> f, n |-> n])

\* The turn can still count as complete.
Sound(f) == ~Shared(f) /\ ~Has(f, "TURN_ERROR") /\ f \notin reaping

\* The blocks are those of all the chunks that arrived but one at most, each of them once.
BuiltFrom(f, fed) ==
    /\ \A m, n \in 1..MaxChunks :
        /\ Arrived(f, m) /\ m \notin DataOf(f, fed)
        /\ Arrived(f, n) /\ n \notin DataOf(f, fed)
        => m = n
    /\ \A i, j \in 1..Len(fed) : fed[i] = fed[j] => i = j

Built ==
    \A f \in Flow : Sound(f) =>
        /\ Responding /\ hook.turn = f => Registered(f)
        /\ hook.at = "complete" /\ hook.turn = f /\ f \in tapped =>
                BuiltFrom(f, hook.envelope.blocks)
        /\ \A c \in Positions(f, "TURN_COMPLETED") :
                f \in tapped => BuiltFrom(f, log[f][c].blocks)

Stream == OnePlace /\ NoneLost /\ Built

IInv == Base /\ Ends /\ Alone /\ Stream
-----------------------------------------------------------------------------
(* What the pieces of the actions do. *)

LEMMA EnvelopeTypes ==
    /\ Initiated \in Envelopes
    /\ \A b \in Seq(Chunks) : Completed(b) \in Envelopes
    /\ \A s \in {"HTTP_ERROR", "CLIENT_ABORTED", "TIMEOUT"} : Failed(s) \in Envelopes
  BY DEF Initiated, Completed, Failed, Envelopes

LEMMA GoType ==
    ASSUME NEW at \in {"initiate", "drain", "complete", "abort"}, NEW f \in Flow, NEW t \in Flow,
           NEW e \in Envelopes \cup {None}, Go(at, f, t, e)
    PROVE  hook' \in Hooks
  BY DEF Go, Hooks

LEMMA IdleType == Idle \in Hooks
  BY DEF Idle, Hooks

LEMMA EmitFacts ==
    ASSUME TypeOK, NEW t \in Flow, NEW e \in Envelopes, Emit(t, e)
    PROVE  /\ log' \in [Flow -> Seq(Envelopes)]
           /\ \A f \in Flow \ {t} : log'[f] = log[f]
           /\ Len(log[t]) \in Nat /\ Len(log'[t]) = Len(log[t]) + 1
           /\ \A i \in 1..Len(log[t]) : log'[t][i] = log[t][i]
           /\ log'[t][Len(log[t]) + 1] = e
<1>1. log[t] \in Seq(Envelopes) /\ log'[t] = Append(log[t], e)
  BY DEF TypeOK, Emit
<1>2. log' \in [Flow -> Seq(Envelopes)] /\ \A f \in Flow \ {t} : log'[f] = log[f]
  BY DEF TypeOK, Emit
<1> QED
  BY <1>1, <1>2

LEMMA GetFacts ==
    ASSUME TypeOK, chunk_queue # <<>>, chunk_queue' = Tail(chunk_queue)
    PROVE  /\ Head(chunk_queue) = chunk_queue[1] /\ Head(chunk_queue) \in Chunks
           /\ Len(chunk_queue) \in Nat \ {0}
           /\ chunk_queue' \in Seq(Chunks) /\ Len(chunk_queue') = Len(chunk_queue) - 1
           /\ \A i \in 1..(Len(chunk_queue) - 1) : chunk_queue'[i] = chunk_queue[i + 1]
<1>1. chunk_queue \in Seq(Chunks)
  BY DEF TypeOK
<1> QED
  BY <1>1

LEMMA PutFacts ==
    ASSUME TypeOK, NEW c \in Chunks, Put(c)
    PROVE  /\ chunk_queue' \in Seq(Chunks) /\ Len(chunk_queue') <= QueueCap
           /\ dropped' \subseteq Chunks
           /\ \/ /\ Len(chunk_queue') = Len(chunk_queue) + 1
                 /\ \A i \in 1..Len(chunk_queue) : chunk_queue'[i] = chunk_queue[i]
                 /\ chunk_queue'[Len(chunk_queue) + 1] = c
                 /\ dropped' = dropped
              \/ chunk_queue' = chunk_queue /\ dropped' = dropped \cup {c}
<1>1. chunk_queue \in Seq(Chunks) /\ dropped \subseteq Chunks /\ Len(chunk_queue) <= QueueCap
  BY DEF TypeOK
<1>2. CASE Len(chunk_queue) < QueueCap
  BY <1>1, <1>2 DEF Put
<1>3. CASE ~(Len(chunk_queue) < QueueCap)
  BY <1>1, <1>3 DEF Put
<1> QED
  BY <1>2, <1>3

LEMMA RecordFacts ==
    ASSUME TypeOK, NEW c \in Chunks, RecordChunk(c)
    PROVE  /\ accumulator' \in [Flow -> Seq(Chunks) \cup {None}]
           /\ \A f \in Flow :
                IF f = turns[corr[c.flow]] /\ accumulator[f] # None
                THEN /\ accumulator[f] \in Seq(Chunks)
                     /\ accumulator'[f] = Append(accumulator[f], c)
                ELSE accumulator'[f] = accumulator[f]
<1> DEFINE t == turns[corr[c.flow]]
<1>1. accumulator \in [Flow -> Seq(Chunks) \cup {None}]
  BY DEF TypeOK
<1>2. accumulator' = IF t # None /\ accumulator[t] # None
                     THEN [accumulator EXCEPT ![t] = Append(@, c)] ELSE accumulator
  BY DEF RecordChunk
<1> HIDE DEF t
<1>3. \A f \in Flow :
        IF f = t /\ accumulator[f] # None
        THEN accumulator[f] \in Seq(Chunks) /\ accumulator'[f] = Append(accumulator[f], c)
        ELSE accumulator'[f] = accumulator[f]
  BY <1>1, <1>2
<1>4. \A f \in Flow : accumulator'[f] \in Seq(Chunks) \cup {None}
  BY <1>1, <1>3
<1>5. accumulator' = [f \in Flow |-> accumulator'[f]]
  BY <1>1, <1>2
<1> QED
  BY <1>3, <1>4, <1>5 DEF t

LEMMA HookFacts ==
    ASSUME TypeOK
    PROVE  /\ hook.flow \in Flow \cup {None} /\ hook.turn \in Flow \cup {None}
           /\ hook.chunk \in Chunks \cup {None} /\ hook.envelope \in Envelopes \cup {None}
           /\ hook.at \in {"idle", "initiate", "drain", "record", "complete", "remove", "abort"}
  BY DEF TypeOK, Hooks

\* What a flush reads from the accumulator is a list of chunks.
LEMMA BlocksFed ==
    ASSUME TypeOK, NEW t \in Flow
    PROVE  (IF accumulator[t] = None THEN <<>> ELSE accumulator[t]) \in Seq(Chunks)
<1>1. accumulator[t] \in Seq(Chunks) \cup {None}
  BY DEF TypeOK
<1>2. <<>> \in Seq(Chunks)
  OBVIOUS
<1> QED
  BY <1>1, <1>2

\* A stream that may go on is not at the bound of the chunks.
LEMMA RoomForChunk ==
    ASSUME TypeOK, IsFiniteSet(Streamed), Cardinality(Streamed) < MaxChunks, NEW f \in Flow
    PROVE  sent[f] \in Nat /\ sent[f] + 1 \in 1..MaxChunks
<1> DEFINE k == sent[f]
           g == [n \in 1..k |-> [flow |-> f, n |-> n]]
<1>1. k \in 0..MaxChunks /\ k \in Nat
  BY DEF TypeOK
<1>2. g \in [1..k -> Streamed]
  <2> SUFFICES ASSUME NEW n \in 1..k PROVE [flow |-> f, n |-> n] \in Streamed
    OBVIOUS
  <2> QED
    BY <1>1 DEF Streamed, Chunks, Eof
<1>3. \A m, n \in 1..k : g[m] = g[n] => m = n
  OBVIOUS
<1>4. g \in Injection(1..k, Streamed)
  BY <1>2, <1>3, Fun_IsInj
<1> HIDE DEF g
<1>5. Cardinality(1..k) <= Cardinality(Streamed)
  BY <1>4, FS_Injection
<1>6. Cardinality(1..k) = k
  BY <1>1, FS_Interval
<1>7. Cardinality(Streamed) \in Nat
  BY FS_CardinalityType
<1> QED
  BY <1>1, <1>5, <1>6, <1>7

LEMMA AbortType ==
    ASSUME TypeOK, NEW f \in Flow, NEW s \in {"HTTP_ERROR", "CLIENT_ABORTED"},
           corr[f] \in Id, Abort(f, s)
    PROVE  hook' \in Hooks /\ turns' \in [Id -> Flow \cup {None}]
<1>1. turns \in [Id -> Flow \cup {None}] /\ turns[corr[f]] \in Flow \cup {None}
  BY DEF TypeOK
<1>2. hook' \in Hooks
  BY <1>1, EnvelopeTypes, GoType, IdleType DEF Abort
<1> QED
  BY <1>1, <1>2 DEF Abort

\* Base is preserved, one conjunct at a time.
LEMMA TypeNext ==
    ASSUME Base, [Next]_vars
    PROVE  TypeOK'
<1> USE DEF Base, TypeOK, InHook, flowVars, trackerVars, streamVars
<1>1. CASE EmitInitiated
  BY <1>1, EmitFacts, EnvelopeTypes, IdleType DEF EmitInitiated, EmitFromHook
<1>2. CASE DrainGet
  <2>1. hook' = [hook EXCEPT !.at = "record", !.chunk = Head(chunk_queue)] /\ hook \in Hooks
    BY <1>2 DEF DrainGet
  <2>2. /\ Head(chunk_queue) \in Chunks
        /\ chunk_queue' \in Seq(Chunks) /\ Len(chunk_queue') <= QueueCap
    BY <1>2, GetFacts DEF DrainGet
  <2>3. hook' \in Hooks
    BY <2>1, <2>2 DEF Hooks
  <2> QED
    BY <1>2, <2>2, <2>3 DEF DrainGet
<1>3. CASE DrainRecord
  BY <1>3, RecordFacts DEF DrainRecord, Hooks
<1>4. CASE ResponseIsError
  <2>1. hook' \in Hooks /\ turns' \in [Id -> Flow \cup {None}]
    BY <1>4, AbortType, HookFacts DEF ResponseIsError, Drained
  <2> QED
    BY <1>4, <2>1 DEF ResponseIsError
<1>5. CASE ResponseRaises
  BY <1>5, IdleType DEF ResponseRaises
<1>6. CASE Flush
  <2>1. hook.flow \in Flow /\ hook.turn \in Flow
    BY <1>6 DEF Flush, Drained
  <2>2. hook' \in Hooks
    BY <1>6, <2>1, BlocksFed, EnvelopeTypes, GoType DEF Flush
  <2> QED
    BY <1>6, <2>2 DEF Flush
<1>7. CASE EmitCompleted
  BY <1>7, EmitFacts, EnvelopeTypes, IdleType DEF EmitCompleted, Hooks, EmitFromHook
<1>8. CASE RemoveTurn
  BY <1>8, IdleType DEF RemoveTurn
<1>9. CASE EmitAborted
  BY <1>9, EmitFacts, EnvelopeTypes, IdleType DEF EmitAborted, EmitFromHook
<1>10. CASE Done
  BY <1>10 DEF Done
<1>11. CASE WorkerGet
  BY <1>11, GetFacts DEF WorkerGet
<1>12. CASE WorkerRecord
  BY <1>12, RecordFacts DEF WorkerRecord
<1>13. CASE Sweep
  <2>1. turns' \in [Id -> Flow \cup {None}] /\ reaping' \subseteq Flow
    BY <1>13 DEF Sweep, Overdue
  <2> QED
    BY <1>13, <2>1 DEF Sweep
<1>14. CASE StopReaper
  BY <1>14 DEF StopReaper
<1>15. ASSUME NEW f \in Flow, RequestHeaders(f) PROVE TypeOK'
  BY <1>15 DEF RequestHeaders
<1>16. ASSUME NEW f \in Flow, Request(f) PROVE TypeOK'
  <2>1. turns[corr[f]] \in Flow \cup {None}
    BY <1>16 DEF Request, Flows
  <2>2. hook' \in Hooks
    BY <1>16, <2>1, GoType, EnvelopeTypes DEF Request
  <2> QED
    BY <1>16, <2>2 DEF Request
<1>17. ASSUME NEW f \in Flow, ResponseHeadersStream(f) PROVE TypeOK'
  <2>1. <<>> \in Seq(Chunks) \cup {None}
    OBVIOUS
  <2>2. accumulator' \in [Flow -> Seq(Chunks) \cup {None}] /\ tapped' \subseteq Flow
    BY <1>17, <2>1 DEF ResponseHeadersStream
  <2> QED
    BY <1>17, <2>2 DEF ResponseHeadersStream
<1>18. ASSUME NEW f \in Flow, ResponseHeadersPlain(f) PROVE TypeOK'
  BY <1>18 DEF ResponseHeadersPlain
<1>19. ASSUME NEW f \in Flow, StreamChunk(f) PROVE TypeOK'
  <2>1. sent[f] \in Nat /\ sent[f] + 1 \in 1..MaxChunks
    BY <1>19, RoomForChunk DEF StreamChunk
  <2>2. sent' \in [Flow -> 0..MaxChunks]
    BY <1>19, <2>1 DEF StreamChunk
  <2>3. [flow |-> f, n |-> sent[f] + 1] \in Chunks
    BY <2>1 DEF Chunks
  <2>4. chunk_queue' \in Seq(Chunks) /\ Len(chunk_queue') <= QueueCap /\ dropped' \subseteq Chunks
    BY <1>19, <2>3, PutFacts DEF StreamChunk
  <2> QED
    BY <1>19, <2>2, <2>4 DEF StreamChunk
<1>20. ASSUME NEW f \in Flow, StreamEnd(f) PROVE TypeOK'
  <2>1. [flow |-> f, n |-> Eof] \in Chunks
    BY DEF Chunks, Eof
  <2>2. chunk_queue' \in Seq(Chunks) /\ Len(chunk_queue') <= QueueCap /\ dropped' \subseteq Chunks
    BY <1>20, <2>1, PutFacts DEF StreamEnd
  <2> QED
    BY <1>20, <2>2 DEF StreamEnd
<1>21. ASSUME NEW f \in Flow, Response(f) PROVE TypeOK'
  <2>1. turns[corr[f]] \in Flow \cup {None}
    BY <1>21 DEF Response, Flows
  <2>2. hook' \in Hooks
    BY <1>21, <2>1, GoType DEF Response
  <2> QED
    BY <1>21, <2>2 DEF Response
<1>22. ASSUME NEW f \in Flow, FlowError(f) PROVE TypeOK'
  <2>1. hook' \in Hooks /\ turns' \in [Id -> Flow \cup {None}]
    BY <1>22, AbortType DEF FlowError, Flows
  <2> QED
    BY <1>22, <2>1 DEF FlowError
<1>23. ASSUME NEW f \in Flow, Expire(f) PROVE TypeOK'
  BY <1>23 DEF Expire
<1>24. ASSUME NEW f \in Flow, EmitTimeout(f) PROVE TypeOK'
  BY <1>24, EmitFacts, EnvelopeTypes DEF EmitTimeout
<1>25. CASE UNCHANGED vars
  BY <1>25 DEF vars
<1> QED
  BY <1>1, <1>2, <1>3, <1>4, <1>5, <1>6, <1>7, <1>8, <1>9, <1>10, <1>11, <1>12, <1>13, <1>14,
       <1>15, <1>16, <1>17, <1>18, <1>19, <1>20, <1>21, <1>22, <1>23, <1>24, <1>25
     DEF Next, HookStep, Traffic

LEMMA StreamedNext ==
    ASSUME Base, [Next]_vars
    PROVE  IsFiniteSet(Streamed)'
<1>1. CASE \E f \in Flow : StreamChunk(f)
  <2>1. PICK f \in Flow : StreamChunk(f)
    BY <1>1
  <2>2. sent[f] \in Nat /\ sent' = [sent EXCEPT ![f] = @ + 1] /\ sent \in [Flow -> 0..MaxChunks]
    BY <2>1, RoomForChunk DEF Base, StreamChunk, TypeOK
  <2>3. Streamed' \subseteq Streamed \cup {[flow |-> f, n |-> sent[f] + 1]}
    <3> SUFFICES ASSUME NEW c \in Chunks, c.n # Eof, c.n <= sent'[c.flow], c \notin Streamed
                 PROVE  c = [flow |-> f, n |-> sent[f] + 1]
      BY DEF Streamed
    <3>1. c = [flow |-> c.flow, n |-> c.n] /\ c.flow \in Flow /\ c.n \in 0..MaxChunks
      BY DEF Chunks
    <3>2. ~(c.n <= sent[c.flow])
      BY DEF Streamed
    <3>3. c.flow = f /\ sent'[f] = sent[f] + 1
      BY <2>2, <3>1, <3>2
    <3> QED
      BY <2>2, <3>1, <3>2, <3>3
  <2>4. IsFiniteSet(Streamed \cup {[flow |-> f, n |-> sent[f] + 1]})
    BY FS_AddElement DEF Base
  <2> QED
    BY <2>3, <2>4, FS_Subset
<1>2. CASE UNCHANGED sent
  BY <1>2 DEF Base, Streamed
<1> QED
  <2>1. UNCHANGED sent \/ \E f \in Flow : StreamChunk(f)
    BY DEF Next, HookStep, Traffic, vars, flowVars,
           EmitInitiated, DrainGet, DrainRecord, ResponseIsError, ResponseRaises, Flush,
           EmitCompleted, RemoveTurn, EmitAborted, EmitFromHook, Done, WorkerGet, WorkerRecord,
           Sweep, StopReaper, RequestHeaders, Request, ResponseHeadersStream,
           ResponseHeadersPlain, StreamEnd, Response, FlowError, Expire, EmitTimeout
  <2> QED
    BY <1>1, <1>2, <2>1

LEMMA FlowsNext ==
    ASSUME Base, [Next]_vars
    PROVE  Flows'
<1> USE DEF Base, Flows, InHook, TypeOK, flowVars, trackerVars, streamVars
<1>1. CASE EmitInitiated
  BY <1>1, EmitFacts, EnvelopeTypes DEF EmitInitiated, EmitFromHook
<1>2. CASE DrainGet
  BY <1>2 DEF DrainGet
<1>3. CASE DrainRecord
  BY <1>3 DEF DrainRecord
<1>4. CASE ResponseIsError
  BY <1>4 DEF ResponseIsError
<1>5. CASE ResponseRaises
  BY <1>5 DEF ResponseRaises
<1>6. CASE Flush
  BY <1>6 DEF Flush
<1>7. CASE EmitCompleted
  BY <1>7, EmitFacts, EnvelopeTypes DEF EmitCompleted, EmitFromHook
<1>8. CASE RemoveTurn
  BY <1>8 DEF RemoveTurn
<1>9. CASE EmitAborted
  BY <1>9, EmitFacts, EnvelopeTypes DEF EmitAborted, EmitFromHook
<1>10. CASE Done
  BY <1>10 DEF Done
<1>11. CASE WorkerGet
  BY <1>11 DEF WorkerGet
<1>12. CASE WorkerRecord
  BY <1>12 DEF WorkerRecord
<1>13. CASE Sweep
  <2>1. ASSUME NEW f \in Overdue PROVE phase[f] # "new" /\ f \in Flow
    <3>1. PICK i \in Id : turns[i] = f
      BY DEF Overdue, Registered
    <3>2. f \in Flow /\ corr[f] = i
      BY <3>1 DEF Registry, Overdue
    <3> QED
      BY <3>2
  <2> QED
    BY <1>13, <2>1 DEF Sweep
<1>14. CASE StopReaper
  BY <1>14 DEF StopReaper
<1>15. ASSUME NEW f \in Flow, RequestHeaders(f) PROVE Flows'
  BY <1>15 DEF RequestHeaders
<1>16. ASSUME NEW f \in Flow, Request(f) PROVE Flows'
  BY <1>16 DEF Request
<1>17. ASSUME NEW f \in Flow, ResponseHeadersStream(f) PROVE Flows'
  BY <1>17 DEF ResponseHeadersStream
<1>18. ASSUME NEW f \in Flow, ResponseHeadersPlain(f) PROVE Flows'
  BY <1>18 DEF ResponseHeadersPlain
<1>19. ASSUME NEW f \in Flow, StreamChunk(f) PROVE Flows'
  BY <1>19 DEF StreamChunk
<1>20. ASSUME NEW f \in Flow, StreamEnd(f) PROVE Flows'
  BY <1>20 DEF StreamEnd
<1>21. ASSUME NEW f \in Flow, Response(f) PROVE Flows'
  BY <1>21 DEF Response
<1>22. ASSUME NEW f \in Flow, FlowError(f) PROVE Flows'
  BY <1>22 DEF FlowError
<1>23. ASSUME NEW f \in Flow, Expire(f) PROVE Flows'
  BY <1>23 DEF Expire
<1>24. ASSUME NEW f \in Flow, EmitTimeout(f) PROVE Flows'
  BY <1>24, EmitFacts, EnvelopeTypes DEF EmitTimeout
<1>25. CASE UNCHANGED vars
  BY <1>25 DEF vars
<1> QED
  BY <1>1, <1>2, <1>3, <1>4, <1>5, <1>6, <1>7, <1>8, <1>9, <1>10, <1>11, <1>12, <1>13, <1>14,
       <1>15, <1>16, <1>17, <1>18, <1>19, <1>20, <1>21, <1>22, <1>23, <1>24, <1>25
     DEF Next, HookStep, Traffic

LEMMA RegistryNext ==
    ASSUME Base, [Next]_vars
    PROVE  Registry'
<1> USE DEF Base, Flows, Registry, InHook, TypeOK, flowVars, trackerVars, streamVars
<1>1. CASE EmitInitiated
  BY <1>1 DEF EmitInitiated, EmitFromHook
<1>2. CASE DrainGet
  BY <1>2 DEF DrainGet
<1>3. CASE DrainRecord
  BY <1>3 DEF DrainRecord
<1>4. CASE ResponseIsError
  BY <1>4 DEF ResponseIsError, Abort
<1>5. CASE ResponseRaises
  BY <1>5 DEF ResponseRaises
<1>6. CASE Flush
  BY <1>6 DEF Flush
<1>7. CASE EmitCompleted
  BY <1>7 DEF EmitCompleted, EmitFromHook
<1>8. CASE RemoveTurn
  BY <1>8 DEF RemoveTurn
<1>9. CASE EmitAborted
  BY <1>9 DEF EmitAborted, EmitFromHook
<1>10. CASE Done
  BY <1>10 DEF Done
<1>11. CASE WorkerGet
  BY <1>11 DEF WorkerGet
<1>12. CASE WorkerRecord
  BY <1>12 DEF WorkerRecord
<1>13. CASE Sweep
  BY <1>13 DEF Sweep
<1>14. CASE StopReaper
  BY <1>14 DEF StopReaper
<1>15. ASSUME NEW f \in Flow, RequestHeaders(f) PROVE Registry'
  BY <1>15 DEF RequestHeaders
<1>16. ASSUME NEW f \in Flow, Request(f) PROVE Registry'
  BY <1>16 DEF Request
<1>17. ASSUME NEW f \in Flow, ResponseHeadersStream(f) PROVE Registry'
  BY <1>17 DEF ResponseHeadersStream
<1>18. ASSUME NEW f \in Flow, ResponseHeadersPlain(f) PROVE Registry'
  BY <1>18 DEF ResponseHeadersPlain
<1>19. ASSUME NEW f \in Flow, StreamChunk(f) PROVE Registry'
  BY <1>19 DEF StreamChunk
<1>20. ASSUME NEW f \in Flow, StreamEnd(f) PROVE Registry'
  BY <1>20 DEF StreamEnd
<1>21. ASSUME NEW f \in Flow, Response(f) PROVE Registry'
  BY <1>21 DEF Response
<1>22. ASSUME NEW f \in Flow, FlowError(f) PROVE Registry'
  BY <1>22 DEF FlowError, Abort
<1>23. ASSUME NEW f \in Flow, Expire(f) PROVE Registry'
  BY <1>23 DEF Expire
<1>24. ASSUME NEW f \in Flow, EmitTimeout(f) PROVE Registry'
  BY <1>24 DEF EmitTimeout
<1>25. CASE UNCHANGED vars
  BY <1>25 DEF vars
<1> QED
  BY <1>1, <1>2, <1>3, <1>4, <1>5, <1>6, <1>7, <1>8, <1>9, <1>10, <1>11, <1>12, <1>13, <1>14,
       <1>15, <1>16, <1>17, <1>18, <1>19, <1>20, <1>21, <1>22, <1>23, <1>24, <1>25
     DEF Next, HookStep, Traffic

LEMMA InHookNext ==
    ASSUME Base, [Next]_vars
    PROVE  InHook'
<1> USE DEF Base, Flows, Registry, InHook, TypeOK, Go, Idle, HookFree, flowVars, trackerVars,
    streamVars
<1>1. CASE EmitInitiated
  BY <1>1 DEF EmitInitiated, EmitFromHook
<1>2. CASE DrainGet
  BY <1>2, GetFacts DEF DrainGet
<1>3. CASE DrainRecord
  BY <1>3 DEF DrainRecord
<1>4. CASE ResponseIsError
  <2>1. hook.flow \in Flow /\ hook.at = "drain" /\ UNCHANGED <<corr, phase>>
        /\ turns[corr[hook.flow]] \in Flow \cup {None}
    BY <1>4 DEF ResponseIsError, Drained
  <2>2. CASE hook'.at = "idle"
    BY <2>2
  <2>3. CASE hook'.at # "idle"
    <3>1. /\ hook'.at = "abort" /\ hook'.flow = hook.flow /\ hook'.turn = turns[corr[hook.flow]]
          /\ hook'.turn # None /\ hook'.envelope = Failed("HTTP_ERROR")
      BY <1>4, <2>3 DEF ResponseIsError, Abort
    <3> QED
      BY <2>1, <3>1
  <2> QED
    BY <2>2, <2>3
<1>5. CASE ResponseRaises
  BY <1>5 DEF ResponseRaises
<1>6. CASE Flush
  <2>1. hook.flow \in Flow /\ hook.turn \in Flow
    BY <1>6 DEF Flush, Drained
  <2>2. /\ hook'.at = "complete" /\ hook'.flow = hook.flow /\ hook'.turn = hook.turn
        /\ hook'.envelope = Completed(IF accumulator[hook.turn] = None THEN <<>>
                                       ELSE accumulator[hook.turn])
        /\ hook.at = "drain" /\ UNCHANGED <<corr, phase>>
    BY <1>6 DEF Flush, Drained
  <2>3. PICK b \in Seq(Chunks) : hook'.envelope = Completed(b)
    BY <2>1, <2>2, BlocksFed
  <2>4. hook'.envelope \in Envelopes /\ hook'.envelope.event = "TURN_COMPLETED"
    BY <2>3, EnvelopeTypes DEF Completed
  <2> QED
    BY <2>1, <2>2, <2>4
<1>7. CASE EmitCompleted
  BY <1>7 DEF EmitCompleted, EmitFromHook
<1>8. CASE RemoveTurn
  BY <1>8 DEF RemoveTurn
<1>9. CASE EmitAborted
  BY <1>9 DEF EmitAborted, EmitFromHook
<1>10. CASE Done
  BY <1>10 DEF Done
<1>11. CASE WorkerGet
  BY <1>11 DEF WorkerGet
<1>12. CASE WorkerRecord
  BY <1>12 DEF WorkerRecord
<1>13. CASE Sweep
  BY <1>13 DEF Sweep
<1>14. CASE StopReaper
  BY <1>14 DEF StopReaper
<1>15. ASSUME NEW f \in Flow, RequestHeaders(f) PROVE InHook'
  BY <1>15 DEF RequestHeaders
<1>16. ASSUME NEW f \in Flow, Request(f) PROVE InHook'
  BY <1>16 DEF Request
<1>17. ASSUME NEW f \in Flow, ResponseHeadersStream(f) PROVE InHook'
  BY <1>17 DEF ResponseHeadersStream
<1>18. ASSUME NEW f \in Flow, ResponseHeadersPlain(f) PROVE InHook'
  BY <1>18 DEF ResponseHeadersPlain
<1>19. ASSUME NEW f \in Flow, StreamChunk(f) PROVE InHook'
  BY <1>19 DEF StreamChunk
<1>20. ASSUME NEW f \in Flow, StreamEnd(f) PROVE InHook'
  BY <1>20 DEF StreamEnd
<1>21. ASSUME NEW f \in Flow, Response(f) PROVE InHook'
  BY <1>21 DEF Response
<1>22. ASSUME NEW f \in Flow, FlowError(f) PROVE InHook'
  BY <1>22 DEF FlowError, Abort
<1>23. ASSUME NEW f \in Flow, Expire(f) PROVE InHook'
  BY <1>23 DEF Expire
<1>24. ASSUME NEW f \in Flow, EmitTimeout(f) PROVE InHook'
  BY <1>24 DEF EmitTimeout
<1>25. CASE UNCHANGED vars
  BY <1>25 DEF vars
<1> QED
  BY <1>1, <1>2, <1>3, <1>4, <1>5, <1>6, <1>7, <1>8, <1>9, <1>10, <1>11, <1>12, <1>13, <1>14,
       <1>15, <1>16, <1>17, <1>18, <1>19, <1>20, <1>21, <1>22, <1>23, <1>24, <1>25
     DEF Next, HookStep, Traffic

LEMMA BaseNext ==
    ASSUME Base, [Next]_vars
    PROVE  Base'
  BY TypeNext, StreamedNext, FlowsNext, RegistryNext, InHookNext DEF Base

LEMMA BaseInit == Init => Base
<1> SUFFICES ASSUME Init PROVE Base
  OBVIOUS
<1>1. TypeOK
  <2>1. <<>> \in Seq(Chunks) /\ <<>> \in Seq(Envelopes) /\ Len(<<>>) = 0
    OBVIOUS
  <2> QED
    BY <2>1, IdleType DEF Init, TypeOK
<1>2. IsFiniteSet(Streamed)
  <2>1. Streamed = {}
    BY DEF Init, Streamed, Chunks, Eof
  <2> QED
    BY <2>1, FS_EmptySet
<1>3. Flows /\ Registry /\ InHook
  BY DEF Init, Flows, Registry, InHook, Idle
<1> QED
  BY <1>1, <1>2, <1>3 DEF Base

-----------------------------------------------------------------------------
(* Who may still end a turn. *)

LEMMA PositionsOfEmit ==
    ASSUME TypeOK, NEW t \in Flow, NEW e \in Envelopes, Emit(t, e)
    PROVE  \A f \in Flow : \A event :
                Positions(f, event)' = IF f = t /\ e.event = event
                                       THEN Positions(f, event) \cup {Len(log[t]) + 1}
                                       ELSE Positions(f, event)
<1> SUFFICES ASSUME NEW f \in Flow, NEW event
             PROVE  Positions(f, event)' = IF f = t /\ e.event = event
                                           THEN Positions(f, event) \cup {Len(log[t]) + 1}
                                           ELSE Positions(f, event)
  OBVIOUS
<1>1. CASE f = t
  BY <1>1, EmitFacts DEF Positions
<1>2. CASE f # t
  BY <1>2, EmitFacts DEF Positions
<1> QED
  BY <1>1, <1>2

LEMMA SameLog ==
    ASSUME UNCHANGED log
    PROVE  \A f \in Flow : \A event :
                Positions(f, event)' = Positions(f, event) /\ (Has(f, event)' <=> Has(f, event))
  BY DEF Positions, Has

\* A turn that is registered is registered under its own id only.
LEMMA OwnId ==
    ASSUME Base, NEW f \in Flow
    PROVE  /\ Registered(f) <=> corr[f] \in Id /\ turns[corr[f]] = f
           /\ \A i \in Id : turns[i] = f => i = corr[f]
  BY DEF Base, Registry, Registered

\* Only its first hook registers a turn.
LEMMA RegisteredOnce ==
    ASSUME Base, [Next]_vars, NEW f \in Flow, Registered(f)', ~Registered(f)
    PROVE  phase[f] = "new" /\ RequestHeaders(f)
<1> USE DEF Base, TypeOK, Registered, flowVars, trackerVars, streamVars
<1>1. CASE EmitInitiated
  BY <1>1 DEF EmitInitiated, EmitFromHook
<1>2. CASE DrainGet
  BY <1>2 DEF DrainGet
<1>3. CASE DrainRecord
  BY <1>3 DEF DrainRecord
<1>4. CASE ResponseIsError
  BY <1>4 DEF ResponseIsError, Abort
<1>5. CASE ResponseRaises
  BY <1>5 DEF ResponseRaises
<1>6. CASE Flush
  BY <1>6 DEF Flush
<1>7. CASE EmitCompleted
  BY <1>7 DEF EmitCompleted, EmitFromHook
<1>8. CASE RemoveTurn
  BY <1>8 DEF RemoveTurn
<1>9. CASE EmitAborted
  BY <1>9 DEF EmitAborted, EmitFromHook
<1>10. CASE Done
  BY <1>10 DEF Done
<1>11. CASE WorkerGet
  BY <1>11 DEF WorkerGet
<1>12. CASE WorkerRecord
  BY <1>12 DEF WorkerRecord
<1>13. CASE Sweep
  BY <1>13 DEF Sweep
<1>14. CASE StopReaper
  BY <1>14 DEF StopReaper
<1>15. ASSUME NEW g \in Flow, RequestHeaders(g) PROVE phase[f] = "new" /\ RequestHeaders(f)
  BY <1>15 DEF RequestHeaders
<1>16. ASSUME NEW g \in Flow, Request(g) PROVE phase[f] = "new" /\ RequestHeaders(f)
  BY <1>16 DEF Request
<1>17. ASSUME NEW g \in Flow, ResponseHeadersStream(g) PROVE phase[f] = "new" /\ RequestHeaders(f)
  BY <1>17 DEF ResponseHeadersStream
<1>18. ASSUME NEW g \in Flow, ResponseHeadersPlain(g) PROVE phase[f] = "new" /\ RequestHeaders(f)
  BY <1>18 DEF ResponseHeadersPlain
<1>19. ASSUME NEW g \in Flow, StreamChunk(g) PROVE phase[f] = "new" /\ RequestHeaders(f)
  BY <1>19 DEF StreamChunk
<1>20. ASSUME NEW g \in Flow, StreamEnd(g) PROVE phase[f] = "new" /\ RequestHeaders(f)
  BY <1>20 DEF StreamEnd
<1>21. ASSUME NEW g \in Flow, Response(g) PROVE phase[f] = "new" /\ RequestHeaders(f)
  BY <1>21 DEF Response
<1>22. ASSUME NEW g \in Flow, FlowError(g) PROVE phase[f] = "new" /\ RequestHeaders(f)
  BY <1>22 DEF FlowError, Abort
<1>23. ASSUME NEW g \in Flow, Expire(g) PROVE phase[f] = "new" /\ RequestHeaders(f)
  BY <1>23 DEF Expire
<1>24. ASSUME NEW g \in Flow, EmitTimeout(g) PROVE phase[f] = "new" /\ RequestHeaders(f)
  BY <1>24 DEF EmitTimeout
<1>25. CASE UNCHANGED vars
  BY <1>25 DEF vars
<1> QED
  BY <1>1, <1>2, <1>3, <1>4, <1>5, <1>6, <1>7, <1>8, <1>9, <1>10, <1>11, <1>12, <1>13, <1>14,
       <1>15, <1>16, <1>17, <1>18, <1>19, <1>20, <1>21, <1>22, <1>23, <1>24, <1>25
     DEF Next, HookStep, Traffic

\* A turn that its first hook registers is new: nothing is known of it.
LEMMA RegisteredNew ==
    ASSUME Base, [Next]_vars
    PROVE  \A f \in Flow : Registered(f)' =>
                Registered(f) \/ ((\A event : ~Has(f, event)) /\ ~Doomed(f))
<1> SUFFICES ASSUME NEW f \in Flow, Registered(f)', ~Registered(f)
             PROVE  (\A event : ~Has(f, event)) /\ ~Doomed(f)
  OBVIOUS
<1>1. phase[f] = "new" /\ RequestHeaders(f)
  BY RegisteredOnce
<1>2. log[f] = <<>> /\ f \notin reaping /\ hook.at = "idle"
  BY <1>1 DEF Base, Flows, RequestHeaders, HookFree, Idle
<1>3. \A event : ~Has(f, event)
  BY <1>2 DEF Positions, Has
<1>4. ~Doomed(f)
  BY <1>2 DEF Doomed
<1> QED
  BY <1>3, <1>4

\* What the hooks and the threads do to the turns that are about to end.
endVars == <<hook.at, hook.turn, reaping, log>>

LEMMA QuietStep ==
    ASSUME Base, [Next]_vars, UNCHANGED endVars
    PROVE  (Completing => Completing') /\ (Failing => Failing')
<1>1. \A f \in Flow : \A event :
        Positions(f, event)' = Positions(f, event) /\ (Has(f, event)' <=> Has(f, event))
  BY SameLog DEF endVars
<1>2. \A f \in Flow : Doomed(f)' <=> Doomed(f)
  BY DEF Doomed, endVars
<1>3. /\ hook'.at = hook.at /\ hook'.turn = hook.turn /\ reaping' = reaping
      /\ (hook.at # "idle" => hook.turn \in Flow)
  BY DEF endVars, Base, InHook
<1>4. \A f \in Flow : Registered(f)' =>
            Registered(f) \/ ((\A event : ~Has(f, event)) /\ ~Doomed(f))
  BY RegisteredNew
<1> QED
  BY <1>1, <1>2, <1>3, <1>4 DEF Completing, Failing

\* A completion is emitted once, by the hook that then frees the turn.
LEMMA CompletingNext ==
    ASSUME Base, Completing, [Next]_vars
    PROVE  Completing'
<1>a. \A f \in Flow : Registered(f)' =>
            Registered(f) \/ ((\A event : ~Has(f, event)) /\ ~Doomed(f))
  BY RegisteredNew
<1>b. ASSUME UNCHANGED endVars PROVE Completing'
  BY <1>b, QuietStep
<1> USE DEF flowVars, trackerVars, streamVars
<1>1. CASE EmitInitiated
  <2>1. /\ hook.turn \in Flow /\ hook.envelope = Initiated /\ Emit(hook.turn, hook.envelope)
        /\ hook'.at = "idle" /\ UNCHANGED <<turns, reaping>> /\ hook.at = "initiate"
    BY <1>1 DEF EmitInitiated, EmitFromHook, Base, InHook, Idle
  <2>2. \A f \in Flow : \A event :
            Positions(f, event)' = IF f = hook.turn /\ hook.envelope.event = event
                                   THEN Positions(f, event) \cup {Len(log[hook.turn]) + 1}
                                   ELSE Positions(f, event)
    BY <2>1, EnvelopeTypes, PositionsOfEmit DEF Base
  <2> QED
    BY <1>a, <2>1, <2>2 DEF Completing, Has, Initiated
<1>2. CASE DrainGet
  <2>1. hook.at = "drain" /\ hook'.at = "record"
        /\ hook'.turn = hook.turn /\ hook.turn \in Flow /\ UNCHANGED log
    BY <1>2, HookFacts DEF DrainGet, Base, InHook, TypeOK, Hooks
  <2>2. \A f \in Flow : \A event :
            Positions(f, event)' = Positions(f, event) /\ (Has(f, event)' <=> Has(f, event))
    BY <2>1, SameLog
  <2> QED
    BY <1>a, <2>1, <2>2 DEF Completing
<1>3. CASE DrainRecord
  <2>1. hook.at = "record" /\ hook'.at = "drain"
        /\ hook'.turn = hook.turn /\ hook.turn \in Flow /\ UNCHANGED log
    BY <1>3, HookFacts DEF DrainRecord, Base, InHook, TypeOK, Hooks
  <2>2. \A f \in Flow : \A event :
            Positions(f, event)' = Positions(f, event) /\ (Has(f, event)' <=> Has(f, event))
    BY <2>1, SameLog
  <2> QED
    BY <1>a, <2>1, <2>2 DEF Completing
<1>4. CASE ResponseIsError
  <2>1. hook.at = "drain" /\ hook'.at \in {"idle", "abort"} /\ UNCHANGED log
    BY <1>4 DEF ResponseIsError, Drained, Abort, Go, Idle
  <2>2. \A f \in Flow : \A event :
            Positions(f, event)' = Positions(f, event) /\ (Has(f, event)' <=> Has(f, event))
    BY <2>1, SameLog
  <2> QED
    BY <1>a, <2>1, <2>2 DEF Completing
<1>5. CASE ResponseRaises
  <2>1. hook.at = "drain" /\ hook'.at = "idle" /\ UNCHANGED log
    BY <1>5 DEF ResponseRaises, Drained, Idle
  <2>2. \A f \in Flow : \A event :
            Positions(f, event)' = Positions(f, event) /\ (Has(f, event)' <=> Has(f, event))
    BY <2>1, SameLog
  <2> QED
    BY <1>a, <2>1, <2>2 DEF Completing
<1>6. CASE Flush
  <2>1. hook.at = "drain" /\ hook'.at = "complete"
        /\ hook'.turn = hook.turn /\ hook.turn \in Flow /\ UNCHANGED log
    BY <1>6 DEF Flush, Drained, Go, Base, InHook
  <2>2. \A f \in Flow : \A event :
            Positions(f, event)' = Positions(f, event) /\ (Has(f, event)' <=> Has(f, event))
    BY <2>1, SameLog
  <2> QED
    BY <1>a, <2>1, <2>2 DEF Completing
<1>7. CASE EmitCompleted
  <2>1. /\ hook.turn \in Flow /\ hook.envelope \in Envelopes /\ Emit(hook.turn, hook.envelope)
        /\ hook.envelope.event = "TURN_COMPLETED" /\ UNCHANGED <<turns, reaping>>
        /\ hook.at = "complete" /\ hook'.at = "remove" /\ hook'.turn = hook.turn
    BY <1>7 DEF EmitCompleted, EmitFromHook, Base, InHook, Idle
  <2>2. \A f \in Flow : \A event :
            Positions(f, event)' = IF f = hook.turn /\ hook.envelope.event = event
                                   THEN Positions(f, event) \cup {Len(log[hook.turn]) + 1}
                                   ELSE Positions(f, event)
    BY <2>1, EnvelopeTypes, PositionsOfEmit DEF Base
  <2> QED
    BY <1>a, <2>1, <2>2 DEF Completing, Has
<1>8. CASE RemoveTurn
  <2>1. /\ hook.at = "remove" /\ hook'.at = "idle" /\ UNCHANGED log
        /\ hook.turn \in Flow /\ corr[hook.flow] = corr[hook.turn]
        /\ turns' = [turns EXCEPT ![corr[hook.turn]] = None]
    BY <1>8 DEF RemoveTurn, Base, InHook, Idle
  <2>2. \A f \in Flow : \A event :
            Positions(f, event)' = Positions(f, event) /\ (Has(f, event)' <=> Has(f, event))
    BY <2>1, SameLog
  <2>3. \A f \in Flow : f = hook.turn => ~Registered(f)'
    BY <2>1, OwnId DEF Registered, Base, TypeOK
  <2> QED
    BY <1>a, <2>1, <2>2, <2>3 DEF Completing
<1>9. CASE EmitAborted
  <2>1. /\ hook.turn \in Flow /\ Emit(hook.turn, hook.envelope)
        /\ hook.envelope \in {Failed("HTTP_ERROR"), Failed("CLIENT_ABORTED")}
        /\ hook'.at = "idle" /\ UNCHANGED <<turns, reaping>> /\ hook.at = "abort"
    BY <1>9 DEF EmitAborted, EmitFromHook, Base, InHook, Idle
  <2>2. \A f \in Flow : \A event :
            Positions(f, event)' = IF f = hook.turn /\ hook.envelope.event = event
                                   THEN Positions(f, event) \cup {Len(log[hook.turn]) + 1}
                                   ELSE Positions(f, event)
    BY <2>1, EnvelopeTypes, PositionsOfEmit DEF Base
  <2> QED
    BY <1>a, <2>1, <2>2 DEF Completing, Has, Failed
<1>10. CASE Done
  BY <1>10, <1>b DEF Done, endVars
<1>11. CASE WorkerGet
  BY <1>11, <1>b DEF WorkerGet, endVars
<1>12. CASE WorkerRecord
  BY <1>12, <1>b DEF WorkerRecord, endVars
<1>13. CASE Sweep
  <2>1. UNCHANGED <<log, hook>> /\ (hook.at # "idle" => hook.turn \in Flow)
    BY <1>13 DEF Sweep, Base, InHook
  <2>2. \A f \in Flow : \A event :
            Positions(f, event)' = Positions(f, event) /\ (Has(f, event)' <=> Has(f, event))
    BY <2>1, SameLog
  <2> QED
    BY <1>a, <2>1, <2>2 DEF Completing
<1>14. CASE StopReaper
  BY <1>14, <1>b DEF StopReaper, endVars
<1>15. ASSUME NEW f \in Flow, RequestHeaders(f) PROVE Completing'
  BY <1>15, <1>b DEF RequestHeaders, endVars
<1>16. ASSUME NEW f \in Flow, Request(f) PROVE Completing'
  <2>1. hook.at = "idle" /\ hook'.at \in {"idle", "initiate"} /\ UNCHANGED log
    BY <1>16 DEF Request, HookFree, Go, Idle
  <2>2. \A g \in Flow : \A event :
            Positions(g, event)' = Positions(g, event) /\ (Has(g, event)' <=> Has(g, event))
    BY <2>1, SameLog
  <2> QED
    BY <1>a, <2>1, <2>2 DEF Completing
<1>17. ASSUME NEW f \in Flow, ResponseHeadersStream(f) PROVE Completing'
  BY <1>17, <1>b DEF ResponseHeadersStream, endVars
<1>18. ASSUME NEW f \in Flow, ResponseHeadersPlain(f) PROVE Completing'
  BY <1>18, <1>b DEF ResponseHeadersPlain, endVars
<1>19. ASSUME NEW f \in Flow, StreamChunk(f) PROVE Completing'
  BY <1>19, <1>b DEF StreamChunk, endVars
<1>20. ASSUME NEW f \in Flow, StreamEnd(f) PROVE Completing'
  BY <1>20, <1>b DEF StreamEnd, endVars
<1>21. ASSUME NEW f \in Flow, Response(f) PROVE Completing'
  <2>1. hook.at = "idle" /\ UNCHANGED <<log, turns>>
    BY <1>21 DEF Response, HookFree, Idle
  <2>2. \A g \in Flow : \A event :
            Positions(g, event)' = Positions(g, event) /\ (Has(g, event)' <=> Has(g, event))
    BY <2>1, SameLog
  <2>3. CASE hook'.at = "idle"
    BY <1>a, <2>1, <2>2, <2>3 DEF Completing
  <2>4. CASE hook'.at # "idle"
    <3>1. /\ hook'.at = "drain" /\ hook'.turn = turns[corr[f]]
          /\ turns[corr[f]] # None /\ corr[f] \in Id
      BY <1>21, <2>1, <2>4 DEF Response, Go, Base, Flows
    <3>2. hook'.turn \in Flow /\ Registered(hook'.turn)
      BY <3>1 DEF Registered, Base, TypeOK
    <3> QED
      BY <1>a, <2>1, <2>2, <3>1, <3>2 DEF Completing
  <2> QED
    BY <2>3, <2>4
<1>22. ASSUME NEW f \in Flow, FlowError(f) PROVE Completing'
  <2>1. hook.at = "idle" /\ hook'.at \in {"idle", "abort"} /\ UNCHANGED log
    BY <1>22 DEF FlowError, HookFree, Abort, Go, Idle
  <2>2. \A g \in Flow : \A event :
            Positions(g, event)' = Positions(g, event) /\ (Has(g, event)' <=> Has(g, event))
    BY <2>1, SameLog
  <2> QED
    BY <1>a, <2>1, <2>2 DEF Completing
<1>23. ASSUME NEW f \in Flow, Expire(f) PROVE Completing'
  BY <1>23, <1>b DEF Expire, endVars
<1>24. ASSUME NEW f \in Flow, EmitTimeout(f) PROVE Completing'
  <2>1. Failed("TIMEOUT") \in Envelopes /\ Emit(f, Failed("TIMEOUT"))
        /\ f \in reaping /\ reaping' = reaping \ {f} /\ UNCHANGED <<turns, hook>>
    BY <1>24, EnvelopeTypes DEF EmitTimeout
  <2>2. \A g \in Flow : \A event :
            Positions(g, event)' = IF g = f /\ event = "TURN_ERROR"
                                   THEN Positions(g, event) \cup {Len(log[f]) + 1}
                                   ELSE Positions(g, event)
    BY <2>1, PositionsOfEmit DEF Base, Failed
  <2>3. hook.at # "idle" => hook.turn \in Flow
    BY DEF Base, InHook
  <2> QED
    BY <1>a, <2>1, <2>2, <2>3 DEF Completing, Has
<1>25. CASE UNCHANGED vars
  BY <1>25, <1>b DEF vars, endVars
<1> QED
  BY <1>1, <1>2, <1>3, <1>4, <1>5, <1>6, <1>7, <1>8, <1>9, <1>10, <1>11, <1>12, <1>13, <1>14,
       <1>15, <1>16, <1>17, <1>18, <1>19, <1>20, <1>21, <1>22, <1>23, <1>24, <1>25
     DEF Next, HookStep, Traffic

\* Whoever takes a turn off the registry is the only one to report its failure.
LEMMA FailingNext ==
    ASSUME Base, Failing, [Next]_vars
    PROVE  Failing'
<1>a. \A f \in Flow : Registered(f)' =>
            Registered(f) \/ ((\A event : ~Has(f, event)) /\ ~Doomed(f))
  BY RegisteredNew
<1>b. ASSUME UNCHANGED endVars PROVE Failing'
  BY <1>b, QuietStep
<1> USE DEF flowVars, trackerVars, streamVars
<1>1. CASE EmitInitiated
  <2>1. /\ hook.turn \in Flow /\ hook.envelope = Initiated /\ Emit(hook.turn, hook.envelope)
        /\ hook'.at = "idle" /\ UNCHANGED <<turns, reaping>> /\ hook.at = "initiate"
    BY <1>1 DEF EmitInitiated, EmitFromHook, Base, InHook, Idle
  <2>2. \A f \in Flow : \A event :
            Positions(f, event)' = IF f = hook.turn /\ hook.envelope.event = event
                                   THEN Positions(f, event) \cup {Len(log[hook.turn]) + 1}
                                   ELSE Positions(f, event)
    BY <2>1, EnvelopeTypes, PositionsOfEmit DEF Base
  <2> QED
    BY <1>a, <2>1, <2>2 DEF Failing, Has, Initiated, Doomed
<1>2. CASE DrainGet
  <2>1. hook.at # "abort" /\ hook'.at # "abort" /\ UNCHANGED <<log, reaping>>
    BY <1>2, HookFacts DEF DrainGet, Base, TypeOK, Hooks
  <2>2. \A f \in Flow : \A event :
            Positions(f, event)' = Positions(f, event) /\ (Has(f, event)' <=> Has(f, event))
    BY <2>1, SameLog
  <2> QED
    BY <1>a, <2>1, <2>2 DEF Failing, Doomed
<1>3. CASE DrainRecord
  <2>1. hook.at # "abort" /\ hook'.at # "abort" /\ UNCHANGED <<log, reaping>>
    BY <1>3, HookFacts DEF DrainRecord, Base, TypeOK, Hooks
  <2>2. \A f \in Flow : \A event :
            Positions(f, event)' = Positions(f, event) /\ (Has(f, event)' <=> Has(f, event))
    BY <2>1, SameLog
  <2> QED
    BY <1>a, <2>1, <2>2 DEF Failing, Doomed
<1>4. CASE ResponseIsError
  <2>1. /\ hook.at # "abort" /\ UNCHANGED <<log, reaping>>
        /\ hook.flow \in Flow /\ corr[hook.flow] \in Id
    BY <1>4 DEF ResponseIsError, Drained, Base, InHook
  <2>2. \A g \in Flow : \A event :
            Positions(g, event)' = Positions(g, event) /\ (Has(g, event)' <=> Has(g, event))
    BY <2>1, SameLog
  <2>3. CASE hook'.at = "idle"
    BY <1>a, <2>1, <2>2, <2>3 DEF Failing, Doomed
  <2>4. CASE hook'.at # "idle"
    <3>1. /\ hook'.at = "abort" /\ hook'.turn = turns[corr[hook.flow]]
          /\ turns[corr[hook.flow]] # None
          /\ turns' = [turns EXCEPT ![corr[hook.flow]] = None]
      BY <1>4, <2>4 DEF ResponseIsError, Abort, Go, Idle
    <3>2. hook'.turn \in Flow
          /\ \A g \in Flow : g = hook'.turn => Registered(g) /\ corr[g] = corr[hook.flow]
      BY <2>1, <3>1, OwnId DEF Registered, Base, TypeOK, Registry
    <3>3. \A g \in Flow : g = hook'.turn => ~Registered(g)'
      BY <2>1, <3>1, <3>2, OwnId DEF Registered, Base, TypeOK
    <3> QED
      BY <1>a, <2>1, <2>2, <3>1, <3>2, <3>3 DEF Failing, Doomed
  <2> QED
    BY <2>3, <2>4
<1>5. CASE ResponseRaises
  <2>1. hook.at # "abort" /\ hook'.at # "abort" /\ UNCHANGED <<log, reaping>>
    BY <1>5 DEF ResponseRaises, Drained, Idle
  <2>2. \A f \in Flow : \A event :
            Positions(f, event)' = Positions(f, event) /\ (Has(f, event)' <=> Has(f, event))
    BY <2>1, SameLog
  <2> QED
    BY <1>a, <2>1, <2>2 DEF Failing, Doomed
<1>6. CASE Flush
  <2>1. hook.at # "abort" /\ hook'.at # "abort" /\ UNCHANGED <<log, reaping>>
    BY <1>6 DEF Flush, Drained, Go
  <2>2. \A f \in Flow : \A event :
            Positions(f, event)' = Positions(f, event) /\ (Has(f, event)' <=> Has(f, event))
    BY <2>1, SameLog
  <2> QED
    BY <1>a, <2>1, <2>2 DEF Failing, Doomed
<1>7. CASE EmitCompleted
  <2>1. /\ hook.turn \in Flow /\ hook.envelope \in Envelopes /\ Emit(hook.turn, hook.envelope)
        /\ hook.envelope.event = "TURN_COMPLETED" /\ UNCHANGED <<turns, reaping>>
        /\ hook.at = "complete" /\ hook'.at = "remove" /\ hook'.turn = hook.turn
    BY <1>7 DEF EmitCompleted, EmitFromHook, Base, InHook, Idle
  <2>2. \A f \in Flow : \A event :
            Positions(f, event)' = IF f = hook.turn /\ hook.envelope.event = event
                                   THEN Positions(f, event) \cup {Len(log[hook.turn]) + 1}
                                   ELSE Positions(f, event)
    BY <2>1, EnvelopeTypes, PositionsOfEmit DEF Base
  <2> QED
    BY <1>a, <2>1, <2>2 DEF Failing, Has, Doomed
<1>8. CASE RemoveTurn
  <2>1. hook.at # "abort" /\ hook'.at # "abort" /\ UNCHANGED <<log, reaping>>
    BY <1>8 DEF RemoveTurn, Idle
  <2>2. \A f \in Flow : \A event :
            Positions(f, event)' = Positions(f, event) /\ (Has(f, event)' <=> Has(f, event))
    BY <2>1, SameLog
  <2> QED
    BY <1>a, <2>1, <2>2 DEF Failing, Doomed
<1>9. CASE EmitAborted
  <2>1. /\ hook.turn \in Flow /\ Emit(hook.turn, hook.envelope)
        /\ hook.envelope \in {Failed("HTTP_ERROR"), Failed("CLIENT_ABORTED")}
        /\ hook'.at = "idle" /\ UNCHANGED <<turns, reaping>> /\ hook.at = "abort"
    BY <1>9 DEF EmitAborted, EmitFromHook, Base, InHook, Idle
  <2>2. \A f \in Flow : \A event :
            Positions(f, event)' = IF f = hook.turn /\ hook.envelope.event = event
                                   THEN Positions(f, event) \cup {Len(log[hook.turn]) + 1}
                                   ELSE Positions(f, event)
    BY <2>1, EnvelopeTypes, PositionsOfEmit DEF Base
  <2> QED
    BY <1>a, <2>1, <2>2 DEF Failing, Has, Failed, Doomed
<1>10. CASE Done
  BY <1>10, <1>b DEF Done, endVars
<1>11. CASE WorkerGet
  BY <1>11, <1>b DEF WorkerGet, endVars
<1>12. CASE WorkerRecord
  BY <1>12, <1>b DEF WorkerRecord, endVars
<1>13. CASE Sweep
  <2>1. UNCHANGED <<log, hook>> /\ reaping = {} /\ reaping' = Overdue
    BY <1>13 DEF Sweep
  <2>2. \A f \in Flow : \A event :
            Positions(f, event)' = Positions(f, event) /\ (Has(f, event)' <=> Has(f, event))
    BY <2>1, SameLog
  <2>3. \A f \in Overdue : Registered(f) /\ ~Registered(f)'
    BY <1>13 DEF Sweep, Overdue, Registered, Base, TypeOK
  <2>4. hook.at # "idle" => hook.turn \in Flow
    BY DEF Base, InHook
  <2> QED
    BY <1>a, <2>1, <2>2, <2>3, <2>4 DEF Failing, Doomed
<1>14. CASE StopReaper
  BY <1>14, <1>b DEF StopReaper, endVars
<1>15. ASSUME NEW f \in Flow, RequestHeaders(f) PROVE Failing'
  BY <1>15, <1>b DEF RequestHeaders, endVars
<1>16. ASSUME NEW f \in Flow, Request(f) PROVE Failing'
  <2>1. hook.at # "abort" /\ hook'.at # "abort" /\ UNCHANGED <<log, reaping>>
    BY <1>16 DEF Request, HookFree, Go, Idle
  <2>2. \A g \in Flow : \A event :
            Positions(g, event)' = Positions(g, event) /\ (Has(g, event)' <=> Has(g, event))
    BY <2>1, SameLog
  <2> QED
    BY <1>a, <2>1, <2>2 DEF Failing, Doomed
<1>17. ASSUME NEW f \in Flow, ResponseHeadersStream(f) PROVE Failing'
  BY <1>17, <1>b DEF ResponseHeadersStream, endVars
<1>18. ASSUME NEW f \in Flow, ResponseHeadersPlain(f) PROVE Failing'
  BY <1>18, <1>b DEF ResponseHeadersPlain, endVars
<1>19. ASSUME NEW f \in Flow, StreamChunk(f) PROVE Failing'
  BY <1>19, <1>b DEF StreamChunk, endVars
<1>20. ASSUME NEW f \in Flow, StreamEnd(f) PROVE Failing'
  BY <1>20, <1>b DEF StreamEnd, endVars
<1>21. ASSUME NEW f \in Flow, Response(f) PROVE Failing'
  <2>1. hook.at # "abort" /\ hook'.at # "abort" /\ UNCHANGED <<log, reaping>>
    BY <1>21 DEF Response, HookFree, Go, Idle
  <2>2. \A g \in Flow : \A event :
            Positions(g, event)' = Positions(g, event) /\ (Has(g, event)' <=> Has(g, event))
    BY <2>1, SameLog
  <2> QED
    BY <1>a, <2>1, <2>2 DEF Failing, Doomed
<1>22. ASSUME NEW f \in Flow, FlowError(f) PROVE Failing'
  <2>1. hook.at # "abort" /\ UNCHANGED <<log, reaping>> /\ f \in Flow /\ corr[f] \in Id
    BY <1>22 DEF FlowError, HookFree, Idle, Base, Flows
  <2>2. \A g \in Flow : \A event :
            Positions(g, event)' = Positions(g, event) /\ (Has(g, event)' <=> Has(g, event))
    BY <2>1, SameLog
  <2>3. CASE hook'.at = "idle"
    BY <1>a, <2>1, <2>2, <2>3 DEF Failing, Doomed
  <2>4. CASE hook'.at # "idle"
    <3>1. /\ hook'.at = "abort" /\ hook'.turn = turns[corr[f]] /\ turns[corr[f]] # None
          /\ turns' = [turns EXCEPT ![corr[f]] = None]
      BY <1>22, <2>4 DEF FlowError, Abort, Go, Idle
    <3>2. hook'.turn \in Flow
          /\ \A g \in Flow : g = hook'.turn => Registered(g) /\ corr[g] = corr[f]
      BY <2>1, <3>1, OwnId DEF Registered, Base, TypeOK, Registry
    <3>3. \A g \in Flow : g = hook'.turn => ~Registered(g)'
      BY <2>1, <3>1, <3>2, OwnId DEF Registered, Base, TypeOK
    <3> QED
      BY <1>a, <2>1, <2>2, <3>1, <3>2, <3>3 DEF Failing, Doomed
  <2> QED
    BY <2>3, <2>4
<1>23. ASSUME NEW f \in Flow, Expire(f) PROVE Failing'
  BY <1>23, <1>b DEF Expire, endVars
<1>24. ASSUME NEW f \in Flow, EmitTimeout(f) PROVE Failing'
  <2>1. Failed("TIMEOUT") \in Envelopes /\ Emit(f, Failed("TIMEOUT"))
        /\ f \in reaping /\ reaping' = reaping \ {f} /\ UNCHANGED <<turns, hook>>
    BY <1>24, EnvelopeTypes DEF EmitTimeout
  <2>2. \A g \in Flow : \A event :
            Positions(g, event)' = IF g = f /\ event = "TURN_ERROR"
                                   THEN Positions(g, event) \cup {Len(log[f]) + 1}
                                   ELSE Positions(g, event)
    BY <2>1, PositionsOfEmit DEF Base, Failed
  <2>3. hook.at # "idle" => hook.turn \in Flow
    BY DEF Base, InHook
  <2> QED
    BY <1>a, <2>1, <2>2, <2>3 DEF Failing, Has, Doomed
<1>25. CASE UNCHANGED vars
  BY <1>25, <1>b DEF vars, endVars
<1> QED
  BY <1>1, <1>2, <1>3, <1>4, <1>5, <1>6, <1>7, <1>8, <1>9, <1>10, <1>11, <1>12, <1>13, <1>14,
       <1>15, <1>16, <1>17, <1>18, <1>19, <1>20, <1>21, <1>22, <1>23, <1>24, <1>25
     DEF Next, HookStep, Traffic

-----------------------------------------------------------------------------
(* Turns whose id is their own. *)

\* The id of a flow is set once, and a flow that is done stays so.
FlowMove(f) ==
    /\ phase[f] # "new" => corr'[f] = corr[f]
    /\ phase[f] = "done" => phase'[f] = "done"
    /\ phase[f] \notin {"new", "headers"} => phase'[f] \notin {"new", "headers"}
    /\ phase[f] \in {"ended", "done"} => phase'[f] \in {"ended", "done"}
    /\ phase'[f] # phase[f] => hook.at = "idle"
    /\ sent[f] <= sent'[f]
    /\ sent'[f] # sent[f] => hook.at = "idle" /\ StreamChunk(f) /\ sent'[f] = sent[f] + 1
    /\ dropped \subseteq dropped'
    /\ f \in tapped' => f \in tapped \/ ResponseHeadersStream(f)

\* How far a flow is, its id, and what its tap has seen.
LEMMA FlowMoves ==
    ASSUME Base, [Next]_vars, NEW f \in Flow
    PROVE  FlowMove(f)
<1> USE DEF FlowMove, Base, TypeOK, HookFree, Idle, flowVars, trackerVars, streamVars
<1>1. CASE EmitInitiated
  BY <1>1 DEF EmitInitiated, EmitFromHook
<1>2. CASE DrainGet
  BY <1>2 DEF DrainGet
<1>3. CASE DrainRecord
  BY <1>3 DEF DrainRecord
<1>4. CASE ResponseIsError
  BY <1>4 DEF ResponseIsError
<1>5. CASE ResponseRaises
  BY <1>5 DEF ResponseRaises
<1>6. CASE Flush
  BY <1>6 DEF Flush
<1>7. CASE EmitCompleted
  BY <1>7 DEF EmitCompleted, EmitFromHook
<1>8. CASE RemoveTurn
  BY <1>8 DEF RemoveTurn
<1>9. CASE EmitAborted
  BY <1>9 DEF EmitAborted, EmitFromHook
<1>10. CASE Done
  BY <1>10 DEF Done
<1>11. CASE WorkerGet
  BY <1>11 DEF WorkerGet
<1>12. CASE WorkerRecord
  BY <1>12 DEF WorkerRecord
<1>13. CASE Sweep
  BY <1>13 DEF Sweep
<1>14. CASE StopReaper
  BY <1>14 DEF StopReaper
<1>15. ASSUME NEW g \in Flow, RequestHeaders(g) PROVE FlowMove(f)
  BY <1>15 DEF RequestHeaders
<1>16. ASSUME NEW g \in Flow, Request(g) PROVE FlowMove(f)
  BY <1>16 DEF Request
<1>17. ASSUME NEW g \in Flow, ResponseHeadersStream(g) PROVE FlowMove(f)
  <2>1. f \in tapped' => f \in tapped \/ ResponseHeadersStream(f)
    <3>1. CASE g = f
      BY <1>17, <3>1
    <3>2. CASE g # f
      BY <1>17, <3>2 DEF ResponseHeadersStream
    <3> QED
      BY <3>1, <3>2
  <2> QED
    BY <1>17, <2>1 DEF ResponseHeadersStream
<1>18. ASSUME NEW g \in Flow, ResponseHeadersPlain(g) PROVE FlowMove(f)
  BY <1>18 DEF ResponseHeadersPlain
<1>19. ASSUME NEW g \in Flow, StreamChunk(g) PROVE FlowMove(f)
  <2>1. /\ HookFree /\ sent' = [sent EXCEPT ![g] = @ + 1] /\ dropped \subseteq dropped'
        /\ UNCHANGED <<phase, corr, tapped>>
    BY <1>19 DEF StreamChunk, Put
  <2>2. CASE g = f
    <3>1. sent'[f] = sent[f] + 1 /\ sent[f] \in Nat
      BY <2>1, <2>2
    <3> QED
      BY <1>19, <2>1, <2>2, <3>1
  <2>3. CASE g # f
    <3>1. sent'[f] = sent[f] /\ sent[f] \in Nat
      BY <2>1, <2>3
    <3> QED
      BY <2>1, <3>1
  <2> QED
    BY <2>2, <2>3
<1>20. ASSUME NEW g \in Flow, StreamEnd(g) PROVE FlowMove(f)
  BY <1>20 DEF StreamEnd, Put
<1>21. ASSUME NEW g \in Flow, Response(g) PROVE FlowMove(f)
  BY <1>21 DEF Response
<1>22. ASSUME NEW g \in Flow, FlowError(g) PROVE FlowMove(f)
  BY <1>22 DEF FlowError
<1>23. ASSUME NEW g \in Flow, Expire(g) PROVE FlowMove(f)
  BY <1>23 DEF Expire
<1>24. ASSUME NEW g \in Flow, EmitTimeout(g) PROVE FlowMove(f)
  BY <1>24 DEF EmitTimeout
<1>25. CASE UNCHANGED vars
  BY <1>25 DEF vars
<1> QED
  BY <1>1, <1>2, <1>3, <1>4, <1>5, <1>6, <1>7, <1>8, <1>9, <1>10, <1>11, <1>12, <1>13, <1>14,
       <1>15, <1>16, <1>17, <1>18, <1>19, <1>20, <1>21, <1>22, <1>23, <1>24, <1>25
     DEF Next, HookStep, Traffic

\* An id that is a flow's own was so before the step.
LEMMA OwnBefore ==
    ASSUME Base, [Next]_vars, NEW f \in Flow, ~Shared(f)'
    PROVE  ~Shared(f)
<1> SUFFICES ASSUME NEW g \in Flow \ {f}, corr[g] = corr[f], corr[f] # None PROVE FALSE
  BY DEF Shared
<1>1. corr'[g] = corr[g] /\ corr'[f] = corr[f]
  BY FlowMoves DEF Base, Flows, FlowMove
<1> QED
  BY <1>1 DEF Shared

\* Of the flows with an id that is f's own, there is only f.
LEMMA OwnTurn ==
    ASSUME Base, NEW f \in Flow, ~Shared(f)
    PROVE  /\ \A g \in Flow : corr[g] \in Id /\ (corr[g] = corr[f] \/ turns[corr[g]] = f) => g = f
           /\ hook.at # "idle" /\ hook.turn = f => hook.flow = f
  BY DEF Base, Registry, InHook, Shared

\* A hook begins with the turn registered under the id of its flow.
Begins(f) ==
    /\ hook.at = "idle" /\ corr[f] \in Id /\ turns[corr[f]] \in Flow
    /\ hook'.flow = f /\ hook'.turn = turns[corr[f]]
    /\ \/ hook'.at = "initiate" /\ Request(f)
       \/ hook'.at = "drain" /\ Response(f)
       \/ hook'.at = "abort" /\ FlowError(f)

\* How the hook in progress moves.
HookMoves ==
    \/ UNCHANGED hook
    \/ hook.at # "idle" /\ hook'.at = "idle"
    \/ /\ Responding /\ hook.at # "remove" /\ Responding'
       /\ hook'.turn = hook.turn /\ hook'.flow = hook.flow
    \/ \E f \in Flow : Begins(f)
    \/ /\ ResponseIsError /\ hook.at = "drain"
       /\ hook'.at = "abort" /\ hook'.flow = hook.flow
       /\ turns[corr[hook.flow]] \in Flow /\ hook'.turn = turns[corr[hook.flow]]

LEMMA HookStepMoves ==
    ASSUME Base, [Next]_vars
    PROVE  HookMoves
<1> USE DEF HookMoves, Go, Idle, Responding
<1>1. CASE EmitInitiated
  BY <1>1 DEF EmitInitiated
<1>2. CASE DrainGet
  BY <1>2, HookFacts DEF DrainGet, Base, TypeOK, Hooks
<1>3. CASE DrainRecord
  BY <1>3, HookFacts DEF DrainRecord, Base, TypeOK, Hooks
<1>4. CASE ResponseIsError
  <2>1. corr[hook.flow] \in Id /\ turns[corr[hook.flow]] \in Flow \cup {None}
    BY <1>4 DEF ResponseIsError, Drained, Base, InHook, TypeOK
  <2> QED
    BY <1>4, <2>1 DEF ResponseIsError, Drained, Abort
<1>5. CASE ResponseRaises
  BY <1>5 DEF ResponseRaises, Drained
<1>6. CASE Flush
  BY <1>6 DEF Flush, Drained
<1>7. CASE EmitCompleted
  BY <1>7, HookFacts DEF EmitCompleted, Base, TypeOK, Hooks
<1>8. CASE RemoveTurn
  BY <1>8 DEF RemoveTurn
<1>9. CASE EmitAborted
  BY <1>9 DEF EmitAborted
<1>10. CASE Done
  BY <1>10 DEF Done
<1>11. CASE WorkerGet
  BY <1>11 DEF WorkerGet
<1>12. CASE WorkerRecord
  BY <1>12 DEF WorkerRecord
<1>13. CASE Sweep
  BY <1>13 DEF Sweep
<1>14. CASE StopReaper
  BY <1>14 DEF StopReaper
<1>15. ASSUME NEW f \in Flow, RequestHeaders(f) PROVE HookMoves
  BY <1>15 DEF RequestHeaders
<1>16. ASSUME NEW f \in Flow, Request(f) PROVE HookMoves
  <2>1. corr[f] \in Id /\ turns[corr[f]] \in Flow \cup {None} /\ hook.at = "idle"
    BY <1>16 DEF Request, Base, Flows, TypeOK, HookFree
  <2>2. CASE turns[corr[f]] = None
    BY <1>16, <2>2 DEF Request, Abort, HookFree
  <2>3. CASE turns[corr[f]] # None
    <3>1. Begins(f)
      BY <1>16, <2>1, <2>3 DEF Request, Abort, Begins
    <3> QED
      BY <3>1
  <2> QED
    BY <2>2, <2>3
<1>17. ASSUME NEW f \in Flow, ResponseHeadersStream(f) PROVE HookMoves
  BY <1>17 DEF ResponseHeadersStream
<1>18. ASSUME NEW f \in Flow, ResponseHeadersPlain(f) PROVE HookMoves
  BY <1>18 DEF ResponseHeadersPlain
<1>19. ASSUME NEW f \in Flow, StreamChunk(f) PROVE HookMoves
  BY <1>19 DEF StreamChunk
<1>20. ASSUME NEW f \in Flow, StreamEnd(f) PROVE HookMoves
  BY <1>20 DEF StreamEnd
<1>21. ASSUME NEW f \in Flow, Response(f) PROVE HookMoves
  <2>1. corr[f] \in Id /\ turns[corr[f]] \in Flow \cup {None} /\ hook.at = "idle"
    BY <1>21 DEF Response, Base, Flows, TypeOK, HookFree
  <2>2. CASE turns[corr[f]] = None
    BY <1>21, <2>2 DEF Response, Abort, HookFree
  <2>3. CASE turns[corr[f]] # None
    <3>1. Begins(f)
      BY <1>21, <2>1, <2>3 DEF Response, Abort, Begins
    <3> QED
      BY <3>1
  <2> QED
    BY <2>2, <2>3
<1>22. ASSUME NEW f \in Flow, FlowError(f) PROVE HookMoves
  <2>1. corr[f] \in Id /\ turns[corr[f]] \in Flow \cup {None} /\ hook.at = "idle"
    BY <1>22 DEF FlowError, Base, Flows, TypeOK, HookFree
  <2>2. CASE turns[corr[f]] = None
    BY <1>22, <2>2 DEF FlowError, Abort, HookFree
  <2>3. CASE turns[corr[f]] # None
    <3>1. Begins(f)
      BY <1>22, <2>1, <2>3 DEF FlowError, Abort, Begins
    <3> QED
      BY <3>1
  <2> QED
    BY <2>2, <2>3
<1>23. ASSUME NEW f \in Flow, Expire(f) PROVE HookMoves
  BY <1>23 DEF Expire
<1>24. ASSUME NEW f \in Flow, EmitTimeout(f) PROVE HookMoves
  BY <1>24 DEF EmitTimeout
<1>25. CASE UNCHANGED vars
  BY <1>25 DEF vars
<1> QED
  BY <1>1, <1>2, <1>3, <1>4, <1>5, <1>6, <1>7, <1>8, <1>9, <1>10, <1>11, <1>12, <1>13, <1>14,
       <1>15, <1>16, <1>17, <1>18, <1>19, <1>20, <1>21, <1>22, <1>23, <1>24, <1>25
     DEF Next, HookStep, Traffic

\* Who emits an envelope.
LogMoves ==
    \/ UNCHANGED log
    \/ /\ hook.at \in {"initiate", "complete", "abort"}
       /\ hook.turn \in Flow /\ hook.envelope \in Envelopes /\ Emit(hook.turn, hook.envelope)
       /\ hook'.at = IF hook.at = "complete" THEN "remove" ELSE "idle"
       /\ UNCHANGED <<phase, turns, reaping>>
    \/ \E f \in reaping : /\ Emit(f, Failed("TIMEOUT"))
                          /\ UNCHANGED <<phase, turns, hook>>

LEMMA LogStepMoves ==
    ASSUME Base, [Next]_vars
    PROVE  LogMoves
<1> USE DEF LogMoves, Idle, flowVars, trackerVars, streamVars
<1>1. CASE EmitInitiated
  <2>1. hook.turn \in Flow /\ hook.envelope \in Envelopes
    BY <1>1, EnvelopeTypes DEF EmitInitiated, Base, InHook
  <2> QED
    BY <1>1, <2>1 DEF EmitInitiated, EmitFromHook
<1>2. CASE DrainGet
  BY <1>2 DEF DrainGet
<1>3. CASE DrainRecord
  BY <1>3 DEF DrainRecord
<1>4. CASE ResponseIsError
  BY <1>4 DEF ResponseIsError
<1>5. CASE ResponseRaises
  BY <1>5 DEF ResponseRaises
<1>6. CASE Flush
  BY <1>6 DEF Flush
<1>7. CASE EmitCompleted
  <2>1. hook.turn \in Flow /\ hook.envelope \in Envelopes
    BY <1>7, EnvelopeTypes DEF EmitCompleted, Base, InHook
  <2> QED
    BY <1>7, <2>1 DEF EmitCompleted, EmitFromHook, Base, TypeOK, Hooks
<1>8. CASE RemoveTurn
  BY <1>8 DEF RemoveTurn
<1>9. CASE EmitAborted
  <2>1. hook.turn \in Flow /\ hook.envelope \in Envelopes
    BY <1>9, EnvelopeTypes DEF EmitAborted, Base, InHook
  <2> QED
    BY <1>9, <2>1 DEF EmitAborted, EmitFromHook
<1>10. CASE Done
  BY <1>10 DEF Done
<1>11. CASE WorkerGet
  BY <1>11 DEF WorkerGet
<1>12. CASE WorkerRecord
  BY <1>12 DEF WorkerRecord
<1>13. CASE Sweep
  BY <1>13 DEF Sweep
<1>14. CASE StopReaper
  BY <1>14 DEF StopReaper
<1>15. ASSUME NEW f \in Flow, RequestHeaders(f) PROVE LogMoves
  BY <1>15 DEF RequestHeaders
<1>16. ASSUME NEW f \in Flow, Request(f) PROVE LogMoves
  BY <1>16 DEF Request
<1>17. ASSUME NEW f \in Flow, ResponseHeadersStream(f) PROVE LogMoves
  BY <1>17 DEF ResponseHeadersStream
<1>18. ASSUME NEW f \in Flow, ResponseHeadersPlain(f) PROVE LogMoves
  BY <1>18 DEF ResponseHeadersPlain
<1>19. ASSUME NEW f \in Flow, StreamChunk(f) PROVE LogMoves
  BY <1>19 DEF StreamChunk
<1>20. ASSUME NEW f \in Flow, StreamEnd(f) PROVE LogMoves
  BY <1>20 DEF StreamEnd
<1>21. ASSUME NEW f \in Flow, Response(f) PROVE LogMoves
  BY <1>21 DEF Response
<1>22. ASSUME NEW f \in Flow, FlowError(f) PROVE LogMoves
  BY <1>22 DEF FlowError
<1>23. ASSUME NEW f \in Flow, Expire(f) PROVE LogMoves
  BY <1>23 DEF Expire
<1>24. ASSUME NEW f \in Flow, EmitTimeout(f) PROVE LogMoves
  BY <1>24 DEF EmitTimeout
<1>25. CASE UNCHANGED vars
  BY <1>25 DEF vars
<1> QED
  BY <1>1, <1>2, <1>3, <1>4, <1>5, <1>6, <1>7, <1>8, <1>9, <1>10, <1>11, <1>12, <1>13, <1>14,
       <1>15, <1>16, <1>17, <1>18, <1>19, <1>20, <1>21, <1>22, <1>23, <1>24, <1>25
     DEF Next, HookStep, Traffic

\* What a step does to the positions of an event in the log of a flow.
LEMMA PositionsMove ==
    ASSUME Base, [Next]_vars, NEW f \in Flow
    PROVE  \/ /\ \A event : Positions(f, event)' = Positions(f, event)
              /\ log'[f] = log[f]
           \/ \E e \in Envelopes :
                /\ \A event : Positions(f, event)' =
                        IF e.event = event THEN Positions(f, event) \cup {Len(log[f]) + 1}
                                           ELSE Positions(f, event)
                /\ Len(log[f]) \in Nat /\ log'[f][Len(log[f]) + 1] = e
                /\ \A i \in 1..Len(log[f]) : log'[f][i] = log[f][i]
                /\ \/ /\ hook.at \in {"initiate", "complete", "abort"}
                      /\ hook.turn = f /\ e = hook.envelope
                      /\ hook'.at = IF hook.at = "complete" THEN "remove" ELSE "idle"
                      /\ UNCHANGED <<phase, turns, reaping>>
                   \/ /\ f \in reaping /\ e = Failed("TIMEOUT")
                      /\ UNCHANGED <<phase, turns, hook>>
<1>1. CASE UNCHANGED log
  BY <1>1 DEF Positions
<1>2. CASE /\ hook.at \in {"initiate", "complete", "abort"}
           /\ hook.turn \in Flow /\ hook.envelope \in Envelopes /\ Emit(hook.turn, hook.envelope)
           /\ hook'.at = IF hook.at = "complete" THEN "remove" ELSE "idle"
           /\ UNCHANGED <<phase, turns, reaping>>
  <2>1. CASE f = hook.turn
    <3>1. \A event : Positions(f, event)' =
                        IF hook.envelope.event = event
                        THEN Positions(f, event) \cup {Len(log[f]) + 1} ELSE Positions(f, event)
      <4>1. Emit(f, hook.envelope) /\ hook.envelope \in Envelopes /\ TypeOK
        BY <1>2, <2>1 DEF Base
      <4> QED
        BY <4>1, PositionsOfEmit
    <3>2. /\ Len(log[f]) \in Nat /\ log'[f][Len(log[f]) + 1] = hook.envelope
          /\ \A i \in 1..Len(log[f]) : log'[f][i] = log[f][i]
      BY <1>2, <2>1, EmitFacts DEF Base
    <3> QED
      BY <1>2, <2>1, <3>1, <3>2
  <2>2. CASE f # hook.turn
    BY <1>2, <2>2, PositionsOfEmit, EmitFacts DEF Base
  <2> QED
    BY <2>1, <2>2
<1>3. ASSUME NEW g \in reaping, Emit(g, Failed("TIMEOUT")), UNCHANGED <<phase, turns, hook>>
      PROVE  \/ /\ f # g /\ log'[f] = log[f]
                /\ \A event : Positions(f, event)' = Positions(f, event)
             \/ /\ f = g
                /\ \A event : Positions(f, event)' =
                        IF Failed("TIMEOUT").event = event
                        THEN Positions(f, event) \cup {Len(log[f]) + 1} ELSE Positions(f, event)
                /\ Len(log[f]) \in Nat /\ log'[f][Len(log[f]) + 1] = Failed("TIMEOUT")
                /\ \A i \in 1..Len(log[f]) : log'[f][i] = log[f][i]
  <2>1. g \in Flow /\ Failed("TIMEOUT") \in Envelopes
    BY EnvelopeTypes DEF Base, TypeOK
  <2> QED
    BY <1>3, <2>1, PositionsOfEmit, EmitFacts DEF Base
<1> QED
  BY <1>1, <1>2, <1>3, LogStepMoves, EnvelopeTypes DEF LogMoves

\* The request's hook ends in one of two ways; its envelope is emitted by one action.
LEMMA LeavesHeaders ==
    ASSUME Base, [Next]_vars, NEW f \in Flow,
           phase[f] = "headers", phase'[f] \notin {"new", "headers"}
    PROVE  Request(f) \/ FlowError(f)
<1> USE DEF Base, TypeOK, flowVars, trackerVars, streamVars
<1>1. CASE EmitInitiated
  BY <1>1 DEF EmitInitiated, EmitFromHook
<1>2. CASE DrainGet
  BY <1>2 DEF DrainGet
<1>3. CASE DrainRecord
  BY <1>3 DEF DrainRecord
<1>4. CASE ResponseIsError
  BY <1>4 DEF ResponseIsError
<1>5. CASE ResponseRaises
  BY <1>5 DEF ResponseRaises
<1>6. CASE Flush
  BY <1>6 DEF Flush
<1>7. CASE EmitCompleted
  BY <1>7 DEF EmitCompleted, EmitFromHook
<1>8. CASE RemoveTurn
  BY <1>8 DEF RemoveTurn
<1>9. CASE EmitAborted
  BY <1>9 DEF EmitAborted, EmitFromHook
<1>10. CASE Done
  BY <1>10 DEF Done
<1>11. CASE WorkerGet
  BY <1>11 DEF WorkerGet
<1>12. CASE WorkerRecord
  BY <1>12 DEF WorkerRecord
<1>13. CASE Sweep
  BY <1>13 DEF Sweep
<1>14. CASE StopReaper
  BY <1>14 DEF StopReaper
<1>15. ASSUME NEW g \in Flow, RequestHeaders(g) PROVE Request(f) \/ FlowError(f)
  BY <1>15 DEF RequestHeaders
<1>16. ASSUME NEW g \in Flow, Request(g) PROVE Request(f) \/ FlowError(f)
  BY <1>16 DEF Request
<1>17. ASSUME NEW g \in Flow, ResponseHeadersStream(g) PROVE Request(f) \/ FlowError(f)
  BY <1>17 DEF ResponseHeadersStream
<1>18. ASSUME NEW g \in Flow, ResponseHeadersPlain(g) PROVE Request(f) \/ FlowError(f)
  BY <1>18 DEF ResponseHeadersPlain
<1>19. ASSUME NEW g \in Flow, StreamChunk(g) PROVE Request(f) \/ FlowError(f)
  BY <1>19 DEF StreamChunk
<1>20. ASSUME NEW g \in Flow, StreamEnd(g) PROVE Request(f) \/ FlowError(f)
  BY <1>20 DEF StreamEnd
<1>21. ASSUME NEW g \in Flow, Response(g) PROVE Request(f) \/ FlowError(f)
  BY <1>21 DEF Response
<1>22. ASSUME NEW g \in Flow, FlowError(g) PROVE Request(f) \/ FlowError(f)
  BY <1>22 DEF FlowError
<1>23. ASSUME NEW g \in Flow, Expire(g) PROVE Request(f) \/ FlowError(f)
  BY <1>23 DEF Expire
<1>24. ASSUME NEW g \in Flow, EmitTimeout(g) PROVE Request(f) \/ FlowError(f)
  BY <1>24 DEF EmitTimeout
<1>25. CASE UNCHANGED vars
  BY <1>25 DEF vars
<1> QED
  BY <1>1, <1>2, <1>3, <1>4, <1>5, <1>6, <1>7, <1>8, <1>9, <1>10, <1>11, <1>12, <1>13, <1>14,
       <1>15, <1>16, <1>17, <1>18, <1>19, <1>20, <1>21, <1>22, <1>23, <1>24, <1>25
     DEF Next, HookStep, Traffic

LEMMA LeavesInitiate ==
    ASSUME Base, hook.at = "initiate", hook' # hook, [Next]_vars
    PROVE  EmitInitiated
<1> USE DEF HookFree, Idle, Drained, flowVars, trackerVars, streamVars
<1>1. CASE EmitInitiated
  BY <1>1 DEF EmitInitiated
<1>2. CASE DrainGet
  BY <1>2 DEF DrainGet
<1>3. CASE DrainRecord
  BY <1>3 DEF DrainRecord
<1>4. CASE ResponseIsError
  BY <1>4 DEF ResponseIsError
<1>5. CASE ResponseRaises
  BY <1>5 DEF ResponseRaises
<1>6. CASE Flush
  BY <1>6 DEF Flush
<1>7. CASE EmitCompleted
  BY <1>7 DEF EmitCompleted
<1>8. CASE RemoveTurn
  BY <1>8 DEF RemoveTurn
<1>9. CASE EmitAborted
  BY <1>9 DEF EmitAborted
<1>10. CASE Done
  BY <1>10 DEF Done
<1>11. CASE WorkerGet
  BY <1>11 DEF WorkerGet
<1>12. CASE WorkerRecord
  BY <1>12 DEF WorkerRecord
<1>13. CASE Sweep
  BY <1>13 DEF Sweep
<1>14. CASE StopReaper
  BY <1>14 DEF StopReaper
<1>15. ASSUME NEW f \in Flow, RequestHeaders(f) PROVE EmitInitiated
  BY <1>15 DEF RequestHeaders
<1>16. ASSUME NEW f \in Flow, Request(f) PROVE EmitInitiated
  BY <1>16 DEF Request
<1>17. ASSUME NEW f \in Flow, ResponseHeadersStream(f) PROVE EmitInitiated
  BY <1>17 DEF ResponseHeadersStream
<1>18. ASSUME NEW f \in Flow, ResponseHeadersPlain(f) PROVE EmitInitiated
  BY <1>18 DEF ResponseHeadersPlain
<1>19. ASSUME NEW f \in Flow, StreamChunk(f) PROVE EmitInitiated
  BY <1>19 DEF StreamChunk
<1>20. ASSUME NEW f \in Flow, StreamEnd(f) PROVE EmitInitiated
  BY <1>20 DEF StreamEnd
<1>21. ASSUME NEW f \in Flow, Response(f) PROVE EmitInitiated
  BY <1>21 DEF Response
<1>22. ASSUME NEW f \in Flow, FlowError(f) PROVE EmitInitiated
  BY <1>22 DEF FlowError
<1>23. ASSUME NEW f \in Flow, Expire(f) PROVE EmitInitiated
  BY <1>23 DEF Expire
<1>24. ASSUME NEW f \in Flow, EmitTimeout(f) PROVE EmitInitiated
  BY <1>24 DEF EmitTimeout
<1>25. CASE UNCHANGED vars
  BY <1>25 DEF vars
<1> QED
  BY <1>1, <1>2, <1>3, <1>4, <1>5, <1>6, <1>7, <1>8, <1>9, <1>10, <1>11, <1>12, <1>13, <1>14,
       <1>15, <1>16, <1>17, <1>18, <1>19, <1>20, <1>21, <1>22, <1>23, <1>24, <1>25
     DEF Next, HookStep, Traffic

\* A response hook begins with a turn that the request's hook has initiated.
LEMMA InitiatedFirstNext ==
    ASSUME Base, InitiatedFirst, [Next]_vars
    PROVE  InitiatedFirst'
<1> SUFFICES ASSUME NEW f \in Flow, ~Shared(f)'
             PROVE  /\ Registered(f)' /\ phase'[f] \notin {"new", "headers"} =>
                        Has(f, "REQUEST_INITIATED")' \/ (hook'.at = "initiate" /\ hook'.turn = f)
                    /\ Responding' /\ hook'.turn = f => Has(f, "REQUEST_INITIATED")'
  BY DEF InitiatedFirst
<1>1. /\ Registered(f) /\ phase[f] \notin {"new", "headers"} =>
            Has(f, "REQUEST_INITIATED") \/ (hook.at = "initiate" /\ hook.turn = f)
      /\ Responding /\ hook.turn = f => Has(f, "REQUEST_INITIATED")
      /\ \A g \in Flow : corr[g] \in Id /\ (corr[g] = corr[f] \/ turns[corr[g]] = f) => g = f
  BY OwnBefore, OwnTurn DEF InitiatedFirst
<1>2. Has(f, "REQUEST_INITIATED") => Has(f, "REQUEST_INITIATED")'
  BY PositionsMove DEF Has
<1>3. ASSUME Registered(f)', phase'[f] \notin {"new", "headers"}
      PROVE  Has(f, "REQUEST_INITIATED")' \/ (hook'.at = "initiate" /\ hook'.turn = f)
  <2>1. Registered(f)
    <3>1. CASE RequestHeaders(f)
      BY <1>3, <3>1 DEF RequestHeaders, Base, TypeOK
    <3> QED
      BY <1>3, <3>1, RegisteredOnce
  <2>2. CASE phase[f] = "headers"
    <3>1. turns[corr[f]] = f /\ corr[f] \in Id
      BY <2>1, OwnId
    <3>2. ~FlowError(f)
      <4> SUFFICES ASSUME FlowError(f) PROVE FALSE
        OBVIOUS
      <4>1. ~Registered(f)'
        BY <3>1, OwnId DEF FlowError, Abort, Registered, Base, TypeOK
      <4> QED
        BY <1>3, <4>1
    <3>3. Request(f)
      BY <1>3, <2>2, <3>2, LeavesHeaders
    <3> QED
      BY <3>1, <3>3 DEF Request, Go, Base, TypeOK
  <2>3. phase[f] # "new"
    BY <2>1, OwnId DEF Base, Flows
  <2>4. CASE hook.at = "initiate" /\ hook.turn = f
    <3>1. CASE UNCHANGED hook
      BY <2>4, <3>1
    <3>2. CASE hook' # hook
      <4>1. EmitInitiated
        BY <2>4, <3>2, LeavesInitiate
      <4>2. Len(log[f]) + 1 \in Positions(f, "REQUEST_INITIATED")'
        BY <2>4, <4>1, PositionsOfEmit, EnvelopeTypes
           DEF EmitInitiated, EmitFromHook, Base, InHook, Initiated
      <4> QED
        BY <4>2 DEF Has
    <3> QED
      BY <3>1, <3>2
  <2> QED
    BY <1>1, <1>2, <2>1, <2>2, <2>3, <2>4
<1>4. ASSUME Responding', hook'.turn = f
      PROVE  Has(f, "REQUEST_INITIATED")'
  <2>1. CASE \E g \in Flow : Begins(g)
    <3>1. PICK g \in Flow : Begins(g)
      BY <2>1
    <3>2. g = f /\ turns[corr[f]] = f /\ corr[f] \in Id /\ hook.at = "idle" /\ Response(g)
      BY <1>1, <1>4, <3>1 DEF Begins, Responding
    <3>3. Registered(f) /\ phase[f] = "ended"
      BY <3>2 DEF Registered, Response
    <3> QED
      BY <1>1, <1>2, <3>2, <3>3
  <2> QED
    BY <1>1, <1>2, <1>4, <2>1, HookStepMoves DEF HookMoves, Responding
<1> QED
  BY <1>3, <1>4

\* Of the hooks of a flow, one ends its turn.
LEMMA EndsOneWayNext ==
    ASSUME Base, Ends, EndsOneWay, [Next]_vars
    PROVE  EndsOneWay'
<1> SUFFICES ASSUME NEW f \in Flow, ~Shared(f)'
             PROVE  /\ Has(f, "TURN_COMPLETED")' =>
                        phase'[f] = "done" /\ ~(hook'.at = "abort" /\ hook'.turn = f)
                    /\ \A e \in Positions(f, "TURN_ERROR")' : log'[f][e].status # "TIMEOUT" =>
                        /\ phase'[f] = "done" /\ ~Has(f, "TURN_COMPLETED")'
                        /\ ~(Responding' /\ hook'.turn = f)
  BY DEF EndsOneWay
<1>1. /\ Has(f, "TURN_COMPLETED") => phase[f] = "done" /\ ~(hook.at = "abort" /\ hook.turn = f)
      /\ \A e \in Positions(f, "TURN_ERROR") : log[f][e].status # "TIMEOUT" =>
            phase[f] = "done" /\ ~Has(f, "TURN_COMPLETED") /\ ~(Responding /\ hook.turn = f)
  BY OwnBefore DEF EndsOneWay
<1>2. /\ \A g \in Flow : corr[g] \in Id /\ (corr[g] = corr[f] \/ turns[corr[g]] = f) => g = f
      /\ hook.at # "idle" /\ hook.turn = f => hook.flow = f
  BY OwnBefore, OwnTurn
<1>3. phase[f] = "done" => phase'[f] = "done"
  BY FlowMoves DEF FlowMove
<1>4. hook.at \in {"complete", "abort"} /\ hook.turn = f => phase[f] = "done"
  BY <1>2 DEF Base, InHook
<1>5. ASSUME Has(f, "TURN_COMPLETED")'
      PROVE  Has(f, "TURN_COMPLETED") \/ (hook.at = "complete" /\ hook.turn = f)
  BY <1>5, PositionsMove DEF Has, Base, InHook, Failed, Initiated
<1>6. ASSUME phase[f] = "done", hook'.at # "idle", hook'.turn = f
      PROVE  /\ hook.at # "idle" /\ hook.turn = f
             /\ \/ hook' = hook
                \/ Responding /\ Responding'
                \/ hook.at = "drain" /\ hook'.at = "abort"
  <2>1. ASSUME NEW g \in Flow, Begins(g) PROVE FALSE
    <3>1. g = f
      BY <1>2, <1>6, <2>1 DEF Begins
    <3> QED
      BY <1>6, <2>1, <3>1 DEF Begins, Request, Response, FlowError
  <2>2. CASE hook.at = "drain" /\ hook'.at = "abort" /\ turns[corr[hook.flow]] = f
    <3>1. hook.turn = f
      BY <1>2, <2>2 DEF Base, InHook
    <3> QED
      BY <2>2, <3>1
  <2> QED
    BY <1>6, <2>1, <2>2, HookStepMoves DEF HookMoves, Responding
<1>7. ASSUME Has(f, "TURN_COMPLETED")'
      PROVE  phase'[f] = "done" /\ ~(hook'.at = "abort" /\ hook'.turn = f)
  <2>1. phase[f] = "done"
    BY <1>1, <1>4, <1>5, <1>7
  <2>2. CASE hook'.at = "abort" /\ hook'.turn = f
    <3>1. hook.at = "drain" /\ hook.turn = f
      BY <1>1, <1>5, <1>6, <1>7, <2>1, <2>2 DEF Responding
    <3> QED
      BY <1>5, <1>7, <3>1 DEF Ends, Completing
  <2> QED
    BY <1>3, <2>1, <2>2
<1>8. ASSUME NEW e \in Positions(f, "TURN_ERROR")', log'[f][e].status # "TIMEOUT"
      PROVE  phase'[f] = "done" /\ ~Has(f, "TURN_COMPLETED")' /\ ~(Responding' /\ hook'.turn = f)
  <2>1. CASE e \in Positions(f, "TURN_ERROR")
    <3>1. log'[f][e] = log[f][e]
      BY <2>1, PositionsMove DEF Positions
    <3>2. phase[f] = "done" /\ ~Has(f, "TURN_COMPLETED") /\ ~(Responding /\ hook.turn = f)
      BY <1>1, <1>8, <2>1, <3>1
    <3>3. ~Has(f, "TURN_COMPLETED")'
      BY <1>5, <3>2 DEF Responding
    <3>4. ~(Responding' /\ hook'.turn = f)
      BY <1>6, <3>2 DEF Responding
    <3> QED
      BY <1>3, <3>2, <3>3, <3>4
  <2>2. CASE e \notin Positions(f, "TURN_ERROR")
    <3>1. hook.at = "abort" /\ hook.turn = f /\ hook'.at = "idle"
      BY <1>8, <2>2, PositionsMove DEF Base, InHook, Failed, Initiated
    <3> QED
      BY <1>1, <1>3, <1>4, <1>5, <3>1 DEF Responding
  <2> QED
    BY <2>1, <2>2
<1> QED
  BY <1>7, <1>8

\* With both, a new completion comes after the request and has no rival but the reaper.
LEMMA CompletionNext ==
    ASSUME Base, InitiatedFirst, EndsOneWay, CompletionIsInitiated, [Next]_vars
    PROVE  CompletionIsInitiated'
<1> SUFFICES ASSUME NEW f \in Flow, ~Shared(f)', NEW c \in Positions(f, "TURN_COMPLETED")'
             PROVE  /\ \E i \in Positions(f, "REQUEST_INITIATED")' : i < c
                    /\ \A e \in Positions(f, "TURN_ERROR")' : log'[f][e].status = "TIMEOUT"
  BY DEF CompletionIsInitiated
<1>1. ~Shared(f)
  BY OwnBefore
<1>2. \A event : Positions(f, event) \subseteq Positions(f, event)'
  BY PositionsMove
<1>3. \A e \in Positions(f, "TURN_ERROR") : log'[f][e] = log[f][e]
  BY PositionsMove DEF Positions
<1>4. \A e \in Positions(f, "TURN_ERROR")' :
        \/ e \in Positions(f, "TURN_ERROR")
        \/ log'[f][e].status = "TIMEOUT"
        \/ /\ hook.at = "abort" /\ hook.turn = f
           /\ Positions(f, "TURN_COMPLETED")' = Positions(f, "TURN_COMPLETED")
  BY PositionsMove DEF Base, InHook, Failed, Initiated
<1>5. CASE c \in Positions(f, "TURN_COMPLETED")
  <2>1. Has(f, "TURN_COMPLETED")
    BY <1>5 DEF Has
  <2> QED
    BY <1>1, <1>2, <1>3, <1>4, <1>5, <2>1 DEF CompletionIsInitiated, EndsOneWay
<1>6. CASE c \notin Positions(f, "TURN_COMPLETED")
  <2>1. /\ hook.at = "complete" /\ hook.turn = f /\ c = Len(log[f]) + 1 /\ Len(log[f]) \in Nat
        /\ Positions(f, "TURN_ERROR")' = Positions(f, "TURN_ERROR")
    BY <1>6, PositionsMove DEF Base, InHook, Failed, Initiated
  <2>2. Has(f, "REQUEST_INITIATED")
    BY <1>1, <2>1 DEF InitiatedFirst, Responding
  <2>3. PICK i \in Positions(f, "REQUEST_INITIATED") : TRUE
    BY <2>2 DEF Has
  <2>4. i < c
    BY <2>1 DEF Positions
  <2>5. \A e \in Positions(f, "TURN_ERROR") : log[f][e].status = "TIMEOUT"
    BY <1>1, <2>1 DEF EndsOneWay, Responding
  <2> QED
    BY <1>2, <1>3, <2>1, <2>4, <2>5
<1> QED
  BY <1>5, <1>6

LEMMA AloneNext ==
    ASSUME Base, Ends, Alone, [Next]_vars
    PROVE  Alone'
  BY InitiatedFirstNext, EndsOneWayNext, CompletionNext DEF Alone

-----------------------------------------------------------------------------
(* The chunks of a streamed response. *)

\* Taking the head off the queue, and putting a chunk at its end.
LEMMA QueueGet ==
    ASSUME TypeOK, OnePlace, chunk_queue # <<>>, chunk_queue' = Tail(chunk_queue)
    PROVE  /\ \A c : Queued(c) <=> Queued(c)' \/ c = Head(chunk_queue)
           /\ \A c : c = Head(chunk_queue) => ~Queued(c)'
           /\ \A i, j \in 1..Len(chunk_queue') : chunk_queue'[i] = chunk_queue'[j] => i = j
<1> DEFINE n == Len(chunk_queue)
<1>1. /\ n \in Nat \ {0} /\ Head(chunk_queue) = chunk_queue[1] /\ Len(chunk_queue') = n - 1
      /\ \A i \in 1..(n - 1) : chunk_queue'[i] = chunk_queue[i + 1]
      /\ \A i, j \in 1..n : chunk_queue[i] = chunk_queue[j] => i = j
  BY GetFacts DEF OnePlace
<1> HIDE DEF n
<1>2. ASSUME NEW c, Queued(c)' PROVE Queued(c) /\ c # Head(chunk_queue)
  <2>1. PICK i \in 1..(n - 1) : chunk_queue'[i] = c
    BY <1>1, <1>2 DEF Queued
  <2>2. i + 1 \in 1..n /\ i + 1 # 1 /\ chunk_queue[i + 1] = c /\ 1 \in 1..n
    BY <1>1, <2>1
  <2> QED
    BY <1>1, <2>2 DEF Queued, n
<1>3. ASSUME NEW c, Queued(c), c # Head(chunk_queue) PROVE Queued(c)'
  <2>1. PICK i \in 1..n : chunk_queue[i] = c
    BY <1>3 DEF Queued, n
  <2>2. i - 1 \in 1..(n - 1) /\ (i - 1) + 1 = i
    BY <1>1, <1>3, <2>1
  <2>3. chunk_queue'[i - 1] = c
    BY <1>1, <2>1, <2>2
  <2> QED
    BY <1>1, <2>2, <2>3 DEF Queued
<1>4. Queued(Head(chunk_queue))
  BY <1>1 DEF Queued, n
<1>5. ASSUME NEW i \in 1..(n - 1), NEW j \in 1..(n - 1), chunk_queue'[i] = chunk_queue'[j]
      PROVE  i = j
  <2>1. i + 1 \in 1..n /\ j + 1 \in 1..n /\ chunk_queue[i + 1] = chunk_queue[j + 1]
    BY <1>1, <1>5
  <2>2. i + 1 = j + 1
    BY <1>1, <2>1
  <2> QED
    BY <1>1, <2>2
<1> QED
  BY <1>1, <1>2, <1>3, <1>4, <1>5

LEMMA QueuePut ==
    ASSUME TypeOK, OnePlace, NEW c \in Chunks, Put(c), ~Queued(c)
    PROVE  /\ \A x : Queued(x) => Queued(x)'
           /\ \A x : Queued(x)' => Queued(x) \/ x = c
           /\ Queued(c)' \/ c \in dropped'
           /\ \A i, j \in 1..Len(chunk_queue') : chunk_queue'[i] = chunk_queue'[j] => i = j
<1> DEFINE n == Len(chunk_queue)
<1>0. n \in Nat
  BY DEF TypeOK
<1>1. n \in Nat /\ \A i, j \in 1..n : chunk_queue[i] = chunk_queue[j] => i = j
  BY <1>0 DEF OnePlace
<1>2. CASE /\ Len(chunk_queue') = n + 1
           /\ \A i \in 1..n : chunk_queue'[i] = chunk_queue[i]
           /\ chunk_queue'[n + 1] = c
  <2>1. n + 1 \in 1..(n + 1) /\ \A i \in 1..(n + 1) : i \in 1..n \/ i = n + 1
    BY <1>1
  <2>2. \A i \in 1..n : chunk_queue'[i] # c
    BY <1>2 DEF Queued
  <2> QED
    BY <1>1, <1>2, <2>1, <2>2 DEF Queued
<1>3. CASE chunk_queue' = chunk_queue /\ dropped' = dropped \cup {c}
  BY <1>1, <1>3 DEF Queued
<1> QED
  BY <1>2, <1>3, PutFacts

\* What a tap has seen it has seen.
LEMMA SeenStays ==
    ASSUME Base, [Next]_vars, NEW c \in Chunks, Seen(c), corr[c.flow] \in Id
    PROVE  Seen(c)' /\ corr'[c.flow] \in Id
<1>1. c.flow \in Flow /\ c.n \in 0..MaxChunks /\ phase[c.flow] # "new"
  BY DEF Chunks, Base, Flows
<1>2. sent[c.flow] \in Nat /\ sent'[c.flow] \in Nat
  BY <1>1, TypeNext DEF Base, TypeOK
<1>3. FlowMove(c.flow)
  BY <1>1, FlowMoves
<1> QED
  BY <1>1, <1>2, <1>3 DEF Seen, FlowMove

\* What a step does to the chunks.
Still ==
    /\ UNCHANGED <<chunk_queue, worker>>
    /\ hook.at = "record" \/ hook'.at = "record" => UNCHANGED hook
    /\ UNCHANGED accumulator \/ \E f \in Flow : ResponseHeadersStream(f)

New(c) ==
    /\ ~Seen(c) /\ Seen(c)' /\ corr[c.flow] \in Id /\ corr'[c.flow] \in Id
    /\ Put(c) /\ UNCHANGED <<worker, hook, accumulator>>

ChunkMoves ==
    Still \/ (\E c \in Chunks : New(c)) \/ DrainGet \/ WorkerGet \/ DrainRecord \/ WorkerRecord

LEMMA ChunkStepMoves ==
    ASSUME Base, [Next]_vars
    PROVE  ChunkMoves
<1> USE DEF Base, TypeOK, flowVars, trackerVars, streamVars
<1>1. CASE EmitInitiated
  BY <1>1 DEF EmitInitiated, ChunkMoves, Still, EmitFromHook, Go, Idle, Drained, HookFree,
       Abort
<1>2. CASE DrainGet
  BY <1>2 DEF ChunkMoves
<1>3. CASE DrainRecord
  BY <1>3 DEF ChunkMoves
<1>4. CASE ResponseIsError
  BY <1>4 DEF ResponseIsError, ChunkMoves, Still, EmitFromHook, Go, Idle, Drained, HookFree,
       Abort
<1>5. CASE ResponseRaises
  BY <1>5 DEF ResponseRaises, ChunkMoves, Still, EmitFromHook, Go, Idle, Drained, HookFree,
       Abort
<1>6. CASE Flush
  BY <1>6 DEF Flush, ChunkMoves, Still, EmitFromHook, Go, Idle, Drained, HookFree, Abort
<1>7. CASE EmitCompleted
  BY <1>7, HookFacts DEF EmitCompleted, ChunkMoves, Still, EmitFromHook, Go, Idle, Drained,
       HookFree, Abort, Hooks
<1>8. CASE RemoveTurn
  BY <1>8 DEF RemoveTurn, ChunkMoves, Still, EmitFromHook, Go, Idle, Drained, HookFree, Abort
<1>9. CASE EmitAborted
  BY <1>9 DEF EmitAborted, ChunkMoves, Still, EmitFromHook, Go, Idle, Drained, HookFree, Abort
<1>10. CASE Done
  BY <1>10 DEF Done, ChunkMoves, Still, EmitFromHook, Go, Idle, Drained, HookFree, Abort
<1>11. CASE WorkerGet
  BY <1>11 DEF ChunkMoves
<1>12. CASE WorkerRecord
  BY <1>12 DEF ChunkMoves
<1>13. CASE Sweep
  BY <1>13 DEF Sweep, ChunkMoves, Still, EmitFromHook, Go, Idle, Drained, HookFree, Abort
<1>14. CASE StopReaper
  BY <1>14 DEF StopReaper, ChunkMoves, Still, EmitFromHook, Go, Idle, Drained, HookFree, Abort
<1>15. ASSUME NEW f \in Flow, RequestHeaders(f) PROVE ChunkMoves
  BY <1>15 DEF RequestHeaders, ChunkMoves, Still, EmitFromHook, Go, Idle, Drained, HookFree,
       Abort
<1>16. ASSUME NEW f \in Flow, Request(f) PROVE ChunkMoves
  BY <1>16 DEF Request, ChunkMoves, Still, EmitFromHook, Go, Idle, Drained, HookFree, Abort
<1>17. ASSUME NEW f \in Flow, ResponseHeadersStream(f) PROVE ChunkMoves
  <2>1. Still
    BY <1>17 DEF ResponseHeadersStream, Still
  <2> QED
    BY <2>1 DEF ChunkMoves
<1>18. ASSUME NEW f \in Flow, ResponseHeadersPlain(f) PROVE ChunkMoves
  BY <1>18 DEF ResponseHeadersPlain, ChunkMoves, Still, EmitFromHook, Go, Idle, Drained,
       HookFree, Abort
<1>19. ASSUME NEW f \in Flow, StreamChunk(f) PROVE ChunkMoves
  <2>1. sent[f] \in Nat /\ sent[f] + 1 \in 1..MaxChunks
    BY <1>19, RoomForChunk DEF StreamChunk
  <2>2. [flow |-> f, n |-> sent[f] + 1] \in Chunks
    BY <2>1 DEF Chunks
  <2>3. PICK c \in Chunks : c = [flow |-> f, n |-> sent[f] + 1]
    BY <2>2
  <2>4. c.flow = f /\ c.n = sent[f] + 1 /\ c.n # Eof
    BY <2>1, <2>3 DEF Eof
  <2>5. /\ Put(c) /\ UNCHANGED <<corr, worker, hook, accumulator>>
        /\ sent' = [sent EXCEPT ![f] = @ + 1] /\ corr[f] \in Id
    BY <1>19, <2>3 DEF StreamChunk, Flows
  <2>6. ~Seen(c)
    BY <2>1, <2>4 DEF Seen
  <2>7. c.n = sent'[c.flow] /\ c.n \in Nat
    BY <2>1, <2>4, <2>5
  <2>8. Seen(c)'
    BY <2>4, <2>7 DEF Seen
  <2>9. New(c)
    BY <2>4, <2>5, <2>6, <2>8 DEF New
  <2> QED
    BY <2>9 DEF ChunkMoves
<1>20. ASSUME NEW f \in Flow, StreamEnd(f) PROVE ChunkMoves
  <2> DEFINE c == [flow |-> f, n |-> Eof]
  <2>1. CASE f \in tapped
    <3>1. c \in Chunks /\ c.flow = f /\ c.n = Eof
      BY DEF Chunks, Eof
    <3>2. /\ Put(c) /\ UNCHANGED <<corr, worker, hook, accumulator>>
          /\ phase[f] = "answering" /\ phase'[f] = "ended" /\ corr[f] \in Id
      BY <1>20, <2>1 DEF StreamEnd, Flows
    <3> HIDE DEF c
    <3>3. New(c)
      BY <3>1, <3>2 DEF New, Seen
    <3> QED
      BY <3>1, <3>3 DEF ChunkMoves
  <2>2. CASE f \notin tapped
    BY <1>20, <2>2 DEF StreamEnd, Still, ChunkMoves
  <2> QED
    BY <2>1, <2>2
<1>21. ASSUME NEW f \in Flow, Response(f) PROVE ChunkMoves
  BY <1>21 DEF Response, ChunkMoves, Still, EmitFromHook, Go, Idle, Drained, HookFree, Abort
<1>22. ASSUME NEW f \in Flow, FlowError(f) PROVE ChunkMoves
  BY <1>22 DEF FlowError, ChunkMoves, Still, EmitFromHook, Go, Idle, Drained, HookFree, Abort
<1>23. ASSUME NEW f \in Flow, Expire(f) PROVE ChunkMoves
  BY <1>23 DEF Expire, ChunkMoves, Still, EmitFromHook, Go, Idle, Drained, HookFree, Abort
<1>24. ASSUME NEW f \in Flow, EmitTimeout(f) PROVE ChunkMoves
  BY <1>24 DEF EmitTimeout, ChunkMoves, Still, EmitFromHook, Go, Idle, Drained, HookFree,
       Abort
<1>25. CASE UNCHANGED vars
  BY <1>25 DEF vars, ChunkMoves, Still
<1> QED
  BY <1>1, <1>2, <1>3, <1>4, <1>5, <1>6, <1>7, <1>8, <1>9, <1>10, <1>11, <1>12, <1>13, <1>14,
       <1>15, <1>16, <1>17, <1>18, <1>19, <1>20, <1>21, <1>22, <1>23, <1>24, <1>25
     DEF Next, HookStep, Traffic

\* The chunk goes to the turn registered under the id of its flow.
Records(c) == \/ DrainRecord /\ hook.chunk = c
              \/ WorkerRecord /\ worker = c

\* How the queue, the worker and the hook hand a chunk on.
TakeFacts ==
    /\ DrainRecord => /\ hook.at = "record" /\ hook'.at = "drain"
                      /\ UNCHANGED <<chunk_queue, worker>>
    /\ WorkerRecord => worker # None /\ worker' = None /\ UNCHANGED <<chunk_queue, hook>>
    /\ DrainGet => /\ hook.at = "drain" /\ hook'.at = "record" /\ hook'.chunk = Head(chunk_queue)
                   /\ chunk_queue # <<>> /\ chunk_queue' = Tail(chunk_queue) /\ UNCHANGED worker
    /\ WorkerGet => /\ worker = None /\ worker' = Head(chunk_queue) /\ UNCHANGED hook
                    /\ chunk_queue # <<>> /\ chunk_queue' = Tail(chunk_queue)
    /\ chunk_queue # <<>> => Head(chunk_queue) \in Chunks /\ Queued(Head(chunk_queue))

LEMMA TakeSteps == TypeOK => TakeFacts
<1> SUFFICES ASSUME TypeOK PROVE TakeFacts
  OBVIOUS
<1>1. chunk_queue # <<>> => Head(chunk_queue) \in Chunks /\ Queued(Head(chunk_queue))
  <2> SUFFICES ASSUME chunk_queue # <<>>
               PROVE  Head(chunk_queue) \in Chunks /\ Queued(Head(chunk_queue))
    OBVIOUS
  <2>1. chunk_queue \in Seq(Chunks)
    BY DEF TypeOK
  <2> QED
    BY <2>1 DEF Queued
<1> QED
  BY <1>1, HookFacts
     DEF TakeFacts, DrainGet, WorkerGet, DrainRecord, WorkerRecord, TypeOK, Hooks,
                         streamVars

\* A chunk goes from the queue to one recorder, which takes it off its way.
LEMMA UnderwayMoves ==
    ASSUME Base, OnePlace, [Next]_vars
    PROVE  /\ OnePlace'
           /\ \A c \in Chunks : Underway(c)' => Underway(c) \/ New(c)
           /\ \A c \in Chunks : Underway(c) => Underway(c)' \/ Records(c)
           /\ \A c \in Chunks : Records(c) => Underway(c) /\ ~Underway(c)'
           /\ \A c \in Chunks : New(c) => Underway(c)' \/ c \in dropped'
<1> DEFINE Goal == /\ OnePlace'
                   /\ \A c \in Chunks : Underway(c)' => Underway(c) \/ New(c)
                   /\ \A c \in Chunks : Underway(c) => Underway(c)' \/ Records(c)
                   /\ \A c \in Chunks : Records(c) => Underway(c) /\ ~Underway(c)'
                   /\ \A c \in Chunks : New(c) => Underway(c)' \/ c \in dropped'
<1>a. \A c \in Chunks : Seen(c) /\ corr[c.flow] \in Id => Seen(c)' /\ corr'[c.flow] \in Id
  BY SeenStays
<1>b. /\ hook.at = "record" => hook.chunk \in Chunks
      /\ worker # None => worker \in Chunks
      /\ None \notin Chunks
  BY NoneIsNoData DEF Base, InHook, TypeOK
<1>c. \A c \in Chunks : New(c) => Underway(c)' \/ c \in dropped'
  <2> SUFFICES ASSUME NEW c \in Chunks, New(c) PROVE Queued(c)' \/ c \in dropped'
    BY DEF Underway
  <2>1. ~Queued(c)
    BY DEF OnePlace, New, Underway
  <2> QED
    BY <2>1, QueuePut DEF Base, New
<1>d. TakeFacts
  BY TakeSteps DEF Base
<1>1. CASE Still
  <2>1. \A c : Queued(c)' <=> Queued(c)
    BY <1>1 DEF Still, Queued
  <2>2. \A c \in Chunks : Recording(c)' <=> Recording(c)
    BY <1>1 DEF Still, Recording
  <2>3. \A c \in Chunks : ~Records(c)
    BY <1>1, <1>b, <1>d DEF TakeFacts, Still, Records
  <2>4. OnePlace'
    BY <1>a, <1>b, <1>1, <2>1, <2>2 DEF OnePlace, Underway, Still
  <2> QED
    BY <1>1, <1>c, <2>1, <2>2, <2>3, <2>4 DEF Underway, Still
<1>2. ASSUME NEW c \in Chunks, New(c) PROVE Goal
  <2>1. ~Underway(c)
    BY <1>2 DEF OnePlace, New
  <2>2. /\ \A x : Queued(x) => Queued(x)'
        /\ \A x : Queued(x)' => Queued(x) \/ x = c
        /\ \A i, j \in 1..Len(chunk_queue') : chunk_queue'[i] = chunk_queue'[j] => i = j
    BY <1>2, <2>1, QueuePut DEF Base, New, Underway
  <2>3. UNCHANGED <<worker, hook>> /\ Seen(c)' /\ corr'[c.flow] \in Id
    BY <1>2 DEF New
  <2>4. \A x : Recording(x)' <=> Recording(x)
    BY <2>3 DEF Recording
  <2>5. \A x \in Chunks : ~Records(x)
    BY <1>b, <1>d, <2>3 DEF TakeFacts, Records
  <2>6. OnePlace'
    BY <1>a, <1>b, <2>1, <2>2, <2>3, <2>4 DEF OnePlace, Underway, Recording
  <2> QED
    BY <1>c, <2>2, <2>3, <2>4, <2>5, <2>6, <1>2 DEF Underway
<1>3. CASE DrainGet
  <2>1. /\ \A x : Queued(x) <=> Queued(x)' \/ x = Head(chunk_queue)
        /\ \A x : x = Head(chunk_queue) => ~Queued(x)'
        /\ \A i, j \in 1..Len(chunk_queue') : chunk_queue'[i] = chunk_queue'[j] => i = j
    BY <1>3, <1>d, QueueGet DEF TakeFacts, Base
  <2>2. \A x : ~Recording(x) /\ (Recording(x)' <=> x = Head(chunk_queue))
    BY <1>3, <1>d DEF TakeFacts, Recording
  <2>3. \A x \in Chunks : ~Records(x) /\ (Underway(x)' <=> Underway(x))
    BY <1>3, <1>b, <1>d, <2>1, <2>2 DEF TakeFacts, Records, Underway
  <2>4. OnePlace'
    BY <1>3, <1>a, <1>b, <1>d, <2>1, <2>2, <2>3 DEF TakeFacts, OnePlace
  <2> QED
    BY <1>c, <2>3, <2>4
<1>4. CASE WorkerGet
  <2>1. /\ \A x : Queued(x) <=> Queued(x)' \/ x = Head(chunk_queue)
        /\ \A x : x = Head(chunk_queue) => ~Queued(x)'
        /\ \A i, j \in 1..Len(chunk_queue') : chunk_queue'[i] = chunk_queue'[j] => i = j
    BY <1>4, <1>d, QueueGet DEF TakeFacts, Base
  <2>2. \A x : Recording(x)' <=> Recording(x)
    BY <1>4, <1>d DEF TakeFacts, Recording
  <2>3. \A x \in Chunks : ~Records(x) /\ (Underway(x)' <=> Underway(x))
    BY <1>4, <1>b, <1>d, <2>1, <2>2 DEF TakeFacts, Records, Underway
  <2>4. OnePlace'
    BY <1>4, <1>a, <1>b, <1>d, <2>1, <2>2, <2>3 DEF TakeFacts, OnePlace, Recording
  <2> QED
    BY <1>c, <2>3, <2>4
<1>5. CASE DrainRecord
  <2>1. \A x : (Queued(x)' <=> Queued(x)) /\ ~Recording(x)'
    BY <1>5, <1>d DEF TakeFacts, Queued, Recording
  <2>2. OnePlace'
    BY <1>5, <1>a, <1>b, <1>d, <2>1 DEF TakeFacts, OnePlace, Underway
  <2>3. \A x \in Chunks : Underway(x)' <=> Underway(x) /\ ~Recording(x)
    BY <1>5, <1>b, <1>d, <2>1 DEF TakeFacts, OnePlace, Underway, Recording
  <2>4. \A x \in Chunks : Records(x) <=> Recording(x)
    BY <1>5, <1>d, <1>b DEF TakeFacts, Records, Recording
  <2> QED
    BY <1>c, <2>2, <2>3, <2>4 DEF Underway
<1>6. CASE WorkerRecord
  <2>1. \A x : (Queued(x)' <=> Queued(x)) /\ (Recording(x)' <=> Recording(x))
    BY <1>6, <1>d DEF TakeFacts, Queued, Recording
  <2>2. OnePlace'
    BY <1>6, <1>a, <1>b, <1>d, <2>1 DEF TakeFacts, OnePlace, Underway
  <2>3. \A x \in Chunks : Underway(x)' <=> Underway(x) /\ worker # x
    BY <1>6, <1>b, <1>d, <2>1 DEF TakeFacts, OnePlace, Underway
  <2>4. \A x \in Chunks : Records(x) <=> worker = x
    BY <1>6, <1>d DEF TakeFacts, Records
  <2> QED
    BY <1>c, <2>2, <2>3, <2>4 DEF Underway
<1> QED
  BY <1>1, <1>2, <1>3, <1>4, <1>5, <1>6, ChunkStepMoves DEF ChunkMoves

\* A chunk that is recorded goes to the turn of its flow, if its id is the flow's own.
LEMMA FedMoves ==
    ASSUME Base, OnePlace, [Next]_vars, NEW f \in Flow, ~Shared(f), Registered(f),
           accumulator[f] # None,
           ~ResponseHeadersStream(f)
    PROVE  \/ accumulator'[f] = accumulator[f] /\ \A c \in Chunks : Records(c) => c.flow # f
           \/ \E c \in Chunks :
                /\ c.flow = f /\ Records(c) /\ \A x \in Chunks : Records(x) => x = c
                /\ accumulator[f] \in Seq(Chunks)
                /\ accumulator'[f] = Append(accumulator[f], c)
<1>1. \A g \in Flow : corr[g] \in Id /\ (corr[g] = corr[f] \/ turns[corr[g]] = f) => g = f
  BY OwnTurn
<1>2. turns[corr[f]] = f /\ corr[f] \in Id
  BY OwnId
<1>3. TakeFacts /\ None \notin Chunks /\ TypeOK /\ (worker # None => worker \in Chunks)
      /\ (hook.at = "record" => hook.chunk \in Chunks)
  BY TakeSteps, NoneIsNoData DEF Base, TypeOK, InHook
<1>4. ASSUME NEW c \in Chunks, corr[c.flow] \in Id, RecordChunk(c),
             \A x \in Chunks : Records(x) <=> x = c
      PROVE  \/ accumulator'[f] = accumulator[f] /\ \A x \in Chunks : Records(x) => x.flow # f
             \/ /\ c.flow = f /\ Records(c) /\ \A x \in Chunks : Records(x) => x = c
                /\ accumulator[f] \in Seq(Chunks)
                /\ accumulator'[f] = Append(accumulator[f], c)
  <2>1. c.flow \in Flow
    BY DEF Chunks
  <2>2. IF f = turns[corr[c.flow]]
        THEN accumulator[f] \in Seq(Chunks) /\ accumulator'[f] = Append(accumulator[f], c)
        ELSE accumulator'[f] = accumulator[f]
    BY <1>3, <1>4, RecordFacts
  <2>3. f = turns[corr[c.flow]] <=> c.flow = f
    BY <1>1, <1>2, <1>4, <2>1
  <2> QED
    BY <1>4, <2>2, <2>3
<1>5. CASE DrainRecord
  <2>1. hook.chunk \in Chunks /\ RecordChunk(hook.chunk) /\ corr[hook.chunk.flow] \in Id
    BY <1>3, <1>5 DEF TakeFacts, DrainRecord, OnePlace, Underway, Recording
  <2>2. \A x \in Chunks : Records(x) <=> x = hook.chunk
    BY <1>3, <1>5 DEF TakeFacts, Records
  <2> QED
    BY <1>4, <2>1, <2>2
<1>6. CASE WorkerRecord
  <2>1. worker \in Chunks /\ RecordChunk(worker) /\ corr[worker.flow] \in Id
    BY <1>3, <1>6 DEF TakeFacts, WorkerRecord, OnePlace, Underway
  <2>2. \A x \in Chunks : Records(x) <=> x = worker
    BY <1>3, <1>6 DEF TakeFacts, Records
  <2> QED
    BY <1>4, <2>1, <2>2
<1>7. ASSUME NEW g \in Flow, ResponseHeadersStream(g)
      PROVE  accumulator'[f] = accumulator[f]
  <2>1. corr[g] \in Id /\ g # f
    BY <1>7 DEF Base, Flows, ResponseHeadersStream
  <2>2. turns[corr[g]] # f
    BY <1>1, <2>1
  <2> QED
    BY <1>7, <2>2 DEF ResponseHeadersStream, Base, TypeOK
<1>8. CASE DrainRecord \/ WorkerRecord
  BY <1>5, <1>6, <1>8
<1>9. CASE ~DrainRecord /\ ~WorkerRecord
  <2>1. accumulator'[f] = accumulator[f]
    BY <1>7, <1>9, ChunkStepMoves
       DEF ChunkMoves, Still, New, DrainGet, WorkerGet, trackerVars
  <2> QED
    BY <1>9, <2>1 DEF Records
<1> QED
  BY <1>8, <1>9

\* Feeding an accumulator.
LEMMA FedAppend ==
    ASSUME NEW f \in Flow, NEW c \in Chunks, accumulator[f] \in Seq(Chunks),
           accumulator'[f] = Append(accumulator[f], c), ~Fed(f, c),
           \A i, j \in 1..Len(accumulator[f]) : accumulator[f][i] = accumulator[f][j] => i = j
    PROVE  /\ \A x : Fed(f, x)' <=> Fed(f, x) \/ x = c
           /\ \A i, j \in 1..Len(accumulator'[f]) :
                accumulator'[f][i] = accumulator'[f][j] => i = j
<1> DEFINE n == Len(accumulator[f])
<1>1. /\ n \in Nat /\ Len(accumulator'[f]) = n + 1 /\ accumulator'[f][n + 1] = c
      /\ \A i \in 1..n : accumulator'[f][i] = accumulator[f][i]
  OBVIOUS
<1>2. n + 1 \in 1..(n + 1) /\ \A i \in 1..(n + 1) : i \in 1..n \/ i = n + 1
  BY <1>1
<1>3. \A i \in 1..n : accumulator'[f][i] # c
  BY <1>1 DEF Fed
<1> QED
  BY <1>1, <1>2, <1>3 DEF Fed

\* A data chunk arrives when its tap puts it into the queue.
LEMMA Arrives ==
    ASSUME Base, OnePlace, [Next]_vars, NEW f \in Flow, NEW n \in 1..MaxChunks,
           Arrived(f, n)', ~Arrived(f, n)
    PROVE  Queued([flow |-> f, n |-> n])'
<1>1. sent[f] \in Nat /\ sent'[f] \in Nat /\ n \in Nat
  BY TypeNext DEF Base, TypeOK
<1>2. /\ sent'[f] # sent[f] => StreamChunk(f) /\ sent'[f] = sent[f] + 1
      /\ dropped \subseteq dropped' /\ sent[f] <= sent'[f]
  BY FlowMoves DEF FlowMove
<1>3. StreamChunk(f) /\ n = sent[f] + 1
  BY <1>1, <1>2 DEF Arrived
<1>4. PICK c \in Chunks : c = [flow |-> f, n |-> n]
  <2>1. [flow |-> f, n |-> n] \in Chunks
    BY DEF Chunks
  <2> QED
    BY <2>1
<1>5. Put(c) /\ c \notin dropped'
  BY <1>3, <1>4 DEF StreamChunk, Arrived
<1>6. ~Seen(c)
  BY <1>1, <1>3, <1>4 DEF Seen, Eof
<1>7. ~Queued(c)
  BY <1>6 DEF OnePlace, Underway
<1> QED
  BY <1>4, <1>5, <1>7, QueuePut DEF Base

\* No chunk of a registered turn is lost between the queue and its accumulator.
LEMMA NoneLostNext ==
    ASSUME Base, OnePlace, NoneLost, [Next]_vars
    PROVE  NoneLost'
<1> SUFFICES ASSUME NEW f \in Flow, ~Shared(f)', Registered(f)', f \in tapped'
             PROVE  /\ accumulator'[f] # None
                    /\ \A i, j \in 1..Len(accumulator'[f]) :
                            accumulator'[f][i] = accumulator'[f][j] => i = j
                    /\ \A c \in Chunks : Fed(f, c)' => c.flow = f /\ Seen(c)' /\ ~Underway(c)'
                    /\ \A n \in 1..MaxChunks : Arrived(f, n)' =>
                            \/ Underway([flow |-> f, n |-> n])'
                            \/ Fed(f, [flow |-> f, n |-> n])'
  BY DEF NoneLost
<1>1. ~Shared(f)
  BY OwnBefore
<1>2. Registered(f)
  <2>1. CASE RequestHeaders(f)
    BY <2>1 DEF RequestHeaders, streamVars, Base, Flows
  <2> QED
    BY <2>1, RegisteredOnce
<1>3. turns[corr[f]] = f /\ corr[f] \in Id
  BY <1>2, OwnId
<1>4. CASE ResponseHeadersStream(f)
  <2>1. accumulator'[f] = <<>> /\ sent'[f] = 0
    BY <1>3, <1>4 DEF ResponseHeadersStream, Base, TypeOK, Flows
  <2>2. <<>> # None
    <3>1. <<>> \in Seq(Chunks)
      OBVIOUS
    <3> QED
      BY <3>1, NoneIsNoData
  <2> QED
    BY <2>1, <2>2 DEF Fed, Arrived
<1>5. CASE ~ResponseHeadersStream(f)
  <2>1. f \in tapped
    BY <1>5, FlowMoves DEF FlowMove
  <2>2. /\ accumulator[f] # None
        /\ \A i, j \in 1..Len(accumulator[f]) : accumulator[f][i] = accumulator[f][j] => i = j
        /\ \A c \in Chunks : Fed(f, c) => c.flow = f /\ Seen(c) /\ ~Underway(c)
        /\ \A n \in 1..MaxChunks : Arrived(f, n) =>
                Underway([flow |-> f, n |-> n]) \/ Fed(f, [flow |-> f, n |-> n])
    BY <1>1, <1>2, <2>1 DEF NoneLost
  <2>3. \A n \in 1..MaxChunks : Arrived(f, n)' =>
            Arrived(f, n) \/ Underway([flow |-> f, n |-> n])'
    BY Arrives DEF Underway
  <2>4. \A n \in 1..MaxChunks : [flow |-> f, n |-> n] \in Chunks
    BY DEF Chunks
  <2>5. /\ \A c \in Chunks : Underway(c)' => Underway(c) \/ ~Seen(c)
        /\ \A c \in Chunks : Underway(c) => Underway(c)' \/ Records(c)
        /\ \A c \in Chunks : Records(c) => Underway(c) /\ ~Underway(c)'
    BY UnderwayMoves DEF New
  <2>6. \A c \in Chunks : c.flow = f /\ Seen(c) => Seen(c)'
    BY <1>3, SeenStays
  <2>7. CASE accumulator'[f] = accumulator[f] /\ \A c \in Chunks : Records(c) => c.flow # f
    <3>1. \A c : Fed(f, c)' <=> Fed(f, c)
      BY <2>7 DEF Fed
    <3>2. \A n \in 1..MaxChunks : ~Records([flow |-> f, n |-> n])
      BY <2>4, <2>7
    <3> QED
      BY <2>2, <2>3, <2>4, <2>5, <2>6, <2>7, <3>1, <3>2
  <2>8. ASSUME NEW c \in Chunks, c.flow = f, Records(c), \A x \in Chunks : Records(x) => x = c,
               accumulator[f] \in Seq(Chunks), accumulator'[f] = Append(accumulator[f], c)
        PROVE  /\ accumulator'[f] # None
               /\ \A i, j \in 1..Len(accumulator'[f]) :
                       accumulator'[f][i] = accumulator'[f][j] => i = j
               /\ \A x \in Chunks : Fed(f, x)' => x.flow = f /\ Seen(x)' /\ ~Underway(x)'
               /\ \A n \in 1..MaxChunks : Arrived(f, n)' =>
                       \/ Underway([flow |-> f, n |-> n])'
                       \/ Fed(f, [flow |-> f, n |-> n])'
    <3>1. ~Fed(f, c) /\ Seen(c)
      BY <2>2, <2>5, <2>8 DEF OnePlace
    <3>2. /\ \A x : Fed(f, x)' <=> Fed(f, x) \/ x = c
          /\ \A i, j \in 1..Len(accumulator'[f]) :
                accumulator'[f][i] = accumulator'[f][j] => i = j
      BY <2>2, <2>8, <3>1, FedAppend
    <3>3. accumulator'[f] # None
      BY <2>8, NoneIsNoData
    <3>4. \A x \in Chunks : Fed(f, x)' => x.flow = f /\ Seen(x)' /\ ~Underway(x)'
      BY <2>2, <2>5, <2>6, <2>8, <3>1, <3>2
    <3>5. \A n \in 1..MaxChunks : Arrived(f, n)' =>
              Underway([flow |-> f, n |-> n])' \/ Fed(f, [flow |-> f, n |-> n])'
      BY <2>2, <2>3, <2>4, <2>5, <2>8, <3>2
    <3> QED
      BY <3>2, <3>3, <3>4, <3>5
  <2> QED
    BY <1>1, <1>2, <1>5, <2>2, <2>7, <2>8, FedMoves
<1> QED
  BY <1>4, <1>5

\* Why a turn leaves the registry without being completed.
Excused(f) == Shared(f) \/ f \in reaping \/ hook.at \in {"idle", "abort"}

LEMMA Unregisters ==
    ASSUME Base, [Next]_vars, NEW f \in Flow, Registered(f), ~Registered(f)'
    PROVE  Excused(f)'
<1> USE DEF Excused, Base, TypeOK, Registered, flowVars, trackerVars, streamVars
<1>1. CASE EmitInitiated
  BY <1>1 DEF EmitInitiated, EmitFromHook
<1>2. CASE DrainGet
  BY <1>2 DEF DrainGet
<1>3. CASE DrainRecord
  BY <1>3 DEF DrainRecord
<1>4. CASE ResponseIsError
  BY <1>4 DEF ResponseIsError, Abort, Go, Idle, HookFree
<1>5. CASE ResponseRaises
  BY <1>5 DEF ResponseRaises
<1>6. CASE Flush
  BY <1>6 DEF Flush
<1>7. CASE EmitCompleted
  BY <1>7 DEF EmitCompleted, EmitFromHook
<1>8. CASE RemoveTurn
  BY <1>8 DEF RemoveTurn, Abort, Go, Idle, HookFree
<1>9. CASE EmitAborted
  BY <1>9 DEF EmitAborted, EmitFromHook
<1>10. CASE Done
  BY <1>10 DEF Done
<1>11. CASE WorkerGet
  BY <1>11 DEF WorkerGet
<1>12. CASE WorkerRecord
  BY <1>12 DEF WorkerRecord
<1>13. CASE Sweep
  BY <1>13 DEF Sweep, Overdue
<1>14. CASE StopReaper
  BY <1>14 DEF StopReaper
<1>15. ASSUME NEW g \in Flow, RequestHeaders(g) PROVE Excused(f)'
  <2>1. turns[corr[f]] = f /\ corr[f] \in Id /\ phase[g] = "new" /\ corr[g] = None
    BY <1>15, OwnId DEF RequestHeaders, Flows
  <2>2. g # f
    BY <2>1, NoneAssumption
  <2>3. PICK i \in Id : corr' = [corr EXCEPT ![g] = i] /\ turns' = [turns EXCEPT ![i] = g]
    BY <1>15 DEF RequestHeaders
  <2>4. i = corr[f]
    BY <2>1, <2>3
  <2>5. corr'[g] = i /\ corr'[f] = corr[f] /\ corr[f] # None
    BY <2>1, <2>2, <2>3
  <2> QED
    BY <2>2, <2>4, <2>5 DEF Shared
<1>16. ASSUME NEW g \in Flow, Request(g) PROVE Excused(f)'
  BY <1>16 DEF Request
<1>17. ASSUME NEW g \in Flow, ResponseHeadersStream(g) PROVE Excused(f)'
  BY <1>17 DEF ResponseHeadersStream
<1>18. ASSUME NEW g \in Flow, ResponseHeadersPlain(g) PROVE Excused(f)'
  BY <1>18 DEF ResponseHeadersPlain
<1>19. ASSUME NEW g \in Flow, StreamChunk(g) PROVE Excused(f)'
  BY <1>19 DEF StreamChunk
<1>20. ASSUME NEW g \in Flow, StreamEnd(g) PROVE Excused(f)'
  BY <1>20 DEF StreamEnd
<1>21. ASSUME NEW g \in Flow, Response(g) PROVE Excused(f)'
  BY <1>21 DEF Response
<1>22. ASSUME NEW g \in Flow, FlowError(g) PROVE Excused(f)'
  BY <1>22 DEF FlowError, Abort, Go, Idle, HookFree
<1>23. ASSUME NEW g \in Flow, Expire(g) PROVE Excused(f)'
  BY <1>23 DEF Expire
<1>24. ASSUME NEW g \in Flow, EmitTimeout(g) PROVE Excused(f)'
  BY <1>24 DEF EmitTimeout
<1>25. CASE UNCHANGED vars
  BY <1>25 DEF vars
<1> QED
  BY <1>1, <1>2, <1>3, <1>4, <1>5, <1>6, <1>7, <1>8, <1>9, <1>10, <1>11, <1>12, <1>13, <1>14,
       <1>15, <1>16, <1>17, <1>18, <1>19, <1>20, <1>21, <1>22, <1>23, <1>24, <1>25
     DEF Next, HookStep, Traffic

\* The reaper lets go of a turn when it reports it.
LEMMA Reported ==
    ASSUME Base, [Next]_vars, NEW f \in Flow, f \in reaping, f \notin reaping'
    PROVE  EmitTimeout(f)
<1> USE DEF flowVars, trackerVars, streamVars
<1>1. CASE EmitInitiated
  BY <1>1 DEF EmitInitiated, EmitFromHook
<1>2. CASE DrainGet
  BY <1>2 DEF DrainGet
<1>3. CASE DrainRecord
  BY <1>3 DEF DrainRecord
<1>4. CASE ResponseIsError
  BY <1>4 DEF ResponseIsError
<1>5. CASE ResponseRaises
  BY <1>5 DEF ResponseRaises
<1>6. CASE Flush
  BY <1>6 DEF Flush
<1>7. CASE EmitCompleted
  BY <1>7 DEF EmitCompleted, EmitFromHook
<1>8. CASE RemoveTurn
  BY <1>8 DEF RemoveTurn
<1>9. CASE EmitAborted
  BY <1>9 DEF EmitAborted, EmitFromHook
<1>10. CASE Done
  BY <1>10 DEF Done
<1>11. CASE WorkerGet
  BY <1>11 DEF WorkerGet
<1>12. CASE WorkerRecord
  BY <1>12 DEF WorkerRecord
<1>13. CASE Sweep
  BY <1>13 DEF Sweep
<1>14. CASE StopReaper
  BY <1>14 DEF StopReaper
<1>15. ASSUME NEW g \in Flow, RequestHeaders(g) PROVE EmitTimeout(f)
  BY <1>15 DEF RequestHeaders
<1>16. ASSUME NEW g \in Flow, Request(g) PROVE EmitTimeout(f)
  BY <1>16 DEF Request
<1>17. ASSUME NEW g \in Flow, ResponseHeadersStream(g) PROVE EmitTimeout(f)
  BY <1>17 DEF ResponseHeadersStream
<1>18. ASSUME NEW g \in Flow, ResponseHeadersPlain(g) PROVE EmitTimeout(f)
  BY <1>18 DEF ResponseHeadersPlain
<1>19. ASSUME NEW g \in Flow, StreamChunk(g) PROVE EmitTimeout(f)
  BY <1>19 DEF StreamChunk
<1>20. ASSUME NEW g \in Flow, StreamEnd(g) PROVE EmitTimeout(f)
  BY <1>20 DEF StreamEnd
<1>21. ASSUME NEW g \in Flow, Response(g) PROVE EmitTimeout(f)
  BY <1>21 DEF Response
<1>22. ASSUME NEW g \in Flow, FlowError(g) PROVE EmitTimeout(f)
  BY <1>22 DEF FlowError
<1>23. ASSUME NEW g \in Flow, Expire(g) PROVE EmitTimeout(f)
  BY <1>23 DEF Expire
<1>24. ASSUME NEW g \in Flow, EmitTimeout(g) PROVE EmitTimeout(f)
  <2>1. g = f
    BY <1>24 DEF EmitTimeout
  <2> QED
    BY <1>24, <2>1
<1>25. CASE UNCHANGED vars
  BY <1>25 DEF vars
<1> QED
  BY <1>1, <1>2, <1>3, <1>4, <1>5, <1>6, <1>7, <1>8, <1>9, <1>10, <1>11, <1>12, <1>13, <1>14,
       <1>15, <1>16, <1>17, <1>18, <1>19, <1>20, <1>21, <1>22, <1>23, <1>24, <1>25
     DEF Next, HookStep, Traffic

\* A completion is built by Flush.
LEMMA Flushes ==
    ASSUME Base, hook'.at = "complete", hook' # hook, [Next]_vars
    PROVE  Flush
<1> USE DEF HookFree, Idle, Go, Abort, flowVars, trackerVars, streamVars
<1>1. CASE EmitInitiated
  BY <1>1 DEF EmitInitiated
<1>2. CASE DrainGet
  BY <1>2, HookFacts DEF DrainGet, Base, TypeOK, Hooks
<1>3. CASE DrainRecord
  BY <1>3, HookFacts DEF DrainRecord, Base, TypeOK, Hooks
<1>4. CASE ResponseIsError
  BY <1>4 DEF ResponseIsError
<1>5. CASE ResponseRaises
  BY <1>5 DEF ResponseRaises
<1>6. CASE Flush
  BY <1>6 DEF Flush
<1>7. CASE EmitCompleted
  BY <1>7, HookFacts DEF EmitCompleted, Base, TypeOK, Hooks
<1>8. CASE RemoveTurn
  BY <1>8 DEF RemoveTurn
<1>9. CASE EmitAborted
  BY <1>9 DEF EmitAborted
<1>10. CASE Done
  BY <1>10 DEF Done
<1>11. CASE WorkerGet
  BY <1>11 DEF WorkerGet
<1>12. CASE WorkerRecord
  BY <1>12 DEF WorkerRecord
<1>13. CASE Sweep
  BY <1>13 DEF Sweep
<1>14. CASE StopReaper
  BY <1>14 DEF StopReaper
<1>15. ASSUME NEW f \in Flow, RequestHeaders(f) PROVE Flush
  BY <1>15 DEF RequestHeaders
<1>16. ASSUME NEW f \in Flow, Request(f) PROVE Flush
  BY <1>16 DEF Request
<1>17. ASSUME NEW f \in Flow, ResponseHeadersStream(f) PROVE Flush
  BY <1>17 DEF ResponseHeadersStream
<1>18. ASSUME NEW f \in Flow, ResponseHeadersPlain(f) PROVE Flush
  BY <1>18 DEF ResponseHeadersPlain
<1>19. ASSUME NEW f \in Flow, StreamChunk(f) PROVE Flush
  BY <1>19 DEF StreamChunk
<1>20. ASSUME NEW f \in Flow, StreamEnd(f) PROVE Flush
  BY <1>20 DEF StreamEnd
<1>21. ASSUME NEW f \in Flow, Response(f) PROVE Flush
  BY <1>21 DEF Response
<1>22. ASSUME NEW f \in Flow, FlowError(f) PROVE Flush
  BY <1>22 DEF FlowError
<1>23. ASSUME NEW f \in Flow, Expire(f) PROVE Flush
  BY <1>23 DEF Expire
<1>24. ASSUME NEW f \in Flow, EmitTimeout(f) PROVE Flush
  BY <1>24 DEF EmitTimeout
<1>25. CASE UNCHANGED vars
  BY <1>25 DEF vars
<1> QED
  BY <1>1, <1>2, <1>3, <1>4, <1>5, <1>6, <1>7, <1>8, <1>9, <1>10, <1>11, <1>12, <1>13, <1>14,
       <1>15, <1>16, <1>17, <1>18, <1>19, <1>20, <1>21, <1>22, <1>23, <1>24, <1>25
     DEF Next, HookStep, Traffic

\* A turn that can still count as complete could so before the step.
LEMMA SoundBefore ==
    ASSUME Base, [Next]_vars, NEW f \in Flow, Sound(f)'
    PROVE  Sound(f)
<1>1. ~Shared(f)
  BY OwnBefore DEF Sound
<1>2. ~Has(f, "TURN_ERROR")
  BY PositionsMove DEF Sound, Has
<1>3. CASE f \in reaping
  <2>1. EmitTimeout(f)
    BY <1>3, Reported DEF Sound
  <2>2. Len(log[f]) + 1 \in Positions(f, "TURN_ERROR")'
    BY <2>1, PositionsOfEmit, EnvelopeTypes DEF EmitTimeout, Base, Failed
  <2> QED
    BY <2>2 DEF Sound, Has
<1> QED
  BY <1>1, <1>2, <1>3 DEF Sound

\* A flush lacks what is on its way, and with the queue drained that is one chunk.
LEMMA BuiltNext ==
    ASSUME Base, Ends, EndsOneWay, OnePlace, NoneLost, Built, [Next]_vars
    PROVE  Built'
<1> SUFFICES ASSUME NEW f \in Flow, Sound(f)'
             PROVE  /\ Responding' /\ hook'.turn = f => Registered(f)'
                    /\ hook'.at = "complete" /\ hook'.turn = f /\ f \in tapped' =>
                            BuiltFrom(f, hook.envelope.blocks)'
                    /\ \A c \in Positions(f, "TURN_COMPLETED")' :
                            f \in tapped' => BuiltFrom(f, log[f][c].blocks)'
  BY DEF Built
<1>1. /\ Sound(f) /\ ~Shared(f)
      /\ Responding /\ hook.turn = f => Registered(f)
      /\ hook.at = "complete" /\ hook.turn = f /\ f \in tapped =>
            BuiltFrom(f, hook.envelope.blocks)
      /\ \A c \in Positions(f, "TURN_COMPLETED") :
            f \in tapped => BuiltFrom(f, log[f][c].blocks)
  BY SoundBefore DEF Built, Sound
<1>2. /\ \A g \in Flow : corr[g] \in Id /\ (corr[g] = corr[f] \/ turns[corr[g]] = f) => g = f
      /\ hook.at # "idle" /\ hook.turn = f => hook.flow = f
  BY <1>1, OwnTurn
<1>3. ASSUME phase[f] = "done"
      PROVE  /\ f \in tapped' => f \in tapped
             /\ \A b : BuiltFrom(f, b) => BuiltFrom(f, b)'
  <2>1. sent'[f] = sent[f] /\ dropped \subseteq dropped' /\ (f \in tapped' => f \in tapped)
    BY <1>3, FlowMoves DEF FlowMove, StreamChunk, ResponseHeadersStream
  <2>2. \A n : Arrived(f, n)' => Arrived(f, n)
    BY <2>1 DEF Arrived
  <2> QED
    BY <2>1, <2>2 DEF BuiltFrom, DataOf
<1>4. hook.at \in {"drain", "complete"} /\ hook.turn = f => phase[f] = "done"
  BY <1>2 DEF Base, InHook
<1>5. ASSUME Responding', hook'.turn = f
      PROVE  Registered(f)'
  <2>1. CASE \E g \in Flow : Begins(g)
    <3>1. PICK g \in Flow : Begins(g)
      BY <2>1
    <3>2. turns[corr[g]] = f /\ corr[g] \in Id /\ Response(g)
      BY <1>5, <3>1 DEF Begins, Responding
    <3> QED
      BY <3>2 DEF Registered, Response, trackerVars
  <2>2. CASE Responding /\ hook.turn = f
    BY <1>1, <1>5, <2>2, Unregisters DEF Excused, Sound, Responding
  <2> QED
    BY <1>5, <2>1, <2>2, HookStepMoves DEF HookMoves, Responding
<1>6. ASSUME hook'.at = "complete", hook'.turn = f, f \in tapped'
      PROVE  BuiltFrom(f, hook.envelope.blocks)'
  <2>1. CASE hook' = hook
    <3>1. PICK b : b = hook.envelope.blocks
      OBVIOUS
    <3>2. BuiltFrom(f, b)
      BY <1>1, <1>3, <1>4, <1>6, <2>1, <3>1
    <3>3. BuiltFrom(f, b)'
      BY <1>3, <1>4, <1>6, <2>1, <3>2
    <3> QED
      BY <2>1, <3>1, <3>3
  <2>2. CASE hook' # hook
    <3>1. Flush
      BY <1>6, <2>2, Flushes
    <3>2. /\ hook.at = "drain" /\ hook.turn = f /\ chunk_queue = <<>>
          /\ hook'.envelope.blocks = IF accumulator[f] = None THEN <<>> ELSE accumulator[f]
      BY <1>6, <3>1 DEF Flush, Drained, Go, Completed
    <3>3. Registered(f) /\ phase[f] = "done" /\ f \in tapped
      BY <1>1, <1>3, <1>4, <1>6, <3>2 DEF Responding
    <3>4. PICK b : b = accumulator[f]
      OBVIOUS
    <3>5. /\ b # None /\ \A i, j \in 1..Len(b) : b[i] = b[j] => i = j
          /\ \A n \in 1..MaxChunks : Arrived(f, n) =>
                  Underway([flow |-> f, n |-> n]) \/ Fed(f, [flow |-> f, n |-> n])
      BY <1>1, <3>3, <3>4 DEF NoneLost
    <3>6. \A c : Underway(c) => worker = c
      BY <3>2 DEF Underway, Queued, Recording
    <3>7. \A n \in 1..MaxChunks : Fed(f, [flow |-> f, n |-> n]) => n \in DataOf(f, b)
      BY <3>4 DEF Fed, DataOf, Eof
    <3>8. BuiltFrom(f, b)
      <4> SUFFICES ASSUME NEW m \in 1..MaxChunks, NEW n \in 1..MaxChunks,
                          Arrived(f, m), Arrived(f, n),
                          m \notin DataOf(f, b), n \notin DataOf(f, b)
                   PROVE  m = n
        BY <3>5 DEF BuiltFrom
      <4>1. worker = [flow |-> f, n |-> m] /\ worker = [flow |-> f, n |-> n]
        BY <3>5, <3>6, <3>7
      <4> QED
        BY <4>1
    <3>9. BuiltFrom(f, b)' /\ hook'.envelope.blocks = b
      BY <1>3, <3>2, <3>3, <3>4, <3>5, <3>8
    <3> QED
      BY <3>9
  <2> QED
    BY <2>1, <2>2
<1>7. ASSUME NEW c \in Positions(f, "TURN_COMPLETED")', f \in tapped'
      PROVE  BuiltFrom(f, log[f][c].blocks)'
  <2>1. PICK b : b = log'[f][c].blocks
    OBVIOUS
  <2>2. CASE c \in Positions(f, "TURN_COMPLETED")
    <3>1. log'[f][c] = log[f][c]
      BY <2>2, PositionsMove DEF Positions
    <3>2. phase[f] = "done"
      BY <1>1, <2>2 DEF EndsOneWay, Has
    <3>3. BuiltFrom(f, b)'
      BY <1>1, <1>3, <1>7, <2>1, <2>2, <3>1, <3>2
    <3> QED
      BY <2>1, <3>3
  <2>3. CASE c \notin Positions(f, "TURN_COMPLETED")
    <3>1. hook.at = "complete" /\ hook.turn = f /\ log'[f][c] = hook.envelope
      BY <2>3, PositionsMove DEF Base, InHook, Failed, Initiated
    <3>2. BuiltFrom(f, b)'
      BY <1>1, <1>3, <1>4, <1>7, <2>1, <3>1
    <3> QED
      BY <2>1, <3>2
  <2> QED
    BY <2>2, <2>3
<1> QED
  BY <1>5, <1>6, <1>7

LEMMA StreamNext ==
    ASSUME Base, Ends, Alone, Stream, [Next]_vars
    PROVE  Stream'
  BY UnderwayMoves, NoneLostNext, BuiltNext DEF Alone, Stream

-----------------------------------------------------------------------------
(* The theorems. *)

LEMMA IInvInit == Init => IInv
<1> SUFFICES ASSUME Init PROVE IInv
  OBVIOUS
<1>1. Base
  BY BaseInit
<1>2. /\ hook.at = "idle" /\ reaping = {} /\ worker = None /\ tapped = {}
      /\ \A f \in Flow : log[f] = <<>> /\ corr[f] = None /\ phase[f] = "new"
      /\ \A i \in Id : turns[i] = None
      /\ chunk_queue = <<>>
  BY DEF Init, Idle
<1>3. \A f \in Flow : ~Registered(f) /\ \A event : Positions(f, event) = {}
  BY <1>2 DEF Registered, Positions
<1>4. Ends
  BY <1>2, <1>3 DEF Ends, Completing, Failing, Has, Doomed
<1>5. Alone
  BY <1>2, <1>3 DEF Alone, InitiatedFirst, EndsOneWay, CompletionIsInitiated, Has, Responding
<1>6. OnePlace
  <2>1. \A c \in Chunks : ~Underway(c)
    BY <1>2, NoneIsNoData DEF Underway, Queued, Recording
  <2> QED
    BY <1>2, <2>1 DEF OnePlace
<1>7. NoneLost /\ Built
  BY <1>2, <1>3 DEF NoneLost, Built, Responding
<1> QED
  BY <1>1, <1>4, <1>5, <1>6, <1>7 DEF IInv, Stream

LEMMA IInvNext == IInv /\ [Next]_vars => IInv'
<1> SUFFICES ASSUME IInv, [Next]_vars PROVE IInv'
  OBVIOUS
<1> QED
  BY BaseNext, CompletingNext, FailingNext, AloneNext, StreamNext DEF IInv, Ends

\* The inductive invariant holds throughout.
THEOREM Invariance == Spec => []IInv
  BY IInvInit, IInvNext, PTL DEF Spec

\* Every variable stays in its type: the queue of chunks within its capacity, the number of
\* the chunks of a flow within the bound, the log a sequence of envelopes.
THEOREM TypeCorrect == Spec => []TypeOK
<1>1. IInv => TypeOK
  BY DEF IInv, Base
<1> QED
  BY <1>1, Invariance, PTL

\* A set all of whose elements are the same one has at most one.
LEMMA AtMostOne ==
    ASSUME NEW S, \A x, y \in S : x = y
    PROVE  Cardinality(S) <= 1
<1>1. CASE S = {}
  BY <1>1, FS_EmptySet
<1>2. CASE S # {}
  <2>1. PICK x \in S : S = {x}
    BY <1>2
  <2> QED
    BY <2>1, FS_Singleton
<1> QED
  BY <1>1, <1>2

\* However the hooks, the reaper and a disconnect race to end a turn, it is completed at
\* most once and reported as failed at most once, under shared ids too.
THEOREM EndedOnce == Spec => []EndedOnceEachWay
<1>1. IInv => EndedOnceEachWay
  BY AtMostOne DEF IInv, Ends, Completing, Failing, EndedOnceEachWay
<1> QED
  BY <1>1, Invariance, PTL

\* The completion of a turn whose id is its own follows the request's envelope, and only
\* the reaper's timeout can be reported of it as well.
THEOREM InitiatedBeforeCompleted == Spec => []CompletionIsInitiated
<1>1. IInv => CompletionIsInitiated
  BY DEF IInv, Alone
<1> QED
  BY <1>1, Invariance, PTL

\* Of the chunks that reached the queue, a completed turn lacks at most the one the worker
\* held, whatever the capacity of the queue and the number of streams that share it.
THEOREM ChunksAreFed == Spec => []AtMostOneChunkMissing
<1>1. IInv => AtMostOneChunkMissing
  <2> SUFFICES ASSUME IInv, NEW f \in Flow, Sound(f), NEW c \in Positions(f, "TURN_COMPLETED"),
                      f \in tapped
               PROVE  LET fed     == log[f][c].blocks
                          arrived == {n \in 1..sent[f] : [flow |-> f, n |-> n] \notin dropped}
                      IN  /\ Cardinality(arrived \ DataOf(f, fed)) <= 1
                          /\ \A i, j \in 1..Len(fed) : fed[i] = fed[j] => i = j
    BY DEF AtMostOneChunkMissing, Sound
  <2> DEFINE fed     == log[f][c].blocks
             arrived == {n \in 1..sent[f] : [flow |-> f, n |-> n] \notin dropped}
  <2>1. BuiltFrom(f, fed)
    BY DEF IInv, Stream, Built
  <2>2. \A n \in arrived : n \in 1..MaxChunks /\ Arrived(f, n)
    BY DEF IInv, Base, TypeOK, Arrived
  <2>3. \A m, n \in arrived \ DataOf(f, fed) : m = n
    BY <2>1, <2>2 DEF BuiltFrom
  <2> QED
    BY <2>1, <2>3, AtMostOne DEF BuiltFrom
<1> QED
  BY <1>1, Invariance, PTL
=============================================================================
