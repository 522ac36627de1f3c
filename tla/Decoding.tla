------------------------------ MODULE Decoding ------------------------------
(***************************************************************************)
(* One byte stream on its way to its decoder, cut into chunks anywhere.    *)
(*                                                                         *)
(* A streamed reply reaches its accumulator through the chunk queue, from  *)
(* which two threads feed it (interceptor/addon.py): the worker may hold a *)
(* chunk while the response hook drains the queue, so that the chunk comes *)
(* late or not at all.  A full queue loses chunks too.  The hook then ends *)
(* the stream with feed_chunk(b"") and reads the content blocks.  Frames   *)
(* reach the core's decoder over a socket, which loses nothing but may     *)
(* end anywhere.                                                           *)
(***************************************************************************)
EXTENDS Streams

CONSTANTS
    StreamedReplies,    \* [provider, format, objects]: what a provider may stream
    FrameSets,          \* sequences of the payloads of frames
    HeldSizes           \* bound: lengths of the chunk that is held up or lost

ASSUME DecodingAssumption ==
    HeldSizes \subseteq Nat \ {0} /\ FrameSets \subseteq Seq(Seq(0..255))

VARIABLES
    source,     \* the reply or the frames that are sent
    wire,       \* the rest of the stream, which has not arrived
    acc,        \* the accumulator, None for frames
    decoder,    \* the FrameDecoder, None for a reply
    held,       \* the chunk held by the worker, <<>> if none is
    closed,     \* the stream has ended
    faults,     \* history: what went wrong: "missing", "late", "raced", "cut", "blind"
    taken       \* the content blocks read by the response hook, None before

decodingVars == <<source, wire, acc, decoder, held, closed, faults, taken>>
-----------------------------------------------------------------------------
(* The wire formats: code outside this repository.  An object is its head  *)
(* followed by its pieces.                                                 *)

Json(object) == <<"{">> \o object \o <<"}">>
Data(value) == <<"da", "ta", ":">> \o value

EventName(object) ==
    LET s == Says[object[1]].says
    IN  CASE s = "begin" -> "message_start"
          [] s = "start" -> "content_block_start"
          [] s = "delta" -> "content_block_delta"
          [] s = "stop"  -> "content_block_stop"
          [] s = "facts" -> "message_delta"
          [] s = "end"   -> "message_stop"

\* A reply in the format of its provider: named events, events, events with CRLF, or an array.
Wire(reply) ==
    LET Each(Of(_)) == FlattenSeq([i \in DOMAIN reply.objects |-> Of(reply.objects[i])])
    IN  CASE reply.format = "named" ->
                Each(LAMBDA o : <<"event", ":", EventName(o), "LF">> \o Data(Json(o)) \o <<"LF", "LF">>)
          [] reply.format = "events" ->
                Each(LAMBDA o : Data(Json(o)) \o <<"LF", "LF">>) \o Data(<<"[DONE]", "LF", "LF">>)
          [] reply.format = "crlf" ->
                Each(LAMBDA o : Data(Json(o)) \o <<"CR", "LF", "CR", "LF">>)
          [] reply.format = "array" ->
                <<"[">> \o Each(LAMBDA o : Json(o) \o <<",", "CR", "LF">>) \o <<"]">>

\* The content of a sequence of objects: the blocks in the order of their numbers, each with
\* its pieces.
Sent(objects) ==
    LET said   == [i \in DOMAIN objects |-> Says[objects[i][1]] @@ [pieces |-> Tail(objects[i])]]
        Of(b)  == SelectSeq(said, LAMBDA m : m.says \in {"start", "delta"} /\ m.block = b)
        whole(b) == FlattenSeq([i \in DOMAIN Of(b) |-> Of(b)[i].pieces])
        Block(b) ==
            IF Of(b)[1].type = "tool_use"
            THEN [NewBlock(b, "tool_use") EXCEPT !.json = whole(b), !.input = whole(b)]
            ELSE [NewBlock(b, Of(b)[1].type) EXCEPT !.text = whole(b)]
        blocks == {m.block : m \in {n \in Range(said) : n.says \in {"start", "delta"}}}
    IN  [n \in 1..Cardinality(blocks) |-> Block(n - 1)]

PiecesSent == FlattenSeq([i \in DOMAIN source.objects |-> Tail(source.objects[i])])
-----------------------------------------------------------------------------
IsReply == acc # None

InitReply ==
    /\ source \in StreamedReplies
    /\ wire = Wire(source)
    /\ acc = NewAccumulator /\ decoder = None

InitFrames ==
    /\ source \in FrameSets
    /\ wire = FlattenSeq([i \in DOMAIN source |-> EncodeFrame(source[i])])
    /\ acc = None /\ decoder = NewDecoder

InitDecoding ==
    /\ InitReply \/ InitFrames
    /\ held = <<>> /\ closed = FALSE /\ faults = {} /\ taken = None

\* No decoder: nothing is sent.
NoDecoding ==
    /\ source = None /\ wire = <<>> /\ acc = None /\ decoder = None
    /\ held = <<>> /\ closed = TRUE /\ faults = {} /\ taken = None

\* Feeds a chunk.  Gemini's accumulator is blind as long as it does not know the format.
Feed(chunk) ==
    /\ acc' = FeedChunk(source.provider, acc, chunk)
    /\ faults' = faults \cup (IF source.provider = "gemini" /\ acc'.mode = None
                             THEN {"blind"} ELSE {})

\* The next chunk, of any length.  Once a chunk is held up, the others are single symbols or
\* all that is left, since the cuts of an undisturbed stream do not matter.
ChunkArrives ==
    /\ IsReply /\ ~closed /\ wire # <<>>
    /\ \E n \in 1..Len(wire) :
        /\ "missing" \in faults => n \in {1, Len(wire)}
        /\ Feed(SubSeq(wire, 1, n))
        /\ wire' = SubSeq(wire, n + 1, Len(wire))
    /\ UNCHANGED <<source, decoder, held, closed, taken>>

\* The worker takes the next chunk off the queue and is overtaken, or the queue is full.
ChunkIsHeld ==
    /\ IsReply /\ ~closed /\ faults \subseteq {"blind"}
    /\ \E n \in HeldSizes :
        /\ n <= Len(wire)
        /\ held' = SubSeq(wire, 1, n)
        /\ wire' = SubSeq(wire, n + 1, Len(wire))
    /\ faults' = faults \cup {"missing"}
    /\ UNCHANGED <<source, acc, decoder, closed, taken>>

\* The worker feeds the chunk it held, as long as the turn is tracked.
HeldChunkArrives ==
    /\ held # <<>> /\ taken = None
    /\ acc' = FeedChunk(source.provider, acc, held)
    /\ faults' = faults \cup {"late"} \cup (IF closed THEN {"raced"} ELSE {})
                        \cup (IF source.provider = "gemini" /\ acc'.mode = None
                              THEN {"blind"} ELSE {})
    /\ held' = <<>>
    /\ UNCHANGED <<source, wire, decoder, closed, taken>>

\* The end of the stream: the EOF sentinel, or the response hook's own.  What has not arrived
\* will not.
StreamCloses ==
    /\ IsReply /\ taken = None
    /\ acc' = CloseStream(source.provider, acc)
    /\ faults' = faults \cup (IF wire = <<>> THEN {} ELSE {"cut"})
    /\ wire' = <<>> /\ closed' = TRUE
    /\ UNCHANGED <<source, decoder, held, taken>>

\* The response hook reads the content.
BlocksAreTaken ==
    /\ IsReply /\ closed /\ taken = None
    /\ taken' = ContentBlocks(acc)
    /\ UNCHANGED <<source, wire, acc, decoder, held, closed, faults>>

\* The core reads from the socket, until the decoder raises.
BytesArrive ==
    /\ decoder # None /\ wire # <<>> /\ ~decoder.raised
    /\ \E n \in 1..Len(wire) :
        /\ decoder' = FeedDecoder(decoder, SubSeq(wire, 1, n))
        /\ wire' = SubSeq(wire, n + 1, Len(wire))
    /\ UNCHANGED <<source, acc, held, closed, faults, taken>>

NextDecoding ==
    \/ ChunkArrives \/ ChunkIsHeld \/ HeldChunkArrives
    \/ StreamCloses \/ BlocksAreTaken
    \/ BytesArrive

SpecDecoding == InitDecoding /\ [][NextDecoding]_decodingVars
-----------------------------------------------------------------------------
(* Properties. *)

PiecesOf(b) == b.text \o b.json

\* A reply none of whose chunks was lost or overtaken is put together as the provider sent it,
\* wherever the network cut it: inside of a line, between a CR and its LF, in the middle of a
\* call's JSON.  If the stream ended early, what it said before is there.  The one exception is
\* Gemini's accumulator, which guesses the format from the start of a chunk and reads nothing
\* as long as the chunks begin elsewhere.
RepliesAreAssembled ==
    (IsReply /\ taken # None /\ faults \subseteq {"cut"}) =>
        \E k \in 0..Len(source.objects) :
            /\ taken = Sent(SubSeq(source.objects, 1, k))
            /\ faults = {} => k = Len(source.objects)

\* Whatever is lost or comes late, nothing is made up: a piece of text or of a call that shows
\* in a block was sent, and shows once; and unless a chunk was overtaken the pieces of a block
\* are in the order in which they were sent.
NothingIsInvented ==
    IsReply =>
        LET all == FlattenSeq([i \in DOMAIN acc.blocks |-> PiecesOf(acc.blocks[i])])
            place(p) == SelectInSeq(PiecesSent, LAMBDA q : q = p)
        IN  /\ Range(all) \subseteq Range(PiecesSent)
            /\ Cardinality(Range(all)) = Len(all)
            /\ "late" \notin faults =>
                \A i \in DOMAIN acc.blocks : LET ps == PiecesOf(acc.blocks[i]) IN
                    \A j \in 2..Len(ps) : place(ps[j - 1]) < place(ps[j])

\* Every call handed over has its input parsed, however early the stream ended and whatever
\* was lost, unless the worker fed a chunk after the hook had ended the stream: feed_chunk(b"")
\* and the getters do not take the tracker's lock.
CallsHaveInput ==
    (IsReply /\ taken # None /\ "raced" \notin faults) =>
        \A i \in DOMAIN taken : taken[i].type = "tool_use" => taken[i].input # None

\* The decoder yields the frames of the sender, in order and unaltered, whatever the reads: all
\* of them as soon as their last byte is there, as long as no header is oversized.
FramesAreWhole ==
    decoder # None =>
        LET Bytes(n) == Len(FlattenSeq([i \in 1..n |-> EncodeFrame(source[i])]))
            arrived  == Bytes(Len(source)) - Len(wire)
            n        == Len(decoder.frames)
        IN  /\ IsPrefix(decoder.frames, source)
            /\ ~decoder.raised =>
                /\ arrived = Bytes(n) + Len(decoder.buffer)
                /\ n < Len(source) => arrived < Bytes(n + 1)
=============================================================================
