------------------------------ MODULE Streams -------------------------------
(***************************************************************************)
(* What decodes a byte stream that may be cut into chunks anywhere: the    *)
(* SSEParser and the accumulators that assemble a provider's streamed      *)
(* reply (interceptor/stream), and the FrameDecoder of the core            *)
(* (core/server/framer.py).                                                *)
(*                                                                         *)
(* A stream is a sequence of symbols: a line is cut into a few of them,    *)
(* the word "data" into "da" and "ta", and a JSON object into "{", its     *)
(* head, which says what it is about, the pieces of text it carries, and   *)
(* "}".  A stream of frames is one of bytes.                               *)
(***************************************************************************)
EXTENDS Python, Naturals, Sequences, SequencesExt, FiniteSets

CONSTANTS
    Says,       \* what the head of an object says: [says, block, type]
    Pieces,     \* pieces of text
    MaxFrame    \* max_frame_size, in bytes

ASSUME StreamsAssumption ==
    MaxFrame \in Nat /\ DOMAIN Says \cap (Pieces \cup {"{", "}"}) = {}

\* A ContentBlock.  The slot is the number that keeps it apart from the others; json and input
\* are partial_json and parsed_input.
NewBlock(slot, type) == [slot |-> slot, type |-> type, text |-> <<>>, json |-> <<>>, input |-> None]
-----------------------------------------------------------------------------
(* SSEParser. *)

NewParser == [buffer |-> <<>>, event |-> None, data |-> <<>>]

\* The ends of lines in a buffer.  A CR at its end may be the half of a CRLF, and waits.
EndsLine(buffer, i) ==
    \/ buffer[i] = "CR" /\ i < Len(buffer)
    \/ buffer[i] = "LF" /\ (i > 1 => buffer[i - 1] # "CR")

\* The complete lines of a buffer, and what is left of it.
Lines(buffer) ==
    LET ends == SelectSeq([i \in DOMAIN buffer |-> i], LAMBDA i : EndsLine(buffer, i))
        start(k) == IF k = 0 THEN 1
                    ELSE IF buffer[ends[k]] = "CR" /\ buffer[ends[k] + 1] = "LF" THEN ends[k] + 2
                    ELSE ends[k] + 1
    IN  [lines |-> [k \in DOMAIN ends |-> SubSeq(buffer, start(k - 1), ends[k] - 1)],
         rest  |-> SubSeq(buffer, start(Len(ends)), Len(buffer))]

\* _dispatch: the pending fields become an event.  A run of the parser is [parser, events].
DispatchEvent(run) ==
    IF run.parser.data = <<>> /\ run.parser.event = None THEN run
    ELSE [parser |-> [run.parser EXCEPT !.event = None, !.data = <<>>],
          events |-> Append(run.events, [event |-> run.parser.event, data |-> run.parser.data])]

\* _process_line.  A second data line is separated from the first.
ProcessLine(run, line) ==
    LET colon == SelectInSeq(line, LAMBDA c : c = ":")
        field == IF colon = 0 THEN line ELSE SubSeq(line, 1, colon - 1)
        value == IF colon = 0 THEN <<>> ELSE SubSeq(line, colon + 1, Len(line))
    IN  CASE line = <<>> -> DispatchEvent(run)
          [] field = <<"event">> -> [run EXCEPT !.parser.event = value]
          [] field = <<"da", "ta">> ->
                [run EXCEPT !.parser.data = IF @ = <<>> THEN value ELSE @ \o <<"LF">> \o value]
          [] line # <<>> /\ field \notin {<<"event">>, <<"da", "ta">>} -> run

\* The lines, one after the other.
ProcessLines(parser, lines) ==
    FoldLeft(ProcessLine, [parser |-> parser, events |-> <<>>], lines)

\* A chunk that is parsed by itself.
FeedParserAnew(parser, chunk) ==
    LET cut == Lines(chunk)
    IN  [ProcessLines(parser, cut.lines) EXCEPT !.parser.buffer = cut.rest]

\* feed, of a chunk.
FeedParser(parser, chunk) ==
    LET cut == Lines(parser.buffer \o chunk)
    IN  [ProcessLines(parser, cut.lines) EXCEPT !.parser.buffer = cut.rest]

\* close: the rest of the buffer is a line, and a pending event is dispatched.
CloseParser(parser) ==
    LET last == IF parser.buffer = <<>> THEN <<>>
                ELSE <<SelectSeq(parser.buffer, LAMBDA c : c # "CR")>>
    IN  DispatchEvent([ProcessLines(parser, last) EXCEPT !.parser.buffer = <<>>])

\* json.loads: what an object says and the pieces it carries, None for what is no object.  A
\* piece stands inside of a string, and only that of a delta can be cut or extended.
Loads(text) ==
    LET body   == SubSeq(text, 2, Len(text) - 1)
        pieces == Tail(body)
    IN  IF Len(text) < 2 \/ text[1] # "{" \/ text[Len(text)] # "}" THEN None
        ELSE IF body = <<>> THEN [says |-> "nothing", block |-> 0, type |-> "text", pieces |-> <<>>]
        ELSE IF body[1] \in DOMAIN Says /\ Range(pieces) \subseteq Pieces
                /\ (pieces # <<>> => Says[body[1]].says = "delta")
        THEN Says[body[1]] @@ [pieces |-> pieces]
        ELSE None
-----------------------------------------------------------------------------
(* The accumulators.  The facts are the usage and the stop reason, of      *)
(* which the last report counts.                                           *)

NewAccumulator == [parser |-> NewParser, mode |-> None, json |-> <<>>, blocks |-> <<>>, facts |-> {}]

\* The place of the block of a slot, 0 if there is none.
PlaceOf(blocks, slot) == SelectInSeq(blocks, LAMBDA b : b.slot = slot)

\* Puts a block in the place of that of its slot, or after the others.
Put(blocks, b) ==
    LET i == PlaceOf(blocks, b.slot)
    IN  IF i = 0 THEN Append(blocks, b) ELSE [blocks EXCEPT ![i] = b]

\* The pieces of a delta go to a block's text or to its JSON.
Extended(b, m) ==
    IF m.type = "tool_use" THEN [b EXCEPT !.json = @ \o m.pieces]
    ELSE [b EXCEPT !.text = @ \o m.pieces]

\* _parse_tool_json: what is no JSON is kept as it is.
Parsed(b) == IF b.type = "tool_use" THEN [b EXCEPT !.input = b.json] ELSE b

\* An end of the stream that leaves the calls as they are.
Unfinalized(acc) == acc

\* _finalize: the calls without a parsed input are parsed.
Finalized(acc) ==
    [acc EXCEPT !.blocks = [i \in DOMAIN @ |-> IF @[i].input = None THEN Parsed(@[i]) ELSE @[i]]]

\* AnthropicAccumulator._handle_event.  The name of the event chooses the handler, whatever its
\* data says: an event that was cut may have the data of another.
HandleAnthropic(acc, event, m) ==
    LET indexed == m.says \in {"start", "delta", "stop"}
        index   == IF indexed THEN m.block ELSE 0
        next    == IF indexed THEN m.block ELSE Len(acc.blocks)
        type    == IF m.says = "delta" THEN m.type ELSE "text"
        place   == PlaceOf(acc.blocks, index)
        block   == IF place = 0 THEN NewBlock(index, type) ELSE acc.blocks[place]
    IN  CASE event = <<"message_start">> /\ m.says = "begin" ->
                [acc EXCEPT !.facts = @ \cup {m.type}]
          [] event = <<"message_delta">> /\ m.says = "facts" ->
                [acc EXCEPT !.facts = @ \cup {m.type}]
          [] event = <<"content_block_start">> ->
                [acc EXCEPT !.blocks = Put(@, NewBlock(next, IF m.says = "start" THEN m.type
                                                             ELSE "text"))]
          [] event = <<"content_block_delta">> ->
                [acc EXCEPT !.blocks = Put(@, IF m.says = "delta" THEN Extended(block, m)
                                              ELSE block)]
          [] event = <<"content_block_stop">> /\ place # 0 ->
                [acc EXCEPT !.blocks = Put(@, Parsed(block))]
          [] event = <<"message_stop">> -> Finalized(acc)
          [] OTHER -> acc

\* Extends the block at a place, or appends a new one.
ExtendAt(acc, i, slot, m) ==
    [acc EXCEPT !.blocks = IF i = 0 THEN Append(@, Extended(NewBlock(slot, m.type), m))
                           ELSE [@ EXCEPT ![i] = Extended(@, m)]]

\* OpenAIAccumulator._handle_chunk: one block of thoughts, one of text, one for each call.
HandleOpenAI(acc, m) ==
    LET same(b) == b.type = m.type /\ (m.type = "tool_use" => b.slot = m.block)
    IN  CASE m.says = "delta" -> ExtendAt(acc, SelectInSeq(acc.blocks, same), m.block, m)
          [] m.says = "facts" -> [acc EXCEPT !.facts = @ \cup {m.type}]
          [] OTHER -> acc

\* GeminiAccumulator._handle_chunk: a text goes on in the last block if it is one of its type;
\* a call comes in one piece.
HandleGemini(acc, m) ==
    LET n    == Len(acc.blocks)
        call == m.type = "tool_use"
        goes == n > 0 /\ ~call /\ acc.blocks[n].type = m.type
        next == ExtendAt(acc, IF goes THEN n ELSE 0, n, m)
    IN  CASE m.says = "delta" /\ call ->
                [next EXCEPT !.blocks[n + 1] = Parsed(@)]
          [] m.says = "delta" /\ ~call -> next
          [] m.says = "facts" -> [acc EXCEPT !.facts = @ \cup {m.type}]
          [] OTHER -> acc

\* _process_events, of each provider: what is no JSON is passed over.
ProcessEvent(provider, acc, ev) ==
    LET m == Loads(ev.data)
    IN  CASE provider = "openai" /\ ev.data = <<"[DONE]">> -> Finalized(acc)
          [] provider = "openai" /\ m # None -> HandleOpenAI(acc, m)
          [] provider = "anthropic" /\ m # None -> HandleAnthropic(acc, ev.event, m)
          [] provider = "gemini" /\ m # None -> HandleGemini(acc, m)
          [] OTHER -> acc

ProcessEvents(provider, acc, run) ==
    FoldLeft(LAMBDA a, ev : ProcessEvent(provider, a, ev), [acc EXCEPT !.parser = run.parser],
             run.events)
-----------------------------------------------------------------------------
(* GeminiAccumulator reads an SSE stream or a stream of JSON objects.      *)

\* The format, from the first chunk that shows it after its white space.
ModeOf(chunk) ==
    LET first   == SelectInSeq(chunk, LAMBDA c : c \notin {"CR", "LF"})
        trimmed == SubSeq(chunk, first, Len(chunk))
    IN  IF first = 0 THEN None
        ELSE IF \E mark \in {<<"da", "ta", ":">>, <<"event", ":">>, <<":">>} : IsPrefix(mark, trimmed)
        THEN "sse"
        ELSE IF trimmed[1] \in {"[", "{"} THEN "json"
        ELSE None

\* A decoding that keeps the object it has decoded.
DecodeJsonAgain(acc, text) ==
    LET from == SelectInSeq(text, LAMBDA c : c = "{")
        to   == SelectInSeq(text, LAMBDA c : c = "}")
        m    == IF from = 0 \/ to < from THEN None ELSE Loads(SubSeq(text, from, to))
    IN  [(IF m = None THEN acc ELSE HandleGemini(acc, m)) EXCEPT !.json = text]

\* raw_decode, over and over: complete objects are handled, and what cannot be decoded stops
\* the loop until the next chunk.  After k steps, of which each takes an object:
DecodeJson(acc, text) ==
    LET From(i) == SelectInSubSeq(text, i, Len(text), LAMBDA c : c \notin {"CR", "LF", ",", "["})
        To(i)   == SelectInSubSeq(text, i, Len(text), LAMBDA c : c = "}")
        After[k \in Nat] ==
            IF k = 0 THEN [acc |-> acc, at |-> 1]
            ELSE LET a    == After[k - 1]
                     from == From(a.at)
                     m    == IF from = 0 THEN None ELSE Loads(SubSeq(text, from, To(from)))
                 IN  IF m = None THEN a
                     ELSE [acc |-> HandleGemini(a.acc, m), at |-> To(from) + 1]
        end  == After[Len(SelectSeq(text, LAMBDA c : c = "}"))]
        rest == From(end.at)
    IN  [end.acc EXCEPT !.json = IF rest = 0 THEN <<>> ELSE SubSeq(text, rest, Len(text))]

FeedGemini(acc, chunk) ==
    LET mode == IF acc.mode = None THEN ModeOf(chunk) ELSE acc.mode
        a    == [acc EXCEPT !.mode = mode]
    IN  IF mode = "sse" THEN ProcessEvents("gemini", a, FeedParser(a.parser, chunk))
        ELSE DecodeJson(a, a.json \o chunk)

\* feed_chunk, of a chunk that is not empty.
FeedChunk(provider, acc, chunk) ==
    IF provider = "gemini" THEN FeedGemini(acc, chunk)
    ELSE ProcessEvents(provider, acc, FeedParser(acc.parser, chunk))

\* feed_chunk(b""): the end of the stream.
CloseStream(provider, acc) ==
    LET closed == ProcessEvents(provider, acc, CloseParser(acc.parser))
    IN  IF provider # "gemini" THEN Finalized(closed)
        ELSE IF acc.mode = "sse" THEN closed
        ELSE IF Loads(acc.json) # None THEN HandleGemini(acc, Loads(acc.json))
        ELSE acc

\* get_content_blocks.
ContentBlocks(acc) == SortSeq(acc.blocks, LAMBDA b, c : b.slot < c.slot)
-----------------------------------------------------------------------------
(* The FrameDecoder. *)

NewDecoder == [buffer |-> <<>>, frames |-> <<>>, raised |-> FALSE]

\* The header is the length of the payload in four bytes.
EncodeFrame(payload) ==
    LET n == Len(payload)
        m == n \div 256
        l == m \div 256
    IN  <<l \div 256, l % 256, m % 256, n % 256>> \o payload

PayloadLen(buffer) == ((buffer[1] * 256 + buffer[2]) * 256 + buffer[3]) * 256 + buffer[4]

\* An extraction that waits for one more byte than a frame has.
FeedDecoderLate(d, chunk) ==
    LET buffer == d.buffer \o chunk
        total  == 4 + PayloadLen(buffer)
    IN  IF Len(buffer) < 4 \/ Len(buffer) <= total THEN [d EXCEPT !.buffer = buffer]
        ELSE [d EXCEPT !.buffer = SubSeq(buffer, total + 1, Len(buffer)),
                       !.frames = Append(@, SubSeq(buffer, 5, total))]

IsOversize(buffer) == Len(buffer) >= 4 /\ PayloadLen(buffer) > MaxFrame

HoldsFrame(buffer) ==
    Len(buffer) >= 4 /\ PayloadLen(buffer) <= MaxFrame /\ Len(buffer) >= 4 + PayloadLen(buffer)

\* Takes a frame off the buffer, if it holds a whole one.
Extracted(d) ==
    LET total == 4 + PayloadLen(d.buffer)
    IN  IF ~HoldsFrame(d.buffer) THEN d
        ELSE [d EXCEPT !.buffer = SubSeq(d.buffer, total + 1, Len(d.buffer)),
                       !.frames = Append(@, SubSeq(d.buffer, 5, total))]

\* feed: the frames of one chunk, extracted while the buffer holds a whole one; After counts
\* the extractions, of which each takes a byte at least.  An oversized header raises, and the
\* frames this call had extracted are lost.
FeedDecoder(d, chunk) ==
    LET buffer == d.buffer \o chunk
        After[k \in Nat] == IF k = 0 THEN [d EXCEPT !.buffer = buffer] ELSE Extracted(After[k - 1])
        end == After[Len(buffer)]
    IN  IF IsOversize(end.buffer) THEN [end EXCEPT !.frames = d.frames, !.raised = TRUE] ELSE end

=============================================================================
