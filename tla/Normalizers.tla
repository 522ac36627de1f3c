---------------------------- MODULE Normalizers ----------------------------
(***************************************************************************)
(* From an exchange with a provider to a canonical turn: the synthetic     *)
(* responses of the interceptor (addon.py), the provider normalizers and   *)
(* the SubBlockDecomposer (core/ast).                                      *)
(*                                                                         *)
(* A request is [system : texts, tools : <<name, version>>s, messages] and *)
(* a message [role, parts]; a part is [kind, text, call, tool, error] with *)
(* kind "text", "thought", "call" or "result".  Requests are written once, *)
(* for no provider in particular; WireMessages lays the messages out the   *)
(* way clients of each provider do.                                        *)
(***************************************************************************)
EXTENDS Blocks

Provider == {"anthropic", "openai", "gemini"}

Text(text) == [kind |-> "text", text |-> text, call |-> "", tool |-> "", error |-> FALSE]
Thought(text) == [Text(text) EXCEPT !.kind = "thought"]
Call(id, tool) == [Text(<<>>) EXCEPT !.kind = "call", !.call = id, !.tool = tool]
Result(id, tool, text, error) ==
    [kind |-> "result", text |-> text, call |-> id, tool |-> tool, error |-> error]

Kind(parts, kind) == Those(parts, {p \in ToSet(parts) : p.kind = kind})

\* How a client lays a request's messages out: an OpenAI client sends system texts and tool
\* results as messages of their own, a Gemini client sends calls without ids.
WireMessages(provider, req) ==
    LET Split(msg) ==
            LET results == Kind(msg.parts, "result")
                texts   == Kind(msg.parts, "text")
            IN  [i \in DOMAIN results |-> [role |-> "tool", parts |-> <<results[i]>>]]
                \o (IF texts = <<>> THEN <<>> ELSE <<[role |-> "user", parts |-> texts]>>)
        Anonymous(msg) ==
            [msg EXCEPT !.parts = [i \in DOMAIN @ |-> [@[i] EXCEPT !.call = ""]]]
        msgs == req.messages
    IN  CASE provider = "anthropic" -> msgs
          [] provider = "gemini" -> [i \in DOMAIN msgs |-> Anonymous(msgs[i])]
          [] provider = "openai" ->
                [i \in DOMAIN req.system |->
                    [role |-> "system", parts |-> <<Text(req.system[i])>>]]
                \o FlattenSeq([i \in DOMAIN msgs |->
                    IF msgs[i].role = "user" THEN Split(msgs[i]) ELSE <<msgs[i]>>])
-----------------------------------------------------------------------------
(* SubBlockDecomposer. *)

\* _tag_to_block_type, _markdown_to_block_info.
TagType(tag, default) ==
    CASE tag \in {"skills", "skill"} -> "skill"
      [] tag \in {"rules", "user_rules", "instructions"} -> "system"
      [] tag \in {"tools", "tool"} -> "tool_def"
      [] tag = "thinking" -> "thought"
      [] tag \in {"context", "environment"} -> "injected_state"
      [] tag \in {"", "section"} -> default

\* _tag_to_identity_key: the name, or for some tags the number of the tag in the text.
TagKey(segment, index) ==
    IF segment[1] = "" THEN <<>>
    ELSE <<segment[1], segment[2],
           IF segment[2] = "" /\ segment[1] \in {"rules", "skill", "tool", "thinking"}
           THEN index ELSE 0>>

\* A decomposition whose blocks share an id.
DecomposeUnnumbered(text, default, base) ==
    [i \in DOMAIN text |->
        [Block(base, TagType(text[i][1], default), <<<<"", text[i][2], text[i][3]>>>>)
            EXCEPT !.key = TagKey(text[i], i)]]

\* decompose: a block per segment; base is the prefix of the ids, as a sequence.
Decompose(text, default, base) ==
    LET Index(i) == Cardinality({j \in 1..(i - 1) : text[j][1] # ""})
        Id(i)    == IF Len(text) > 1 THEN Append(base, i - 1)
                    ELSE IF Len(base) > 1 THEN base ELSE Append(base, 0)
    IN  [i \in DOMAIN text |->
            [Block(Id(i), TagType(text[i][1], default), <<<<"", text[i][2], text[i][3]>>>>)
                EXCEPT !.key = TagKey(text[i], Index(i))]]

\* A thought inside a text, which makes the normalizers decompose it.
HasThinking(text) == \E i \in DOMAIN text : text[i][1] = "thinking"

DecomposeReply(text, base) ==
    IF HasThinking(text) THEN Decompose(text, "assistant_msg", base)
    ELSE <<Block(base, "assistant_msg", text)>>
-----------------------------------------------------------------------------
(* Blocks the normalizers have in common. *)

\* The JSON of a call, which mentions its id.
CallText(part) == <<<<"call", part.call, part.tool>>>>

ToolDef(tool) ==
    [Block(<<"tool_def", tool[1]>>, "tool_def", <<<<"tool", tool[1], tool[2]>>>>)
        EXCEPT !.tool = tool[1]]

\* A call without its text.
CallBlockEmpty(id, part) ==
    [Block(id, "assistant_msg", <<>>) EXCEPT !.call = part.call, !.tool = part.tool]

CallBlock(id, part) ==
    [Block(id, "assistant_msg", CallText(part)) EXCEPT !.call = part.call, !.tool = part.tool]

ThoughtBlock(id, key, part) ==
    [Block(id, "thought", part.text) EXCEPT !.key = <<"thinking", "">> \o key]

TextBlock(id, role, part) ==
    Block(id, IF role = "user" THEN "user_msg" ELSE "assistant_msg", part.text)

ResultBlock(id, part) ==
    [Block(id, "tool_result", part.text) EXCEPT !.call = part.call, !.error = part.error]

\* The blocks Of(m, p, part, message) for every part, numbered from 0.
PartBlocks(messages, Of(_, _, _, _)) ==
    FlattenSeq([m \in DOMAIN messages |->
        FlattenSeq([p \in DOMAIN messages[m].parts |->
            Of(m - 1, p - 1, messages[m].parts[p], messages[m])])])

Prompts(texts, base) ==
    FlattenSeq([i \in DOMAIN texts |-> Decompose(texts[i], "system", <<base, i - 1>>)])
-----------------------------------------------------------------------------
(* The requests, one operator per provider. *)

\* A history without the thoughts of the model.
AnthropicSpoken(m, p, part, msg) ==
    CASE part.kind = "text" -> <<TextBlock(<<"hist", m, p>>, msg.role, part)>>
      [] part.kind = "call" -> <<CallBlock(<<"hist", m, p>>, part)>>
      [] part.kind \in {"thought", "result"} -> <<>>

\* A message of a single text is sent as a string, and its id names no part.
AnthropicHistory(m, p, part, msg) ==
    CASE part.kind = "text" ->
            <<TextBlock(IF Len(msg.parts) = 1 THEN <<"hist", m>> ELSE <<"hist", m, p>>,
                        msg.role, part)>>
      [] part.kind = "thought" -> <<ThoughtBlock(<<"hist", m, p>>, <<m, p>>, part)>>
      [] part.kind = "call" -> <<CallBlock(<<"hist", m, p>>, part)>>
      [] part.kind = "result" -> <<>>

AnthropicRequest(req, messages) ==
    [system  |-> IF Len(req.system) = 1 THEN Decompose(req.system[1], "system", <<"sys">>)
                 ELSE Prompts(req.system, "sys"),
     history |-> PartBlocks(messages, AnthropicHistory),
     results |-> PartBlocks(messages, LAMBDA m, p, part, msg :
                    IF part.kind = "result"
                    THEN <<ResultBlock(<<"tool_res", part.call>>, part)>> ELSE <<>>)]

OpenAIHistory(m, p, part, msg) ==
    CASE msg.role \in {"system", "tool"} -> <<>>
      [] msg.role = "user" ->
            Decompose(part.text, "user_msg",
                      IF Len(msg.parts) = 1 THEN <<"hist", m>> ELSE <<"hist", m, p>>)
      [] msg.role = "assistant" /\ part.kind = "thought" ->
            <<ThoughtBlock(<<"hist_thought", m>>, <<m>>, part)>>
      [] msg.role = "assistant" /\ part.kind = "text" ->
            DecomposeReply(part.text, <<"hist", m>>)
      [] msg.role = "assistant" /\ part.kind = "call" ->
            <<CallBlock(<<"hist_call", m, part.call>>, part)>>

\* A tool message has no error flag.
OpenAIRequest(req, messages) ==
    [system  |-> PartBlocks(messages, LAMBDA m, p, part, msg :
                    IF msg.role = "system" THEN Decompose(part.text, "system", <<"sys", m>>)
                    ELSE <<>>),
     history |-> PartBlocks(messages, OpenAIHistory),
     results |-> PartBlocks(messages, LAMBDA m, p, part, msg :
                    IF msg.role = "tool"
                    THEN <<[ResultBlock(<<"tool_res", part.call>>, part) EXCEPT !.error = FALSE]>>
                    ELSE <<>>)]

GeminiHistory(m, p, part, msg) ==
    CASE part.kind = "text" /\ msg.role = "user" ->
            Decompose(part.text, "user_msg", <<"hist", m, p>>)
      [] part.kind = "text" /\ msg.role = "assistant" ->
            DecomposeReply(part.text, <<"hist", m, p>>)
      [] part.kind = "thought" -> <<ThoughtBlock(<<"hist", m, p>>, <<m, p>>, part)>>
      [] part.kind = "call" -> <<CallBlock(<<"hist", m, p>>, part)>>
      [] part.kind = "result" -> <<>>

GeminiRequest(req, messages) ==
    [system  |-> Prompts(req.system, "sys"),
     history |-> PartBlocks(messages, GeminiHistory),
     results |-> PartBlocks(messages, LAMBDA m, p, part, msg :
                    IF part.kind = "result"
                    THEN <<[ResultBlock(<<"tool_res", part.tool, m, p>>, part)
                                EXCEPT !.tool = part.tool]>>
                    ELSE <<>>)]
-----------------------------------------------------------------------------
(* The responses: of a body, and of a stream. *)

\* A block of an Anthropic stream carries its type as "block_type", and a call no text: the
\* normalizer takes each for a text, a call for one without content.
AnthropicReply(parts, streamed) ==
    [i \in DOMAIN parts |->
        CASE streamed -> Block(<<"resp", i - 1>>, "assistant_msg", parts[i].text)
          [] ~streamed /\ parts[i].kind = "text" ->
                TextBlock(<<"resp", i - 1>>, "assistant", parts[i])
          [] ~streamed /\ parts[i].kind = "thought" ->
                ThoughtBlock(<<"resp_thought", i - 1>>, <<i - 1>>, parts[i])
          [] ~streamed /\ parts[i].kind = "call" ->
                CallBlock(<<"resp_tool", parts[i].call>>, parts[i])]

\* The one choice of a completion, its parts in the order of the normalizer.
OpenAIReply(parts, streamed) ==
    LET thoughts == Kind(parts, "thought")
        texts    == Kind(parts, "text")
        calls    == Kind(parts, "call")
    IN  (IF streamed \/ thoughts = <<>> THEN <<>>
         ELSE <<ThoughtBlock(<<"resp_thought", 0>>, <<0>>, thoughts[1])>>)
        \o (IF texts = <<>> THEN <<>> ELSE DecomposeReply(texts[1].text, <<"resp_text", 0>>))
        \o [i \in DOMAIN calls |-> CallBlock(<<"resp_tool", calls[i].call>>, calls[i])]

\* A stream's thoughts are left out, which moves the parts after them.
GeminiReply(parts, streamed) ==
    LET kept == IF streamed THEN Those(parts, {p \in ToSet(parts) : p.kind # "thought"})
                ELSE parts
    IN  FlattenSeq([i \in DOMAIN kept |->
            CASE kept[i].kind = "text" ->
                    DecomposeReply(kept[i].text, <<"resp_text", 0, i - 1>>)
              [] kept[i].kind = "thought" ->
                    <<ThoughtBlock(<<"resp_thought", 0, i - 1>>, <<0, i - 1>>, kept[i])>>
              [] kept[i].kind = "call" ->
                    <<CallBlock(<<"resp_tool", kept[i].tool, 0, i - 1>>,
                                [kept[i] EXCEPT !.call = ""])>>])

\* normalize: the canonical turn of an exchange.
Normalize(provider, req, reply, streamed, input, index) ==
    LET messages == WireMessages(provider, req)
        request  == CASE provider = "anthropic" -> AnthropicRequest(req, messages)
                      [] provider = "openai" -> OpenAIRequest(req, messages)
                      [] provider = "gemini" -> GeminiRequest(req, messages)
    IN  [index   |-> index,
         provider |-> provider,
         system  |-> request.system,
         tools   |-> [i \in DOMAIN req.tools |-> ToolDef(req.tools[i])],
         history |-> request.history,
         results |-> request.results,
         reply   |-> CASE provider = "anthropic" -> AnthropicReply(reply, streamed)
                       [] provider = "openai" -> OpenAIReply(reply, streamed)
                       [] provider = "gemini" -> GeminiReply(reply, streamed),
         input   |-> input]

\* is_human_interaction: the last message brings a user's text, not only results.
IsHuman(provider, req) ==
    LET msgs == WireMessages(provider, req)
        last == msgs[Len(msgs)]
    IN  last.role = "user" /\ Kind(last.parts, "text") # <<>>
=============================================================================
