------------------------------ MODULE Analysis ------------------------------
(***************************************************************************)
(* One session as the core sees it: an agent's conversation with a         *)
(* provider, exchange by exchange, and what handle_wire_envelope makes of  *)
(* each (cli.py): a canonical turn, which enters the context graph or, at  *)
(* human granularity, replaces the blocks of the turn in progress, and the *)
(* analysis of that turn.                                                  *)
(***************************************************************************)
EXTENDS Normalizers, ContextGraph, Heuristics

CONSTANTS
    Modes,          \* [provider, streamed, granularity] of the sessions
    Scenes,         \* what the agent may have as [system, tools]
    FirstScene,     \* and what it starts with
    CallIds,        \* the ids of calls, two for each exchange
    MaxExchanges,   \* bound: exchanges of the session
    MaxOddities     \* bound: unusual events of the session

ASSUME AnalysisAssumption ==
    /\ FirstScene \in Scenes
    /\ {MaxExchanges, MaxOddities} \subseteq Nat
    /\ CallIds \in Seq(STRING \ {""}) /\ Len(CallIds) >= 2 * MaxExchanges
    /\ Scenes \subseteq [system : Seq(Seq(STRING \X STRING \X STRING)),
                         tools : Seq(STRING \X STRING)]
    /\ Modes \subseteq [provider : Provider, streamed : BOOLEAN,
                        granularity : {"step", "human"}]

VARIABLES
    mode,       \* provider, streaming and granularity of the session
    scene,      \* the system prompt and the tools of the agent's last request
    messages,   \* the agent's conversation, the last reply included
    graph,      \* ContextGraph, whose turns are those of the store
    found,      \* the violations stored with each turn
    published,  \* the last TURN_COMPLETED: [violations, score]
    steps,      \* history: the canonical form of every exchange
    oddities    \* unusual events so far

vars == <<mode, scene, messages, graph, found, published, steps, oddities>>

Exchanges == Len(steps)
LastIndex == Len(graph.turns) - 1
-----------------------------------------------------------------------------
(* The agent and its provider. *)

\* Plain text, which may mention the id of a call.
Plain(mark, body) == <<<<"", mark, body>>>>

\* The calls of the last reply, which wait for their results.
OpenCalls == IF messages = <<>> THEN <<>> ELSE Kind(Last(messages).parts, "call")

Results(body, error) ==
    [i \in DOMAIN OpenCalls |->
        Result(OpenCalls[i].call, OpenCalls[i].tool, Plain("", body), error)]

UserSays(parts) == Append(messages, [role |-> "user", parts |-> parts])

\* The next conversation, as <<messages, whether this is unusual>>: the user asks, the calls
\* are answered with a dump or with a failure, the user interrupts them, names a file of the
\* environment or has the conversation compacted.
Prompted ==
    IF OpenCalls = <<>>
    THEN {<<UserSays(<<Text(Plain("", "go"))>>), FALSE>>,
          <<UserSays(<<Text(<<<<"", "", "go">>, <<"context", "file", "open">>>>)>>), TRUE>>}
         \cup (IF messages = <<>> THEN {}
               ELSE {<<<<[role |-> "user", parts |-> <<Text(Plain("", "summary"))>>]>>, TRUE>>})
    ELSE {<<UserSays(Results("dump", FALSE)), FALSE>>,
          <<UserSays(Results("failed", TRUE)), FALSE>>,
          <<UserSays(Append(Results("dump", FALSE), Text(Plain("", "stop")))), TRUE>>}

\* The next reply: an answer or a call, which may come with a thought, or mention the first
\* call, or call a tool twice.
Replies ==
    LET n    == Exchanges + 1
        id   == CallIds[2 * n - 1]
        body == CallIds[2 * n]
    IN  {<<<<Text(Plain("", body))>>, FALSE>>,
         <<<<Call(id, "read")>>, FALSE>>,
         <<<<Thought(Plain("", "plan")), Text(Plain("", body)), Call(id, "read")>>, TRUE>>,
         <<<<Text(<<<<"thinking", "", "plan">>, <<"", CallIds[1], body>>>>)>>, TRUE>>,
         <<<<Call(id, "read"), Call(CallIds[2 * n], "read")>>, TRUE>>}

\* The input tokens the provider reports.  OpenAI reports none for a stream.
ReportedInput(turn) ==
    IF mode.provider = "openai" /\ mode.streamed THEN 0
    ELSE Size(turn.system \o turn.tools \o turn.history \o turn.results)
-----------------------------------------------------------------------------
(* handle_wire_envelope, TURN_COMPLETED. *)

Opens(req) ==
    \/ mode.granularity = "step"
    \/ graph.turns = <<>>
    \/ IsHuman(mode.provider, req)

\* What the analyzer makes of the turn of this index; when it raises, the turn keeps the old
\* violations.
Analyzed(g, index, old) ==
    LET prev    == SubSeq(g.turns, 1, index)
        turn    == g.turns[index + 1]
        raises  == Raises(prev, turn)
        verdict == AnalyzeTurn(prev, turn, DeltaOf(g, index))
        stored  == Append(SubSeq(found, 1, index), IF raises THEN old ELSE verdict)
    IN  /\ graph' = g
        /\ found' = stored
        /\ published' = [violations |-> IF raises THEN {} ELSE verdict,
                         score |-> Score(stored)]

\* The first step of a turn: append_turn.
OpenTurn(req, turn) ==
    /\ Opens(req)
    /\ Analyzed(AddTurn(graph, turn), turn.index, {})

\* A further step taken for a turn of its own.
ContinueAsTurn(req, turn) ==
    /\ ~Opens(req)
    /\ Analyzed(AddTurn(graph, [turn EXCEPT !.index = @ + 1]), turn.index + 1, {})

\* A further step of the turn in progress: tokens accumulate, blocks are replaced.
ContinueTurn(req, turn) ==
    /\ ~Opens(req)
    /\ Analyzed(UpdateTurn(graph, [turn EXCEPT !.input = @ + Last(graph.turns).input]),
                turn.index, Last(found))

Exchange ==
    /\ Exchanges < MaxExchanges
    /\ \E prompt \in Prompted, next \in Scenes, reply \in Replies :
        LET req   == [system |-> next.system, tools |-> next.tools, messages |-> prompt[1]]
            index == IF Opens(req) THEN Len(graph.turns) ELSE LastIndex
            raw   == Normalize(mode.provider, req, reply[1], mode.streamed, 0, index)
            turn  == [raw EXCEPT !.input = ReportedInput(raw)]
            odd   == Cardinality({e \in {"prompt", "scene", "reply"} :
                        CASE e = "prompt" -> prompt[2]
                          [] e = "scene" -> next \notin {scene, FirstScene}
                          [] e = "reply" -> reply[2]})
        IN  /\ oddities + odd <= MaxOddities
            /\ OpenTurn(req, turn) \/ ContinueTurn(req, turn)
            /\ scene' = next
            /\ messages' = Append(prompt[1], [role |-> "assistant", parts |-> reply[1]])
            /\ steps' = Append(steps, turn)
            /\ oddities' = oddities + odd
            /\ UNCHANGED mode

Init ==
    /\ mode \in Modes
    /\ scene = FirstScene
    /\ messages = <<>>
    /\ graph = EmptyGraph
    /\ found = <<>>
    /\ published = [violations |-> {}, score |-> 0]
    /\ steps = <<>>
    /\ oddities = 0

Next == Exchange

Spec == Init /\ [][Next]_vars
-----------------------------------------------------------------------------
(* Properties. *)

CurrTurn == graph.turns[LastIndex + 1]
PrevTurn == IF LastIndex = 0 THEN None ELSE graph.turns[LastIndex]
PrevBlocks == IF LastIndex = 0 THEN <<>> ELSE AllBlocks(PrevTurn)
StepsOf(index) == Those(steps, {s \in ToSet(steps) : s.index = index})

\* The last turn has one step, so what was computed when it was added is about it.
Opened ==
    graph.turns # <<>> /\ \A i \in 1..(Exchanges - 1) : steps[i].index # LastIndex

\* No two blocks of one identity differ in content.
Coherent(blocks) ==
    \A b, c \in ToSet(blocks) : Key(b) = Key(c) => b.hash = c.hash

BlockTypes == {"system", "tool_def", "skill", "user_msg", "assistant_msg", "thought",
               "tool_result", "injected_state"}

\* Turns are numbered from 0, each with its violations and its difference; the blocks of a
\* turn are of the types the normalizers make and have ids of their own.
TypeOK ==
    /\ mode \in Modes /\ scene \in Scenes
    /\ Exchanges <= MaxExchanges /\ oddities \in 0..MaxOddities
    /\ Len(found) = Len(graph.turns) /\ Len(graph.deltas) = Len(graph.turns)
    /\ \A i \in DOMAIN graph.turns : graph.turns[i].index = i - 1
    /\ published.score \in 0..100
    /\ graph.turns # <<>> =>
        /\ {b.type : b \in ToSet(AllBlocks(CurrTurn))} \subseteq BlockTypes
        /\ Ids(Distinct(AllBlocks(CurrTurn))) = Ids(AllBlocks(CurrTurn))

\* The turns with a step that showed a block of this identity.
ShownIn(k) == {steps[i].index : i \in {j \in DOMAIN steps : k \in Keys(AllBlocks(steps[j]))}}

\* The number of turns before the one of this index that are among these without a gap.
Streak(turns, index) ==
    LET gaps == {-1} \cup (0..(index - 1) \ turns)
    IN  index - 1 - CHOOSE i \in gaps : \A j \in gaps : j <= i

\* The turns whose first step did not show a block of this identity, though a later step did,
\* after a turn without it.
CameBackLate(k) ==
    {i \in ShownIn(k) :
        /\ i - 1 \notin ShownIn(k) /\ \E h \in ShownIn(k) : h < i
        /\ \E j \in DOMAIN steps :
            /\ steps[j].index = i /\ \A n \in 1..(j - 1) : steps[n].index # i
            /\ k \notin Keys(AllBlocks(steps[j]))}

\* The lineage is the history of the steps (turn_tree.py, add_turn and update_turn): a block
\* was seen in the turns that had a step with it, first and last in the first and the last of
\* these.  It never survived more turns than showed it one after the other, unless it was back
\* in the middle of a turn: "re-introduced after absence: ... reset survival" (turn_tree.py:102)
\* holds of add_turn alone.  With a turn per exchange it survived those that showed it unchanged.
LineageIsSurvival ==
    \A k \in DOMAIN graph.lineage :
        LET rec == graph.lineage[k]
            HashIn(i) == FirstWith(AllBlocks(steps[i + 1]), k).hash
        IN  /\ rec.seen = ShownIn(k)
            /\ {rec.first, rec.last} \subseteq rec.seen
            /\ \A i \in rec.seen : rec.first <= i /\ i <= rec.last
            /\ CameBackLate(k) = {} => rec.survived <= Streak(ShownIn(k), rec.last)
            /\ mode.granularity = "step" =>
                /\ rec.hash = HashIn(rec.last)
                /\ rec.survived = Streak({i \in ShownIn(k) : HashIn(i) = rec.hash}, rec.last)

Total(breakdown, categories) ==
    FoldLeft(LAMBDA n, c : n + breakdown[c], 0, categories)

\* What the web shows of a turn (turn_serializer.py), what the terminal shows (state.py) and
\* what the lineage says agree, though each computes it for itself: every block has the same
\* status, the web only leaving out evicted blocks whose id is used again; with a turn per
\* exchange a block is shown as persisted just when it survived; and both break the same
\* total of tokens down.
ViewsAgree ==
    graph.turns # <<>> =>
        LET now == Ids(AllBlocks(CurrTurn))
        IN  /\ Annotated(PrevTurn, CurrTurn)
                = SelectSeq(Transitions(PrevTurn, CurrTurn),
                            LAMBDA e : e[2] = "evicted" => e[1] \notin ToSet(now))
            /\ (mode.granularity = "step"
                /\ Coherent(AllBlocks(CurrTurn)) /\ Coherent(PrevBlocks)) =>
                    \A b \in ToSet(AllBlocks(CurrTurn)) :
                        (b.survived > 0) <=> (Status(PrevBlocks, b) = "persisted")
            /\ Total(WebBreakdown(CurrTurn),
                     <<"system", "tools", "skills", "thoughts", "results", "history">>)
                = Total(TuiBreakdown(CurrTurn),
                        <<"system", "tools", "history", "results", "assistant">>)

\* The blocks of a prompt up to the last static one, which a provider caches.
CachedPrefix(blocks) ==
    SubSeq(blocks, 1, SelectLastInSeq(blocks, LAMBDA b : b.type \in StaticTypes))

\* Cache alarms are right about the turn that opens (cache001_prefix_break.py,
\* cache_invalidation.py): one is only raised when the prompt up to its last static block is
\* not how the last turn began or a static block is gone, and new content in the system
\* prompt or the tools always raises one.
AlarmsAreRight ==
    (Opened /\ LastIndex > 0 /\ published.violations # {}
     /\ Coherent(AllBlocks(CurrTurn)) /\ Coherent(PrevBlocks)) =>
        LET raised(rules) == \E v \in published.violations : v.rule \in rules
            blocks == AllBlocks(CurrTurn)
            fresh(now, old) == ToSet(Hashes(now)) \ ToSet(Hashes(old)) # {}
        IN  /\ raised({"CACHE-001", "CTX-007"}) =>
                \/ ~IsPrefix(Hashes(CachedPrefix(blocks)), Hashes(PrevBlocks))
                \/ Hashes(StaticOf(blocks)) # Hashes(StaticOf(PrevBlocks))
            /\ fresh(CurrTurn.system, PrevTurn.system) => raised({"CACHE-001"})
            /\ fresh(StaticOf(CurrTurn.system \o CurrTurn.tools), StaticOf(PrevBlocks)) =>
                raised({"CTX-007"})

\* Only results without a call id are ever zombies (zombie_context.py): a call of the history
\* mentions its id as long as its result is there.  Those of Gemini, which have none, always
\* are once they stay for MinTurns turns.
ZombiesAreNameless ==
    LET zombies == UNION {v.blocks : v \in {w \in published.violations : w.rule = "CTX-006"}}
        stays(b) == \A i \in (LastIndex - MinTurns)..LastIndex :
                        \E r \in ToSet(graph.turns[i + 1].results) : r.hash = b.hash
    IN  /\ mode.provider # "gemini" => zombies = {}
        /\ (mode.provider = "gemini" /\ LastIndex >= MinTurns) =>
            \A b \in ToSet(CurrTurn.results) :
                (SizeOf(b.hash) > ZombieTokens /\ stays(b)) => b.id \in zombies

\* The analysis of a turn only fails where calls arrive without content, as those of an
\* Anthropic stream do (addon.py, _build_synthetic_response).  Nothing is published of such a
\* turn, and as the last one it keeps what its earlier steps were found to do wrong.
OnlyStreamedCallsFail ==
    (graph.turns # <<>> /\ Raises(SubSeq(graph.turns, 1, LastIndex), CurrTurn)) =>
        /\ mode.provider = "anthropic" /\ mode.streamed
        /\ published.violations = {}
        /\ Opened => Last(found) = {}

\* The texts of a section, as they were said.
Bodies(blocks) == FlattenSeq([i \in DOMAIN blocks |->
                    [j \in DOMAIN blocks[i].hash |-> blocks[i].hash[j][3]]])
BodiesOf(texts) == FlattenSeq([i \in DOMAIN texts |->
                    [j \in DOMAIN texts[i] |-> texts[i][j][3]]])
Said(ms, kinds, Text_(_)) ==
    FlattenSeq([m \in DOMAIN ms |->
        LET parts == SelectSeq(ms[m].parts, LAMBDA p : p.kind \in kinds)
        IN  [i \in DOMAIN parts |-> Text_(parts[i])]])

\* Whatever the provider's format, every text of a request is in its canonical turn once and
\* in order, with no other (the normalizers): system prompts, thoughts, texts and calls of the
\* conversation, results.
NothingIsLost ==
    graph.turns # <<>> =>
        LET request == Front(messages)
            TextOf(p) == IF p.kind = "call" THEN CallText(p) ELSE p.text
        IN  /\ Bodies(CurrTurn.system) = BodiesOf(scene.system)
            /\ Bodies(CurrTurn.history)
                = BodiesOf(Said(request, {"text", "thought", "call"}, TextOf))
            /\ Bodies(CurrTurn.results) = BodiesOf(Said(request, {"result"}, TextOf))

\* Every result goes with its own call (ast.py, tool_invocations), by its id or, for Gemini,
\* by its tool and place; the calls left alone are those of the reply.
InvocationsAreRight ==
    graph.turns # <<>> =>
        LET inv == Invocations(CurrTurn)
            calls == {b \in ToSet(CurrTurn.history) : b.tool # ""}
        IN  /\ {p[1] : p \in inv.pairs} = calls
            /\ {p[2] : p \in inv.pairs} = ToSet(CurrTurn.results)
            /\ Cardinality(inv.pairs) = Len(CurrTurn.results)
            /\ inv.calls \subseteq ToSet(CurrTurn.reply)
            /\ \A p \in inv.pairs :
                IF mode.provider = "gemini" THEN p[2].id[3] = p[1].id[2] + 1
                ELSE p[1].call = p[2].call

\* What the model said is not new in the next turn (the normalizers): texts and calls of a
\* reply are blocks of the same identity when the client sends them back.  A call of an
\* Anthropic stream, which has no content, is not, nor is a thought, whose identity is its
\* place.
ReplyIsRemembered ==
    (Opened /\ LastIndex > 0 /\ Len(messages) > 2) =>
        \A b \in ToSet(PrevTurn.reply) :
            (b.type # "thought" /\ b.hash # <<>>
             /\ ~(mode.provider = "anthropic" /\ mode.streamed
                  /\ \E p \in ToSet(messages[Len(messages) - 2].parts) :
                        p.kind = "thought" /\ p.text = b.hash)) =>
                Key(b) \in Keys(CurrTurn.history)

\* At human granularity a turn is a question of the user with all that follows it (cli.py),
\* else it is one exchange: a turn shows the blocks of its last exchange and counts the tokens
\* of all of them, and the exchanges after its first have brought results.
TurnsAreQuestions ==
    \A i \in DOMAIN graph.turns :
        LET own == StepsOf(i - 1)
            input[n \in 1..Len(own)] ==
                IF n = 1 THEN own[1].input ELSE own[n].input + input[n - 1]
        IN  /\ own # <<>>
            /\ Hashes(AllBlocks(graph.turns[i])) = Hashes(AllBlocks(Last(own)))
            /\ graph.turns[i].input = input[Len(own)]
            /\ \A j \in 2..Len(own) : mode.granularity = "human" /\ own[j].results # <<>>
=============================================================================
