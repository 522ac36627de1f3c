----------------------------- MODULE Heuristics -----------------------------
(***************************************************************************)
(* The PollutionAnalyzer and its seven rules (core/analyzer), over a turn, *)
(* the turns before it and its difference from the last of them.  The      *)
(* thresholds are constants, the ratios those of the code.  Costs are not  *)
(* modelled; a violation is [rule, severity, blocks : a set of ids].       *)
(***************************************************************************)
EXTENDS Blocks

CONSTANTS
    MinTurns,       \* min_turns of CTX-001 and CTX-006
    StaleTokens,    \* min_tokens of CTX-001
    ZombieTokens,   \* min_tokens of CTX-006
    MinTools,       \* min_tool_count of CTX-002
    ErrorTurns,     \* consecutive_errors of CTX-003
    Occurrences,    \* occurrence_threshold of CTX-004
    RecurringBlock, \* min_block_tokens of CTX-004
    RecurringTotal, \* token_threshold of CTX-004
    RecurringFlood  \* the tokens from which CTX-004 is critical

ASSUME ThresholdsAssumption ==
    /\ {MinTurns, ErrorTurns, Occurrences} \subseteq Nat \ {0, 1}
    /\ {StaleTokens, ZombieTokens, MinTools, RecurringBlock, RecurringTotal,
        RecurringFlood} \subseteq Nat

Violation(rule, severity, blocks) == [rule |-> rule, severity |-> severity, blocks |-> blocks]

LastOf(turns, n) == SubSeq(turns, IF Len(turns) > n THEN Len(turns) - n + 1 ELSE 1, Len(turns))

RepliesOf(turns) == FlattenSeq([i \in DOMAIN turns |-> turns[i].reply])

\* The id of a tool call occurs in the text of a block.
Mentions(b, id) == id # "" /\ \E i \in DOMAIN b.hash : b.hash[i][2] = id
Mentioned(blocks, id) == \E i \in DOMAIN blocks : Mentions(blocks[i], id)

\* Joining the texts of blocks fails on a block without content.
Joins(blocks) == \A i \in DOMAIN blocks : blocks[i].hash # <<>>

EffectiveInput(turn) == IF turn.input > 0 THEN turn.input ELSE Size(AllBlocks(turn))
-----------------------------------------------------------------------------
(* CTX-001: a large tool result that stays for MinTurns turns although no  *)
(* recent reply mentions it.                                               *)

StaleScope(prev, turn) ==
    Len(prev) >= MinTurns \/ \E i \in DOMAIN turn.results : turn.results[i].survived >= MinTurns

StaleReplies(prev, turn) == RepliesOf(LastOf(prev, 2)) \o turn.reply

StaleResult(prev, turn, b) ==
    /\ SizeOf(b.hash) >= StaleTokens
    /\ \/ b.survived >= MinTurns
       \/ /\ Len(prev) >= MinTurns
          /\ LET older == prev[Len(prev) - MinTurns + 1].results
             IN  \E i \in DOMAIN older : older[i].hash = b.hash \/ older[i].id = b.id
    /\ ~Mentioned(StaleReplies(prev, turn), b.call)

StaleTool(prev, turn) ==
    IF ~StaleScope(prev, turn) THEN {}
    ELSE {Violation("CTX-001", "WARN", {b.id}) :
            b \in {r \in ToSet(turn.results) : StaleResult(prev, turn, r)}}
-----------------------------------------------------------------------------
(* CTX-002: many tool definitions, of which few were ever called.          *)

\* The tools a turn shows as called: Gemini's results name theirs, and only the calls of an
\* Anthropic reply are in the form the rule parses.
CalledTools(t) ==
    {b.tool : b \in ToSet(t.results)}
    \cup (IF t.provider = "anthropic" THEN {b.tool : b \in ToSet(t.reply)} ELSE {})

SchemaBloat(prev, turn) ==
    LET tokens == Size(turn.tools)
        names  == {b.tool : b \in ToSet(turn.tools)}
        called == names \cap UNION {CalledTools(t) : t \in ToSet(prev) \cup {turn}}
    IN  IF /\ 100 * tokens > 35 * EffectiveInput(turn)
           /\ Len(turn.tools) > MinTools
           /\ 100 * Cardinality(called) < 15 * Len(turn.tools)
        THEN {Violation("CTX-002", "WARN", ToSet(Ids(turn.tools)))}
        ELSE {}
-----------------------------------------------------------------------------
(* CTX-003: a failing tool result in each of the last ErrorTurns turns.    *)

Errors(t) == {b \in ToSet(t.results) : b.error}

\* The texts of the errors of two turns count as similar when an error is in both.
ErrorLoop(prev, turn) ==
    LET recent == LastOf(prev, ErrorTurns - 1) \o <<turn>>
        Alike(i) == {b.hash : b \in Errors(recent[i])}
                    \cap {b.hash : b \in Errors(recent[i + 1])} # {}
    IN  IF /\ Len(recent) = ErrorTurns
           /\ \A i \in DOMAIN recent : Errors(recent[i]) # {}
           /\ \E i \in 1..(Len(recent) - 1) : Alike(i)
        THEN {Violation("CTX-003", "CRITICAL", {b.id : b \in Errors(turn)})}
        ELSE {}
-----------------------------------------------------------------------------
(* CTX-004: the same tool results over and over.                           *)

TimesSeen(prev, turn, i) ==
    LET b == turn.results[i]
        earlier == {j \in DOMAIN prev : \E r \in ToSet(prev[j].results) : r.hash = b.hash}
        again   == {j \in DOMAIN turn.results : j # i /\ turn.results[j].hash = b.hash}
        seen    == 1 + Cardinality(earlier)
    IN  (IF b.survived + 1 > seen THEN b.survived + 1 ELSE seen) + Cardinality(again)

RecurringResults(prev, turn) ==
    LET recurring == {i \in DOMAIN turn.results :
                        /\ SizeOf(turn.results[i].hash) >= RecurringBlock
                        /\ TimesSeen(prev, turn, i) >= Occurrences}
        tokens == FoldLeftDomain(LAMBDA n, i :
                    IF i \in recurring THEN n + SizeOf(turn.results[i].hash) ELSE n,
                    0, turn.results)
        input  == IF turn.input > 0 THEN turn.input ELSE 1
    IN  IF recurring # {} /\ (tokens >= RecurringTotal \/ 100 * tokens >= 20 * input)
        THEN {Violation("CTX-004",
                        IF tokens >= RecurringFlood \/ 100 * tokens >= 50 * input
                        THEN "CRITICAL" ELSE "WARN",
                        {turn.results[i].id : i \in recurring})}
        ELSE {}
-----------------------------------------------------------------------------
(* CACHE-001: the system prompt is not that of the turn before.            *)

Hashes(blocks) == [i \in DOMAIN blocks |-> blocks[i].hash]

\* The rule comparing with the first turn.
PrefixBreakSinceFirst(prev, turn) ==
    IF prev = <<>> \/ Hashes(Head(prev).system) = Hashes(turn.system) THEN {}
    ELSE {Violation("CACHE-001", "CRITICAL", ToSet(Ids(turn.system)))}

PrefixBreak(prev, turn) ==
    IF prev = <<>> \/ Hashes(Last(prev).system) = Hashes(turn.system) THEN {}
    ELSE LET old == Last(prev).system
             new == turn.system
             i == SelectInSeq([j \in DOMAIN new |-> <<j, new[j].hash>>],
                              LAMBDA e : e[1] > Len(old) \/ e[2] # old[e[1]].hash)
             culprit == IF i > 0 THEN new[i] ELSE IF new # <<>> THEN new[1] ELSE old[1]
         IN  {Violation("CACHE-001", "CRITICAL", {culprit.id})}
-----------------------------------------------------------------------------
(* CTX-006: a tool result that stays for MinTurns turns although nothing   *)
(* of the recent conversation mentions it.                                 *)

\* The words of a turn without the conversation before it.
SpokenNow(t) == t.reply

Spoken(t) ==
    t.reply \o Those(t.history, {b \in ToSet(t.history) : b.type \in {"user_msg", "assistant_msg"}})

RecentText(prev, turn) ==
    LET recent == LastOf(prev, 2) \o <<turn>>
    IN  FlattenSeq([i \in DOMAIN recent |-> Spoken(recent[i])])

\* For how many turns up to the last one a result was there.
ConsecutiveTurns(prev, b) ==
    LET Shows(i) == \E r \in ToSet(prev[i].results) : r.id = b.id \/ r.hash = b.hash
        absent   == {0} \cup {i \in DOMAIN prev : ~Shows(i)}
    IN  Len(prev) - CHOOSE i \in absent : \A j \in absent : j <= i

ZombieResult(prev, turn, b) ==
    /\ SizeOf(b.hash) > ZombieTokens
    /\ b.survived >= MinTurns \/ ConsecutiveTurns(prev, b) >= MinTurns
    /\ ~Mentioned(RecentText(prev, turn), b.call)

ZombieContext(prev, turn) ==
    {Violation("CTX-006", "WARN", {b.id}) :
        b \in {r \in ToSet(turn.results) : ZombieResult(prev, turn, r)}}
-----------------------------------------------------------------------------
(* CTX-007: the static part of the prompt changed.                         *)

StaticOf(blocks) == SelectSeq(blocks, LAMBDA b : b.type \in StaticTypes)

\* delta is the difference the graph recorded for the turn.
CacheBusting(prev, turn, delta) ==
    LET blocks  == AllBlocks(turn)
        mutated == {b \in ToSet(StaticOf(blocks)) : b.id \in ToSet(delta.mutated)}
        bp      == IF delta.breakpoint = None THEN 0
                   ELSE SelectInSeq(blocks, LAMBDA b : b.id = delta.breakpoint)
        before  == SubSeq(blocks, 1, bp - 1)
        early   == \/ bp = 0
                   \/ 100 * Len(before) <= 30 * Len(blocks)
                   \/ 100 * Size(before) <= 30 * Size(blocks)
        changed == Hashes(StaticOf(AllBlocks(Last(prev)))) # Hashes(StaticOf(blocks))
        follows == bp > 0 /\ StaticOf(SubSeq(blocks, bp, Len(blocks))) # <<>>
        busted  == \/ mutated # {}
                   \/ bp > 0 /\ blocks[bp].type \in StaticTypes
                   \/ early /\ (changed \/ follows)
        named   == (IF bp > 0 THEN {blocks[bp]} ELSE {}) \cup mutated
    IN  IF prev = <<>> \/ ~busted THEN {}
        ELSE {Violation("CTX-007",
                        IF \E b \in named : b.type \in {"system", "skill"}
                        THEN "CRITICAL" ELSE "WARN",
                        IF named = {} THEN {blocks[1].id} ELSE {b.id : b \in named})}
-----------------------------------------------------------------------------
(* The analyzer. *)

\* Two rules join texts, and raise when a reply block among them has none.
Raises(prev, turn) ==
    \/ StaleScope(prev, turn) /\ ~Joins(StaleReplies(prev, turn))
    \/ turn.results # <<>> /\ ~Joins(RecentText(prev, turn))

\* analyze_turn: what every rule found, when none of them raises.
AnalyzeTurn(prev, turn, delta) ==
    UNION {StaleTool(prev, turn), SchemaBloat(prev, turn), ErrorLoop(prev, turn),
           RecurringResults(prev, turn), PrefixBreak(prev, turn),
           ZombieContext(prev, turn), CacheBusting(prev, turn, delta)}

\* calculate_score, from the violations of each turn: 100 is a critical one per turn.
Score(violations) ==
    LET Count(found, severity) == Cardinality({v \in found : v.severity = severity})
        penalty == FoldLeft(LAMBDA n, found :
                        n + 8 * Count(found, "WARN") + 20 * Count(found, "CRITICAL"),
                        0, violations)
        percent == (100 * penalty) \div (20 * Len(violations))
    IN  IF violations = <<>> THEN 0 ELSE IF percent > 100 THEN 100 ELSE percent
=============================================================================
