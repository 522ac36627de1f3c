------------------------------- MODULE Blocks -------------------------------
(***************************************************************************)
(* Canonical turns and what is computed from two of them: the difference   *)
(* of consecutive turns (core/graph/diff.py), its two renderings, for the  *)
(* web (presentation/web/turn_serializer.py) and for the terminal          *)
(* (presentation/tui/state.py), and the pairing of tool calls with their   *)
(* results (schema/ast.py).                                                *)
(*                                                                         *)
(* A text is a sequence of segments <<tag, mark, body>>: the tag or the    *)
(* kind of section ("" for plain text), its name or, in plain text, the id *)
(* of the tool call it mentions, and what it says.  A text stands for its  *)
(* own content hash: hashes are taken to be free of collisions.            *)
(***************************************************************************)
EXTENDS Naturals, Integers, Sequences, SequencesExt, FiniteSets

CONSTANTS
    Heavy,          \* bodies that take many tokens
    HeavyTokens,    \* their size; any other segment has one token
    None            \* Python's None

ASSUME HeavyAssumption == HeavyTokens \in Nat \ {0}

\* A ContextBlock; key = <<>> stands for the empty identity_key, call = "" for no call_id.
Block(id, type, text) ==
    [id |-> id, type |-> type, hash |-> text, key |-> <<>>, call |-> "", tool |-> "",
     error |-> FALSE, first |-> 0, survived |-> 0]

StaticTypes == {"system", "tool_def", "skill"}

\* The elements of a sequence that are in a set, in order: SelectSeq, first-order.
Those(seq, set) ==
    FlattenSeq([i \in DOMAIN seq |-> IF seq[i] \in set THEN <<seq[i]>> ELSE <<>>])

\* CanonicalTurn.all_blocks.
AllBlocks(t) == t.system \o t.tools \o t.history \o t.results \o t.reply

\* estimate_tokens, and the sum over some blocks.
SizeOf(text) ==
    Len(text) + (HeavyTokens - 1) * Len(SelectSeq(text, LAMBDA s : s[3] \in Heavy))
Size(blocks) == FoldLeft(LAMBDA n, b : n + SizeOf(b.hash), 0, blocks)

\* An identity of a block that falls back on its place.
KeyByPlace(b) == <<b.type, b.key, IF b.key = <<>> THEN b.id ELSE <<>>>>

\* _block_key and _block_match_key: the identity of a block, else its content.
Key(b) == <<b.type, b.key, IF b.key = <<>> THEN b.hash ELSE <<>>>>

Keys(blocks) == {Key(blocks[i]) : i \in DOMAIN blocks}

FirstWith(blocks, k) == blocks[SelectInSeq(blocks, LAMBDA b : Key(b) = k)]

Ids(blocks) == [i \in DOMAIN blocks |-> blocks[i].id]

\* The first block of each id.
Distinct(blocks) ==
    FoldLeft(LAMBDA kept, b : IF b.id \in ToSet(Ids(kept)) THEN kept ELSE Append(kept, b),
             <<>>, blocks)
-----------------------------------------------------------------------------
(* TurnDiffEngine. *)

\* A status that takes the identity of a block for its content.
StatusByKey(old, b) == IF Key(b) \in Keys(old) THEN "persisted" ELSE "added"

\* What became of a block of the current turn, given the blocks of the previous one.
Status(old, b) ==
    IF Key(b) \notin Keys(old) THEN "added"
    ELSE IF b.key # <<>> /\ b.hash # FirstWith(old, Key(b)).hash THEN "mutated"
    ELSE "persisted"

Breakpoint(blocks, persisted) ==
    LET i == SelectInSeq(blocks, LAMBDA b : b.id \notin ToSet(persisted))
    IN  IF i = 0 THEN None ELSE blocks[i].id

\* compute_delta(prev, curr); prev is None for the first turn.
ComputeDelta(prev, curr) ==
    LET old == IF prev = None THEN <<>> ELSE AllBlocks(prev)
        new == AllBlocks(curr)
        Having(status) ==
            Ids(SelectSeq(Distinct(new), LAMBDA b : Status(old, b) = status))
        reported == curr.input > 0 \/ (prev # None /\ prev.input > 0)
    IN  [added     |-> Having("added"),
         removed   |-> Ids(SelectSeq(Distinct(old), LAMBDA b : Key(b) \notin Keys(new))),
         persisted |-> Having("persisted"),
         mutated   |-> Having("mutated"),
         breakpoint |-> IF prev = None THEN None ELSE Breakpoint(new, Having("persisted")),
         growth    |-> IF reported
                       THEN curr.input - (IF prev = None THEN 0 ELSE prev.input)
                       ELSE Size(new) - Size(old)]
-----------------------------------------------------------------------------
(* The renderings of a difference: sequences of <<block id, status>>. *)

\* annotate_blocks_lifecycle: an evicted block is left out when a block of the current turn
\* took its id, for ids name positions.
Annotated(prev, curr) ==
    LET delta   == ComputeDelta(prev, curr)
        now     == Ids(Distinct(AllBlocks(curr)))
        Was(id) == IF id \in ToSet(delta.added) THEN "added"
                   ELSE IF id \in ToSet(delta.mutated) THEN "mutated" ELSE "persisted"
    IN  [i \in DOMAIN now |-> <<now[i], Was(now[i])>>]
        \o LET gone == SelectSeq(delta.removed, LAMBDA id : id \notin ToSet(now))
           IN  [i \in DOMAIN gone |-> <<gone[i], "evicted">>]

\* get_turn_delta of the TUI, over turns loaded from the store, which carry no delta.
Transitions(prev, curr) ==
    LET old  == IF prev = None THEN <<>> ELSE AllBlocks(prev)
        new  == AllBlocks(curr)
        now  == Distinct(new)
        gone == SelectSeq(Distinct(old), LAMBDA b : Key(b) \notin Keys(new))
    IN  [i \in DOMAIN now |->
            <<now[i].id,
              IF Key(now[i]) \in Keys(old)
              THEN IF now[i].key # <<>> /\ now[i].hash # FirstWith(old, Key(now[i])).hash
                   THEN "mutated" ELSE "persisted"
              ELSE "added">>]
        \o [i \in DOMAIN gone |-> <<gone[i].id, "evicted">>]
-----------------------------------------------------------------------------
(* CanonicalTurn.tool_invocations. *)

\* Calls paired, in order, with the first result of an unused id that Matches, added to
\* the <<call, result>> pairs before.
Paired(calls, results, before, Matches(_, _)) ==
    FoldLeft(LAMBDA pairs, c :
                LET free == SelectSeq(results, LAMBDA r :
                                Matches(c, r) /\ \A p \in pairs : p[2].id # r.id)
                IN  IF free = <<>> \/ \E p \in pairs : p[1].id = c.id THEN pairs
                    ELSE pairs \cup {<<c, Head(free)>>},
             before, calls)

\* Pairs by call id only.
InvocationsById(t) ==
    LET calls == SelectSeq(t.history \o t.reply, LAMBDA b : b.call # "" \/ b.tool # "")
        byId  == Paired(calls, t.results, {}, LAMBDA c, r : c.call # "" /\ r.call = c.call)
    IN  [pairs   |-> byId,
         calls   |-> {c \in ToSet(calls) : \A p \in byId : p[1].id # c.id},
         results |-> {r \in ToSet(t.results) : \A p \in byId : p[2].id # r.id}]

\* Pairs by call id, then by tool name; calls and results left alone.
Invocations(t) ==
    LET calls  == SelectSeq(t.history \o t.reply, LAMBDA b : b.call # "" \/ b.tool # "")
        byId   == Paired(calls, t.results, {}, LAMBDA c, r : c.call # "" /\ r.call = c.call)
        byName == Paired(calls, t.results, byId, LAMBDA c, r : c.tool # "" /\ r.tool = c.tool)
    IN  [pairs   |-> byName,
         calls   |-> {c \in ToSet(calls) : \A p \in byName : p[1].id # c.id},
         results |-> {r \in ToSet(t.results) : \A p \in byName : p[2].id # r.id}]
-----------------------------------------------------------------------------
(* The tokens of a turn by category. *)

\* calculate_category_breakdown, for one block.
Category(t, b) ==
    CASE b.type = "skill" -> "skills"
      [] b.type = "thought" -> "thoughts"
      [] b.type \notin {"skill", "thought"} /\ (b.type = "system" \/ b \in ToSet(t.system)) ->
            "system"
      [] b.type = "tool_def" /\ b \notin ToSet(t.system) -> "tools"
      [] b.type = "tool_result" -> "results"
      [] OTHER -> "history"

WebBreakdown(t) ==
    [c \in {"system", "tools", "skills", "thoughts", "results", "history"} |->
        Size(SelectSeq(Distinct(AllBlocks(t)), LAMBDA b : Category(t, b) = c))]

\* _load_turns_from_store: the sections of the turn, and apart from them three types that
\* may occur in any section.
TuiBreakdown(t) ==
    LET OfType(types) == Size(SelectSeq(AllBlocks(t), LAMBDA b : b.type \in types))
    IN  [system |-> Size(t.system), tools |-> Size(t.tools), history |-> Size(t.history),
         results |-> Size(t.results), assistant |-> Size(t.reply),
         skills |-> OfType({"skill"}), thoughts |-> OfType({"thought"}),
         injected |-> OfType({"injected_state", "injected_context"})]
=============================================================================
