---------------------------- MODULE ContextGraph ----------------------------
(***************************************************************************)
(* The turns of one session, the difference of each from the one before    *)
(* and the lineage of every block (core/graph/turn_tree.py).  Turn indexes *)
(* start at 0, so turn i is the element i + 1 of graph.turns.  In the      *)
(* program every turn has the preceding one as its parent, so parents and  *)
(* children are left out.                                                  *)
(***************************************************************************)
EXTENDS Blocks

EmptyGraph == [turns |-> <<>>, deltas |-> <<>>, lineage |-> [k \in {} |-> <<>>]]

\* A BlockLineage: the turns and the hashes it was seen with are sets.
Lineage(b, index) ==
    [hash |-> b.hash, first |-> index, last |-> index, survived |-> 0,
     seen |-> {index}, hashes |-> {b.hash}]

\* A record that survives a turn in which its block was absent or other.
SurviveAnyway(rec, b, index) ==
    [rec EXCEPT !.survived = @ + 1, !.hash = b.hash, !.last = index,
                !.seen = @ \cup {index}, !.hashes = @ \cup {rec.hash, b.hash}]

\* The record of a block that the turn of this index shows.
Survive(rec, b, index) ==
    [rec EXCEPT !.survived = IF rec.last = index - 1 /\ rec.hash = b.hash THEN @ + 1 ELSE 0,
                !.hash = b.hash, !.last = index,
                !.seen = @ \cup {index}, !.hashes = @ \cup {rec.hash, b.hash}]

\* The record of a block that a further step of the turn of this index shows.
ShownAgain(rec, b, index) == [rec EXCEPT !.last = index, !.seen = @ \cup {index}]

\* The lineage with the first block of each identity of the turn followed up by Follow.
Traced(lineage, turn, Follow(_, _, _)) ==
    LET shown == AllBlocks(turn)
    IN  [k \in DOMAIN lineage \cup Keys(shown) |->
            CASE k \notin Keys(shown) -> lineage[k]
              [] k \in Keys(shown) \ DOMAIN lineage -> Lineage(FirstWith(shown, k), turn.index)
              [] OTHER -> Follow(lineage[k], FirstWith(shown, k), turn.index)]

\* The blocks with what the lineage says of them.
Dated(blocks, lineage) ==
    [i \in DOMAIN blocks |->
        [blocks[i] EXCEPT !.first = lineage[Key(blocks[i])].first,
                          !.survived = lineage[Key(blocks[i])].survived]]

LastTurn(graph) == IF graph.turns = <<>> THEN None ELSE Last(graph.turns)

\* add_turn.
AddTurn(graph, turn) ==
    LET lineage == Traced(graph.lineage, turn, Survive)
        dated   == [turn EXCEPT !.system = Dated(@, lineage), !.tools = Dated(@, lineage),
                                !.history = Dated(@, lineage), !.results = Dated(@, lineage),
                                !.reply = Dated(@, lineage)]
    IN  [turns   |-> Append(graph.turns, dated),
         deltas  |-> Append(graph.deltas, ComputeDelta(LastTurn(graph), turn)),
         lineage |-> lineage]

\* update_turn: the turn of the same index is replaced.  Neither the difference nor the
\* hashes and the survival of its blocks are computed again.
UpdateTurn(graph, turn) ==
    [graph EXCEPT !.turns[turn.index + 1] = turn,
                  !.lineage = Traced(@, turn, ShownAgain)]

\* get_turn_delta, for the rules: the difference recorded when the turn was added.
DeltaOf(graph, index) == graph.deltas[index + 1]
=============================================================================
