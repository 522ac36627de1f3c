---------------------------- MODULE SessionStore ----------------------------
(***************************************************************************)
(* The in-memory session registry of the core                              *)
(* (core/store/session_store.py).  Every method runs under one RLock, so   *)
(* the store is a value and each method an operator from the store before  *)
(* to the store after; CoreBridge composes them into handlers.             *)
(*                                                                         *)
(* A turn is abstracted to what the store and its callers look at: its     *)
(* session, its turn_index, its model, whether the analyzer attached a     *)
(* violation to it, and the LLM steps (requests) merged into it.  There is *)
(* one rule, so the violation index is one set of sessions.                *)
(***************************************************************************)
EXTENDS Naturals, Sequences, SequencesExt

CONSTANTS
    Session,        \* session ids
    Request,        \* the LLM requests of the agents, one step each
    Model,          \* model names
    MaxSessions,    \* SessionStore.max_sessions
    None            \* Python's None

ASSUME CapacityAssumption == MaxSessions \in Nat \ {0}
ASSUME NoneAssumption == None \notin Session /\ None \notin Model

EmptyStore ==
    [order    |-> <<>>,                             \* keys of sessions, oldest first
     turns    |-> [s \in Session |-> <<>>],         \* sessions
     meta     |-> [s \in Session |-> None],         \* status in session_metadata
     byModel  |-> [m \in Model |-> {}],             \* _model_to_sessions
     flagged  |-> {},                               \* _violation_to_sessions
     exported |-> {},                               \* _exported_sessions
     aliases  |-> [s \in Session |-> None]]         \* _session_aliases

Live(st) == ToSet(st.order)

\* A purge that leaves the secondary indexes alone.
EvictSessionOnly(st, s) ==
    [st EXCEPT !.order = RemoveFirst(@, s), !.turns[s] = <<>>, !.meta[s] = None]

\* _evict_session: the aliases and the export marks stay.
EvictSession(st, s) ==
    [st EXCEPT !.order = RemoveFirst(@, s),
               !.turns[s] = <<>>,
               !.meta[s] = None,
               !.byModel = [m \in Model |-> @[m] \ {s}],
               !.flagged = @ \ {s}]

\* An admission that makes room only once the capacity is exceeded.
AdmitOneTooMany(st, s) ==
    IF s \in Live(st)
    THEN st
    ELSE LET room == IF Len(st.order) > MaxSessions
                     THEN EvictSession(st, Head(st.order))
                     ELSE st
         IN  [room EXCEPT !.order = Append(@, s)]

\* A session that is not stored yet gets in, at the cost of the least recently active one.
Admit(st, s) ==
    IF s \in Live(st)
    THEN st
    ELSE LET room == IF Len(st.order) >= MaxSessions
                     THEN EvictSession(st, Head(st.order))
                     ELSE st
         IN  [room EXCEPT !.order = Append(@, s)]

MoveToEnd(st, s) == [st EXCEPT !.order = Append(RemoveFirst(@, s), s)]

\* A registration that starts the session's turns anew.
RegisterAfresh(st, s, status) ==
    [MoveToEnd(Admit(st, s), s) EXCEPT !.meta[s] = status, !.turns[s] = <<>>]

\* register_session: the turns of a session that is stored already stay.
RegisterSession(st, s, status) ==
    [MoveToEnd(Admit(st, s), s) EXCEPT !.meta[s] = status]

IndexTurn(st, turn) ==
    [st EXCEPT !.byModel[turn.model] = @ \cup {turn.session},
               !.flagged = IF turn.violates THEN @ \cup {turn.session} ELSE @]

AppendTurn(st, turn) ==
    LET admitted == MoveToEnd(Admit(st, turn.session), turn.session)
    IN  IndexTurn([admitted EXCEPT !.turns[turn.session] = Append(@, turn)], turn)

\* A place taken from turn_index as if it counted from one.
PlaceCountedFromOne(st, turn) ==
    IF turn.index \in 1..Len(st.turns[turn.session])
    THEN turn.index
    ELSE Len(st.turns[turn.session])

\* The place update_turn writes to: the turn's own index, or the last place.
PlaceOf(st, turn) ==
    IF turn.index < Len(st.turns[turn.session])
    THEN turn.index + 1
    ELSE Len(st.turns[turn.session])

UpdateTurn(st, turn) ==
    IF turn.session \notin Live(st) \/ st.turns[turn.session] = <<>>
    THEN st
    ELSE IndexTurn([st EXCEPT !.turns[turn.session][PlaceOf(st, turn)] = turn], turn)

\* alias_session: a session that has turns is not hijacked.
AliasSession(st, alias, target) ==
    IF st.turns[alias] # <<>> THEN st ELSE [st EXCEPT !.aliases[alias] = target]

Resolve(st, s) == IF st.aliases[s] = None THEN s ELSE st.aliases[s]

\* The session whose turns get_session(s) returns.
Answering(st, s) == IF Resolve(st, s) \in Live(st) THEN Resolve(st, s) ELSE s

\* get_session(s) or [].
GetSession(st, s) == st.turns[Answering(st, s)]

MarkExported(st, s) == [st EXCEPT !.exported = @ \cup {s}]
=============================================================================
