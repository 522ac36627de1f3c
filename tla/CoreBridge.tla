----------------------------- MODULE CoreBridge -----------------------------
(***************************************************************************)
(* CorePipelineBridge (cli.py): what the core does with the envelopes the  *)
(* telemetry path delivers, on the SessionStore and towards the user       *)
(* interfaces.  handle_wire_envelope never awaits, so every envelope is    *)
(* one action; what interleaves are the requests of concurrent agents, and *)
(* what fails is the path, which may lose any envelope (module Egress).    *)
(***************************************************************************)
EXTENDS SessionStore, FiniteSets

CONSTANTS
    Placeholder,    \* "sess_{harness}_{pid}" of the one agent process
    MaxNotices      \* bound: SESSION_DISCONNECTED and SESSION_EXPORTED envelopes

ASSUME PlaceholderAssumption == Placeholder \in Session /\ MaxNotices \in Nat

VARIABLES
    store,          \* CorePipelineBridge.store
    granularity,    \* "step" or "human"
    req,            \* each request: "new", "open", "closed" or "lost", its session, its kind
    ui,             \* turn indexes published for each session as started and as completed
    notices,        \* SESSION_DISCONNECTED and SESSION_EXPORTED envelopes so far
    evicted         \* history: steps whose turn was evicted

vars == <<store, granularity, req, ui, notices, evicted>>

Init ==
    /\ store = EmptyStore
    /\ granularity \in {"step", "human"}
    /\ req = [r \in Request |-> [phase |-> "new", session |-> None, human |-> FALSE]]
    /\ ui = [s \in Session |-> [started |-> {}, completed |-> {}]]
    /\ notices = 0
    /\ evicted = {}
-----------------------------------------------------------------------------
StepsOf(turns) == UNION {turns[i].steps : i \in 1..Len(turns)}

\* The store becomes st; the sessions it held and holds no more were evicted.
SetStore(st) ==
    /\ store' = st
    /\ evicted' = evicted \cup
            UNION {StepsOf(store.turns[s]) : s \in Live(store) \ Live(st)}

\* broadcaster.publish_nowait of TURN_STARTED or TURN_COMPLETED.
Publish(s, event, index) == ui' = [ui EXCEPT ![s][event] = @ \cup {index}]

\* Whether a step continues the last turn of the history rather than start one.
Continues(history, human) == granularity = "human" /\ history # <<>> /\ ~human

\* A request whose REQUEST_INITIATED the core got.
Registered(s) ==
    IF s \in Live(store) THEN store ELSE RegisterSession(store, s, "active")

\* The session "sess_{harness}_{pid}", while it has no turns, becomes an alias.
LinkPlaceholder(st, s, knowsPid) ==
    IF /\ knowsPid /\ s # Placeholder /\ Placeholder \in Live(st)
       /\ GetSession(st, Placeholder) = <<>>
    THEN AliasSession(st, Placeholder, s)
    ELSE st

\* REQUEST_INITIATED.
Initiate(r) ==
    /\ req[r].phase = "new"
    /\ \E s \in Session, human \in BOOLEAN, knowsPid \in BOOLEAN :
        LET st      == LinkPlaceholder(Registered(s), s, knowsPid)
            history == GetSession(st, s)
        IN  /\ req' = [req EXCEPT ![r] = [phase |-> "open", session |-> s, human |-> human]]
            /\ SetStore(st)
            /\ Publish(s, "started",
                       IF Continues(history, human) THEN Len(history) - 1 ELSE Len(history))
    /\ UNCHANGED <<granularity, notices>>

\* The REQUEST_INITIATED of a request is lost on its way.
InitiateLost(r) ==
    /\ req[r].phase = "new"
    /\ \E s \in Session, human \in BOOLEAN :
        req' = [req EXCEPT ![r] = [phase |-> "open", session |-> s, human |-> human]]
    /\ UNCHANGED <<store, granularity, ui, notices, evicted>>

\* analyze_turn attaches its violations to the turn object the store holds.
Analyzed(st, s, place, violates) == [st EXCEPT !.turns[s][place].violates = violates]

\* A continuation that starts the turn's steps anew.
MergeForgets(history, r) == [history[Len(history)] EXCEPT !.steps = {r}]

\* The active turn with the step's metrics accumulated into it.
Merge(history, r) == [history[Len(history)] EXCEPT !.steps = @ \cup {r}]

\* TURN_COMPLETED of a step that starts a turn.
CompleteAsTurn(r) ==
    LET s       == req[r].session
        history == GetSession(store, s)
    IN  /\ req[r].phase = "open"
        /\ ~Continues(history, req[r].human)
        /\ \E m \in Model, violates \in BOOLEAN :
            LET st == AppendTurn(store, [session |-> s, index |-> Len(history), steps |-> {r},
                                         model |-> m, violates |-> FALSE])
            IN  SetStore(Analyzed(st, s, Len(st.turns[s]), violates))
        /\ Publish(s, "completed", Len(history))
        /\ req' = [req EXCEPT ![r].phase = "closed"]
        /\ UNCHANGED <<granularity, notices>>

\* TURN_COMPLETED of an automatic step of a human turn.
CompleteAsStep(r) ==
    LET s       == req[r].session
        history == GetSession(store, s)
        active  == Merge(history, r)
        owner   == active.session
        mutated == [store EXCEPT !.turns[owner][Len(history)] = active]
        updated == UpdateTurn(mutated, active)
    IN  /\ req[r].phase = "open"
        /\ Continues(history, req[r].human)
        /\ \E violates \in BOOLEAN :
            SetStore(Analyzed(updated, owner, Len(history), violates))
        /\ Publish(s, "completed", active.index)
        /\ req' = [req EXCEPT ![r].phase = "closed"]
        /\ UNCHANGED <<granularity, notices>>

\* TURN_COMPLETED is lost, or there is none: TURN_ERROR has no branch in the handler.
NeverCompleted(r) ==
    /\ req[r].phase = "open"
    /\ req' = [req EXCEPT ![r].phase = "lost"]
    /\ UNCHANGED <<store, granularity, ui, notices, evicted>>

\* SESSION_DISCONNECTED: it registers the session again when it was evicted.
Disconnect(s) ==
    /\ notices < MaxNotices
    /\ notices' = notices + 1
    /\ SetStore(RegisterSession(store, s, "disconnected"))
    /\ UNCHANGED <<granularity, req, ui>>

\* SESSION_EXPORTED, or the exporter's own call.
Export(s) ==
    /\ notices < MaxNotices
    /\ notices' = notices + 1
    /\ SetStore(MarkExported(store, s))
    /\ UNCHANGED <<granularity, req, ui>>

Next ==
    \/ \E r \in Request :
        \/ Initiate(r) \/ InitiateLost(r)
        \/ CompleteAsTurn(r) \/ CompleteAsStep(r) \/ NeverCompleted(r)
    \/ \E s \in Session : Disconnect(s) \/ Export(s)

Spec == Init /\ [][Next]_vars
-----------------------------------------------------------------------------
(* Properties. *)

Turns ==
    [session : Session, index : Nat, steps : SUBSET Request, model : Model,
     violates : BOOLEAN]

Stores ==
    [order    : Seq(Session),
     turns    : [Session -> Seq(Turns)],
     meta     : [Session -> {"active", "disconnected", None}],
     byModel  : [Model -> SUBSET Session],
     flagged  : SUBSET Session,
     exported : SUBSET Session,
     aliases  : [Session -> Session \cup {None}]]

RequestStates ==
    [phase : {"new", "open", "closed", "lost"}, session : Session \cup {None},
     human : BOOLEAN]

TypeOK ==
    /\ store \in Stores
    /\ Len(store.order) <= MaxSessions
    /\ granularity \in {"step", "human"}
    /\ req \in [Request -> RequestStates]
    /\ ui \in [Session -> [started : SUBSET Nat, completed : SUBSET Nat]]
    /\ notices \in 0..MaxNotices
    /\ evicted \subseteq Request

Aliased(s) == store.aliases[s] # None

HasTurnOf(s, m) == \E i \in 1..Len(store.turns[s]) : store.turns[s][i].model = m

\* The secondary indexes survive evictions and sessions that come back: the model index
\* misses no stored session that has a turn of the model and names no other, except an
\* aliased session, whose turn of the model a merged step may have overwritten; and both
\* indexes name only stored sessions that have turns.
IndexesNameStoredSessions ==
    /\ \A m \in Model, s \in Session :
        /\ HasTurnOf(s, m) => s \in store.byModel[m]
        /\ s \in store.byModel[m] => Aliased(s) \/ HasTurnOf(s, m)
    /\ \A s \in Session : s \in store.flagged \/ (\E m \in Model : s \in store.byModel[m]) =>
        s \in Live(store) /\ store.turns[s] # <<>>

\* The places of the stored turns: session and place in its list.
Places == UNION {{s} \X DOMAIN store.turns[s] : s \in Session}

Holders(r) == {h \in Places : r \in store.turns[h[1]][h[2]].steps}

\* A completed step is part of exactly one turn, until that turn's session is evicted:
\* merging the steps of a human turn neither loses one nor counts one twice.
EveryStepInOneTurn ==
    \A r \in Request : req[r].phase = "closed" /\ ~Aliased(req[r].session) =>
        Cardinality(Holders(r)) = IF r \in evicted THEN 0 ELSE 1

WasEvicted(s) == \E r \in evicted : req[r].session = s

\* What the interfaces were told of a session that was never evicted nor aliased is what
\* the store has: its turns are at the places their indexes say, every one of them was
\* told and no other, and a turn told as started is one of them or the next.
UiAgreesWithStore ==
    \A s \in Session : ~Aliased(s) /\ ~WasEvicted(s) =>
        LET turns == store.turns[s]
        IN  /\ \A i \in 1..Len(turns) : turns[i].index = i - 1
            /\ ui[s].completed = {turns[i].index : i \in 1..Len(turns)}
            /\ ui[s].started \subseteq 0..Len(turns)

\* The history of a session is append-only: a handler leaves its turns as they are, adds one
\* turn at the end, lets the last turn gain steps, or evicts the session as a whole.
HistoryOnlyGrows ==
    [][\A s \in Session :
        LET old == store.turns[s]
            new == store'.turns[s]
        IN  s \in Live(store) /\ ~Aliased(s) =>
            \/ new = <<>> /\ (old # <<>> => WasEvicted(s)')
            \/ /\ Len(new) \in Len(old)..(Len(old) + 1)
               /\ \A i \in 1..Len(old) :
                    /\ new[i].index = old[i].index
                    /\ old[i].steps \subseteq new[i].steps
                    /\ old[i].steps # new[i].steps => i = Len(old) /\ Len(new) = Len(old)]_vars

\* core/store/session_store.py:40: aliasing must not hijack "a session that already has
\* recorded turns": asking for a session that has turns answers with its own.
NeverHijacked ==
    \A s \in Session : store.turns[s] # <<>> => GetSession(store, s) = store.turns[s]
=============================================================================
