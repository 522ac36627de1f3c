---------------------------- MODULE Presentation ----------------------------
(***************************************************************************)
(* What the users see: the PresentationBroadcaster, which hands the core's *)
(* events to bounded queues; the terminal interface, whose TUIState        *)
(* follows them (presentation/tui); and one client of the WebSocketHub,    *)
(* which gets a snapshot and then the events of its session                *)
(* (presentation/web/ws.py).                                               *)
(*                                                                         *)
(* All of it runs on one event loop: an action is what runs between two    *)
(* awaits.  An event is a position in the log of what was published.  A    *)
(* turn is abstracted to the number of its steps, which stands for its     *)
(* tokens, and to whether a rule is violated in it.                        *)
(***************************************************************************)
EXTENDS Python, Naturals, Sequences, SequencesExt, FiniteSets

CONSTANTS
    Sessions,
    Capacity,       \* queue_capacity of the broadcaster
    MaxEnvelopes,   \* bound: envelopes the core handles, for each set of subscribers
    MaxSwitches     \* bound: times the user turns to another session

ASSUME PresentationAssumption ==
    /\ Capacity \in Nat \ {0} /\ MaxSwitches \in Nat /\ None \notin Sessions
    /\ MaxEnvelopes \in [SUBSET {"tui", "web"} -> Nat]
    /\ None \notin Seq(Nat)

Subscribers == {"tui", "web"}

VARIABLES
    audience,       \* the subscribers that ever show up
    granularity,    \* "step" or "human"
    order,          \* the store's sessions, the most recently active one last
    turns,          \* the store's turns of each session: [steps, flagged]
    status,         \* the status in the store's metadata of each session
    handled,        \* envelopes the core has handled
    log,            \* history: the events published
    queue,          \* the positions queued for each subscriber, None before it subscribes
    got,            \* history: the positions each subscriber has taken off its queue
    full,           \* history: the positions that found the subscriber's queue full
    from,           \* history: the events published before each subscriber subscribed
    tuiPhase,       \* "off", "made" by __init__, then "mounted", then "listening"
    tui,            \* the TUIState
    switches,       \* times the user turned to another session
    missed,         \* history: sessions of which the TUI missed an event since it loaded them
    web             \* the web client: its phase, its session filter, the events sent to it

storeVars        == <<audience, granularity, order, turns, status, handled>>
channelVars      == <<log, queue, got, full, from>>
presentationVars == <<storeVars, channelVars, tuiPhase, tui, switches, missed, web>>

NoTui ==
    [shown     |-> None,        \* session_id
     status    |-> "Idle",
     known     |-> {},          \* available_sessions
     meta      |-> [s \in Sessions |-> None],   \* the status in sessions_metadata
     lists     |-> [s \in Sessions |-> None],   \* sessions_turns: [index, status, steps, flagged]
     alarms    |-> [s \in Sessions |-> {}],     \* sessions_violations: [index, loaded]
     selected  |-> 0,           \* selected_turn_index
     total     |-> 0,           \* total_tokens
     foreign   |-> FALSE]       \* history: the total came from another session's summary

Quiet ==
    /\ granularity \in {"step", "human"}
    /\ order = <<>> /\ handled = 0
    /\ turns = [s \in Sessions |-> <<>>]
    /\ status = [s \in Sessions |-> None]
    /\ log = <<>>
    /\ queue = [r \in Subscribers |-> None]
    /\ got = [r \in Subscribers |-> <<>>]
    /\ full = [r \in Subscribers |-> {}]
    /\ from = [r \in Subscribers |-> 0]
    /\ tuiPhase = "off" /\ tui = NoTui /\ switches = 0 /\ missed = {}
    /\ web = [phase |-> "away", session |-> None, sent |-> <<>>]

InitPresentation == Quiet /\ audience \in SUBSET Subscribers \ {{}}

\* No presentation: nobody looks, and nothing is handled.
NoPresentation == Quiet /\ audience = {} /\ granularity = "step"
-----------------------------------------------------------------------------
(* The broadcaster. *)

\* A publication that ends at the first queue that is full.
TakenUntilFull(r, n) ==
    IF queue[r] = None THEN 0
    ELSE Min({n} \cup {Capacity - Len(queue[t]) : t \in {u \in Subscribers : queue[u] # None}})

\* publish_nowait, of n events one after the other: how many of them a subscriber's queue takes
\* until it is full.
Taken(r, n) ==
    IF queue[r] = None THEN 0
    ELSE IF Len(queue[r]) + n > Capacity THEN Capacity - Len(queue[r])
    ELSE n

\* publish_nowait, of the events of one handler, during which nobody takes any.  The TUI misses
\* what is published before it subscribes and what finds its queue full.
Publish(events) ==
    LET n == Len(events)
        Dropped(r) == {k \in 1..n : queue[r] # None /\ Len(queue[r]) + k > Capacity}
        unheard    == IF tuiPhase \in {"made", "mounted"} THEN 1..n ELSE Dropped("tui")
    IN  /\ log' = log \o events
        /\ queue' = [r \in Subscribers |->
                IF queue[r] = None THEN None
                ELSE queue[r] \o [k \in 1..Taken(r, n) |-> Len(log) + k]]
        /\ full' = [r \in Subscribers |-> full[r] \cup {Len(log) + k : k \in Dropped(r)}]
        /\ missed' = missed \cup {events[k].session : k \in unheard}
        /\ UNCHANGED <<got, from>>

\* subscribe.
Subscribe(r) ==
    /\ queue' = [queue EXCEPT ![r] = <<>>]
    /\ from' = [from EXCEPT ![r] = Len(log)]
    /\ UNCHANGED <<log, got, full>>

\* queue.get.
Take(r) ==
    /\ queue' = [queue EXCEPT ![r] = Tail(@)]
    /\ got' = [got EXCEPT ![r] = Append(@, Head(queue[r]))]
    /\ UNCHANGED <<log, full, from>>
-----------------------------------------------------------------------------
(* The core: handle_wire_envelope, as far as the interfaces see it.        *)

Event(type, s, i, turn, total) ==
    [type |-> type, session |-> s, index |-> i, turn |-> turn, total |-> total]

NoTurn == [steps |-> 0, flagged |-> FALSE]

Total(list) == SumFunction([i \in DOMAIN list |-> list[i].steps])

Listed == ToSet(order)

\* The index of a turn that is announced: a step of a turn in progress goes with the last one.
NextIndex(s, human) ==
    IF granularity = "human" /\ turns[s] # <<>> /\ ~human THEN Len(turns[s]) - 1
    ELSE Len(turns[s])

Handle == handled < MaxEnvelopes[audience] /\ handled' = handled + 1

RequestInitiated(s, human) ==
    /\ Handle
    /\ order' = IF s \in Listed THEN order ELSE Append(order, s)
    /\ status' = [status EXCEPT ![s] = IF s \in Listed THEN @ ELSE "active"]
    /\ Publish((IF turns[s] = <<>> THEN <<Event("SESSION_CREATED", s, 0, NoTurn, 0)>> ELSE <<>>)
               \o <<Event("TURN_STARTED", s, NextIndex(s, human), NoTurn, 0)>>)
    /\ UNCHANGED <<audience, granularity, turns, tuiPhase, tui, switches, web>>

\* TURN_COMPLETED, whose request may have been lost: a new turn, or a step of the last one.
TurnCompleted(s, human, flagged) ==
    LET index == NextIndex(s, human)
        new   == index = Len(turns[s])
        turn  == [steps |-> (IF new THEN 0 ELSE turns[s][index + 1].steps) + 1,
                  flagged |-> flagged]
        list  == IF new THEN Append(turns[s], turn) ELSE [turns[s] EXCEPT ![index + 1] = turn]
    IN  /\ Handle
        /\ turns' = [turns EXCEPT ![s] = list]
        /\ order' = IF new THEN Append(Remove(order, s), s) ELSE order
        /\ Publish(<<Event("TURN_COMPLETED", s, index, turn, 0)>>
                   \o (IF flagged THEN <<Event("VIOLATION_DETECTED", s, index, turn, 0)>> ELSE <<>>)
                   \o <<Event("SESSION_SUMMARY_UPDATED", s, 0, NoTurn, Total(list))>>)
        /\ UNCHANGED <<audience, granularity, status, tuiPhase, tui, switches, web>>

SessionDisconnected(s) ==
    /\ Handle
    /\ order' = Append(Remove(order, s), s)
    /\ status' = [status EXCEPT ![s] = "disconnected"]
    /\ Publish(<<Event("SESSION_DISCONNECTED", s, 0, NoTurn, 0)>>)
    /\ UNCHANGED <<audience, granularity, turns, tuiPhase, tui, switches, web>>
-----------------------------------------------------------------------------
(* The terminal interface. *)

\* The store's turns as the TUI converts them.
Converted(s) ==
    [i \in DOMAIN turns[s] |->
        [index |-> i - 1, status |-> "completed",
         steps |-> turns[s][i].steps, flagged |-> turns[s][i].flagged]]

\* _load_turns_from_store: the session becomes what the store has, and the totals are its.
Loaded(t, s) ==
    [t EXCEPT !.lists[s] = Converted(s),
              !.alarms[s] = {[index |-> i - 1, loaded |-> TRUE] :
                                i \in {j \in DOMAIN turns[s] : turns[s][j].flagged}},
              !.total = Total(turns[s]),
              !.foreign = FALSE,
              !.selected = IF turns[s] = <<>> THEN 0 ELSE Len(turns[s]) - 1]

\* get_session_metadata, or a dict without a status.
StoredStatus(s) == IF status[s] = None THEN "none" ELSE status[s]

\* _sync_store_sessions: the sessions not seen yet are loaded, and the one shown is anyway.
Synced(t) ==
    LET shown  == IF t.shown = None /\ order # <<>> THEN Head(order) ELSE t.shown
        unseen == SelectSeq(order, LAMBDA s : turns[s] # <<>> /\ t.lists[s] = None)
        met    == [t EXCEPT !.known = @ \cup Listed,
                            !.meta = [s \in Sessions |-> IF s \in Listed THEN StoredStatus(s) ELSE @[s]],
                            !.shown = shown,
                            !.status = IF t.shown = None /\ shown # None /\ status[shown] # None
                                       THEN status[shown] ELSE @]
        all    == FoldLeft(Loaded, met, unseen)
    IN  IF shown = None THEN all ELSE Loaded(all, shown)

\* The sessions a step loads.
LoadedBy(t) == {s \in Sessions : s = Synced(t).shown \/ t.lists[s] = None}

\* What the TUI has missed, after it loaded some sessions.  An event that is still queued is
\* older than what was loaded and would bring the older state back.
MissedAfter(loaded) ==
    {s \in missed : s \in loaded => \E p \in ToSet(IF queue["tui"] = None THEN <<>> ELSE queue["tui"]) :
                                        log[p].session = s}

\* __init__, then on_mount, which starts the listener.
TuiStarts ==
    /\ "tui" \in audience
    /\ \/ tuiPhase = "off" /\ tuiPhase' = "made"
       \/ tuiPhase = "made" /\ tuiPhase' = "mounted"
    /\ tui' = Synced(tui)
    /\ missed' = MissedAfter(LoadedBy(tui))
    /\ UNCHANGED <<storeVars, channelVars, switches, web>>

\* _listen_events, up to its first get.
TuiSubscribes ==
    /\ tuiPhase = "mounted" /\ tuiPhase' = "listening"
    /\ Subscribe("tui")
    /\ UNCHANGED <<storeVars, tui, switches, missed, web>>

\* _find_or_create_turn, and the change of the turn.
WithTurn(list, i, Change(_)) ==
    LET old   == IF list = None THEN <<>> ELSE list
        place == SelectInSeq(old, LAMBDA e : e.index = i)
        entry == [index |-> i, status |-> "idle", steps |-> 0, flagged |-> FALSE]
    IN  IF place # 0 THEN [old EXCEPT ![place] = Change(@)]
        ELSE SortSeq(Append(old, Change(entry)), LAMBDA e, f : e.index < f.index)

\* An announcement that clears the turn it announces.
StartedAnew(entry) == [entry EXCEPT !.status = "streaming", !.steps = 0]

\* TURN_STARTED, for a turn.
Started(entry) == [entry EXCEPT !.status = "streaming"]

\* apply_event, after the session of the event is known and one is shown.
Applied(t, e) ==
    LET s      == e.session
        active == s = t.shown
        Completed(entry) == [entry EXCEPT !.status = "completed", !.steps = e.turn.steps,
                                          !.flagged = e.turn.flagged]
        Flagged(entry)   == [entry EXCEPT !.flagged = TRUE]
        alarm  == [index |-> e.index, loaded |-> FALSE]
    IN  CASE e.type = "SESSION_CREATED" ->
                [t EXCEPT !.meta[s] = "none", !.status = IF active THEN "Idle" ELSE @]
          [] e.type = "TURN_STARTED" ->
                [t EXCEPT !.status = IF active THEN "Streaming" ELSE @,
                          !.lists[s] = WithTurn(@, e.index, Started),
                          !.selected = IF active THEN e.index ELSE @]
          [] e.type = "TURN_COMPLETED" ->
                LET list == WithTurn(t.lists[s], e.index, Completed)
                IN  [t EXCEPT !.status = IF active THEN "Idle" ELSE @,
                              !.lists[s] = list,
                              !.alarms[s] = IF e.turn.flagged THEN @ \cup {alarm} ELSE @,
                              !.total = IF active THEN Total(list) ELSE @,
                              !.foreign = IF active THEN FALSE ELSE @]
          [] e.type = "VIOLATION_DETECTED" ->
                [t EXCEPT !.lists[s] = WithTurn(@, e.index, Flagged),
                          !.alarms[s] = @ \cup {alarm}]
          [] e.type = "SESSION_SUMMARY_UPDATED" ->
                [t EXCEPT !.total = e.total, !.foreign = ~active]
          [] e.type = "SESSION_DISCONNECTED" ->
                [t EXCEPT !.meta[s] = IF @ # None THEN "disconnected" ELSE @,
                          !.status = IF active THEN "Disconnected" ELSE @]

\* _handle_ui_event: the store's new sessions are made known first.
TuiHandles ==
    /\ tuiPhase = "listening" /\ queue["tui"] # <<>>
    /\ LET e   == log[Head(queue["tui"])]
           met == [tui EXCEPT !.known = @ \cup Listed \cup {e.session},
                              !.meta = [s \in Sessions |->
                                  IF @[s] = None /\ s \in Listed THEN StoredStatus(s) ELSE @[s]],
                              !.shown = IF @ = None THEN e.session ELSE @]
       IN  tui' = Applied(met, e)
    /\ Take("tui")
    /\ UNCHANGED <<storeVars, tuiPhase, switches, missed, web>>

\* switch_session, to a session the user chose.
TuiSwitches(s) ==
    /\ tuiPhase # "off" /\ s \in tui.known /\ switches < MaxSwitches
    /\ tui' = Loaded([tui EXCEPT !.shown = s,
                                 !.status = IF tui.meta[s] \in {None, "none"} THEN "Active"
                                            ELSE tui.meta[s]], s)
    /\ switches' = switches + 1
    /\ missed' = MissedAfter({s})
    /\ UNCHANGED <<storeVars, channelVars, tuiPhase, web>>
-----------------------------------------------------------------------------
(* A web client. *)

\* handle_client: accepts and registers the client, and reads the snapshot to send.
WebConnects(filter) ==
    /\ "web" \in audience /\ web.phase = "away"
    /\ web' = [phase |-> "connecting", session |-> filter, sent |-> <<>>]
    /\ UNCHANGED <<storeVars, channelVars, tuiPhase, tui, switches, missed>>

\* The snapshot is sent, and the client subscribed.
WebSubscribes ==
    /\ web.phase = "connecting"
    /\ Subscribe("web")
    /\ web' = [web EXCEPT !.phase = "subscribed"]
    /\ UNCHANGED <<storeVars, tuiPhase, tui, switches, missed>>

\* What every client gets, whatever session it asked for.
GLOBAL_EVENT_TYPES == {"SESSION_CREATED", "SESSION_DISCONNECTED"}

Passes(e) == web.session \in {None, e.session} \/ e.type \in GLOBAL_EVENT_TYPES

\* _forward_events.
WebForwards ==
    /\ web.phase = "subscribed" /\ queue["web"] # <<>>
    /\ LET p == Head(queue["web"])
       IN  web' = [web EXCEPT !.sent = IF Passes(log[p]) THEN Append(@, p) ELSE @]
    /\ Take("web")
    /\ UNCHANGED <<storeVars, tuiPhase, tui, switches, missed>>

\* The snapshot cannot be sent, or the client leaves: it is unsubscribed and unregistered.
WebLeaves ==
    /\ web.phase \in {"connecting", "subscribed"}
    /\ web' = [web EXCEPT !.phase = "gone"]
    /\ queue' = [queue EXCEPT !["web"] = None]
    /\ UNCHANGED <<storeVars, log, got, full, from, tuiPhase, tui, switches, missed>>

NextPresentation ==
    \/ \E s \in Sessions, human \in BOOLEAN :
        \/ RequestInitiated(s, human)
        \/ \E flagged \in BOOLEAN : TurnCompleted(s, human, flagged)
    \/ \E s \in Sessions : SessionDisconnected(s) \/ TuiSwitches(s)
    \/ TuiStarts \/ TuiSubscribes \/ TuiHandles
    \/ \E filter \in Sessions \cup {None} : WebConnects(filter)
    \/ WebSubscribes \/ WebForwards \/ WebLeaves

SpecPresentation == InitPresentation /\ [][NextPresentation]_presentationVars
-----------------------------------------------------------------------------
(* Properties. *)

\* A sequence of positions in the order of the log.
InOrder(s) == \A i, j \in DOMAIN s : i < j => s[i] < s[j]

\* A subscriber is served by itself: what it has taken and what is queued for it are, in order,
\* the events published since it subscribed, without those that found its own queue full.  A
\* slow subscriber costs the others nothing, and a web client is sent every event of its
\* session and the global ones, and no other.
SubscribersMissOnlyTheirOwn ==
    \A r \in Subscribers : queue[r] # None =>
        /\ InOrder(got[r] \o queue[r])
        /\ ToSet(got[r] \o queue[r]) =
                {p \in 1..Len(log) : p > from[r] /\ p \notin full[r]}
        /\ r = "web" =>
            /\ InOrder(web.sent)
            /\ ToSet(web.sent) = {p \in ToSet(got[r]) :
                    \/ web.session \in {None, log[p].session}
                    \/ log[p].type \in {"SESSION_CREATED", "SESSION_DISCONNECTED"}}

\* The last event of a type for a turn, 0 if there is none.
Latest(type, s, i) ==
    SelectLastInSeq(log, LAMBDA e : e.type = type /\ e.session = s /\ e.index = i)

\* Once the TUI has handled what was queued, what it holds of a session is what the store
\* holds, as long as it has missed no event of it since it loaded it: each turn with its steps
\* and its violations, whether the turns were loaded, followed live, or loaded anew while older
\* events were still queued.  A turn that it shows as streaming was announced and has not
\* completed.  The totals are those of the session shown, unless the last summary was another's.
DrainedTuiIsRight ==
    (tuiPhase = "listening" /\ queue["tui"] = <<>>) =>
        /\ \A s \in Sessions \ missed :
            LET list == IF tui.lists[s] = None THEN <<>> ELSE tui.lists[s]
            IN  /\ {<<e.index + 1, e.steps, e.flagged>> : e \in {f \in ToSet(list) : f.steps > 0}}
                    = {<<i, turns[s][i].steps, turns[s][i].flagged>> : i \in DOMAIN turns[s]}
                /\ \A e \in ToSet(list) : e.status = "streaming" =>
                    Latest("TURN_STARTED", s, e.index) > Latest("TURN_COMPLETED", s, e.index)
                /\ \A i \in DOMAIN turns[s] : turns[s][i].flagged =>
                    \E a \in tui.alarms[s] : a.index = i - 1
        /\ (tui.shown \notin missed \cup {None} /\ ~tui.foreign) =>
            tui.total = Total(turns[tui.shown])
=============================================================================
