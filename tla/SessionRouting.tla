--------------------------- MODULE SessionRouting ---------------------------
(***************************************************************************)
(* How CtxinsAddon (interceptor/addon.py) attributes requests to sessions, *)
(* and when it reports a session as disconnected.                          *)
(*                                                                         *)
(* An agent process holds conversations, and sends the requests of each in *)
(* order over its connections; conversations interleave.  The addon sees   *)
(* no conversations: it tells them apart by an explicit session id, by the *)
(* process, by the first message of the history and by its length.  Hooks  *)
(* run one at a time; requestheaders and request are two of them, and      *)
(* others run in between.                                                  *)
(*                                                                         *)
(* A session name is a base and the number of the sub-session: <<e, 1>> is *)
(* the explicit id e itself, <<e, 2>> is "e_2", <<p, 1>> is                *)
(* "sess_{harness}_{p}".  normalize_session_id leaves these names as they  *)
(* are, for _extract_ids has normalized the id already.                    *)
(***************************************************************************)
EXTENDS Naturals, Sequences

CONSTANTS
    Conversation,
    Peer,           \* client addresses and ports
    Process,        \* pids of agent processes
    ExplicitId,     \* session ids that requests carry
    Text,           \* texts of first messages
    None,           \* Python's None, and the empty text
    Default,        \* default_session_id
    Unnamed,        \* base of the names that end in a random uuid
    Profiles,       \* what the requests of a conversation look like
    MaxRequests     \* bound: requests that begin

Profile ==
    [process : Process \cup {None},     \* pid found for the connection
     known : BOOLEAN,                   \* the agent is recognized
     id : ExplicitId \cup {None},       \* the session id in headers or body
     inHeaders : BOOLEAN,               \* the id is in the headers
     text : Text \cup {None},           \* the first message
     opening : {1, 2}]                  \* messages in the first request, 2 for more

ASSUME ProfileAssumption == Profiles \subseteq Profile /\ MaxRequests \in Nat
\* The names of sessions.
Base == Process \cup ExplicitId \cup {Default, Unnamed}
Name == Base \X Nat

ASSUME NoneAssumption ==
    /\ None \notin Process \cup ExplicitId \cup Text
    /\ None \notin Name
    /\ Process \cap ExplicitId = {}
    /\ Default \notin Process \cup ExplicitId /\ Unnamed \notin Process \cup ExplicitId

VARIABLES
    profile,            \* of each conversation, fixed
    requests,           \* requests each conversation has sent
    started,            \* requests that began
    owner,              \* the process of each connection, "closed" if there is none
    pending,            \* the peer of the request between its two hooks, None if there is none
    sidTrack,           \* the _sid_* maps: one entry for each explicit id
    pidTrack,           \* the _pid_* maps: one entry for each process
    client_to_session,
    session_to_clients,
    uuids,              \* random names made up so far
    log,                \* REQUEST_INITIATED envelopes: conversation and session
    gone                \* sessions reported as disconnected and not used since

trackVars == <<sidTrack, pidTrack>>
connVars  == <<owner, client_to_session, session_to_clients>>
vars == <<profile, requests, started, pending, trackVars, connVars, uuids, log, gone>>

\* Nothing known yet of an id or a process.
Untracked == [active |-> None, counter |-> 0, length |-> 0, text |-> None]

Init ==
    /\ profile \in [Conversation -> Profiles]
    /\ requests = [c \in Conversation |-> 0] /\ started = 0
    /\ owner = [a \in Peer |-> "closed"]
    /\ pending = [c \in Conversation |-> None]
    /\ sidTrack = [e \in ExplicitId |-> Untracked]
    /\ pidTrack = [p \in Process |-> Untracked]
    /\ client_to_session = [a \in Peer |-> None]
    /\ session_to_clients = [s \in {} |-> {}]
    /\ uuids = 0
    /\ log = <<>> /\ gone = {}
-----------------------------------------------------------------------------
(* Telling conversations apart. *)

\* A reset that compares the length with one message too many.
ResetOneTooLong(entry, text, length) ==
    \/ entry.text # None /\ text # None /\ entry.text # text
    \/ length <= 2 /\ entry.length >= 2

\* The first message changed, or the history shrank to a first request.
Reset(entry, text, length) ==
    \/ entry.text # None /\ text # None /\ entry.text # text
    \/ length <= 1 /\ entry.length >= 2

\* A new session that takes its number from a counter that wraps around.
TrackedWrapping(entry, base, text, length) ==
    LET fresh   == entry.active = None \/ Reset(entry, text, length)
        counter == IF fresh THEN (entry.counter % 2) + 1 ELSE entry.counter
    IN  [active  |-> IF fresh THEN <<base, counter>> ELSE entry.active,
         counter |-> counter,
         length  |-> length,
         text    |-> IF text = None THEN entry.text ELSE text]

\* A first message that is remembered once and never replaced.
TrackedByFirstText(entry, base, text, length) ==
    LET fresh   == entry.active = None \/ Reset(entry, text, length)
        counter == IF fresh THEN entry.counter + 1 ELSE entry.counter
    IN  [active  |-> IF fresh THEN <<base, counter>> ELSE entry.active,
         counter |-> counter,
         length  |-> length,
         text    |-> IF entry.text = None THEN text ELSE entry.text]

\* A session is opened for a reset alone, not for the first request of all.
TrackedFromReset(entry, base, text, length) ==
    LET fresh   == Reset(entry, text, length)
        counter == IF fresh THEN entry.counter + 1 ELSE entry.counter
    IN  [active  |-> IF fresh THEN <<base, counter>> ELSE entry.active,
         counter |-> counter,
         length  |-> length,
         text    |-> IF text = None THEN entry.text ELSE text]

\* The entry after a request: the same session, or a new one with the next number.
Tracked(entry, base, text, length) ==
    LET fresh   == entry.active = None \/ Reset(entry, text, length)
        counter == IF fresh THEN entry.counter + 1 ELSE entry.counter
    IN  [active  |-> IF fresh THEN <<base, counter>> ELSE entry.active,
         counter |-> counter,
         length  |-> length,
         text    |-> IF text = None THEN entry.text ELSE text]

\* Messages in the next request of c; 2 stands for two or more.
LengthOf(c) == IF requests[c] = 0 THEN profile[c].opening ELSE 2
-----------------------------------------------------------------------------
(* Connections. *)

Clients(s) == IF s \in DOMAIN session_to_clients THEN session_to_clients[s] ELSE {}

\* Both maps after peer a was used for session s.
Associate(a, s) ==
    /\ client_to_session' = [client_to_session EXCEPT ![a] = s]
    /\ session_to_clients' =
            [t \in DOMAIN session_to_clients \cup {s} |->
                IF t = s THEN Clients(s) \cup {a} ELSE session_to_clients[t]]
    /\ gone' = gone \ {s}

\* The session requestheaders assigns, before there is a body.
EarlyName(c) ==
    LET f == profile[c]
    IN  IF f.id # None /\ f.inHeaders THEN <<f.id, 1>>
        ELSE IF ~f.known THEN <<Default, 1>>
        ELSE IF f.process # None THEN <<f.process, 1>>
        ELSE <<Unnamed, uuids + 1>>

\* requestheaders, on a connection of the process that sends the request.
RequestHeaders(c, a) ==
    /\ pending[c] = None
    /\ owner[a] \in {"closed", profile[c].process}
    /\ started < MaxRequests
    /\ started' = started + 1
    /\ owner' = [owner EXCEPT ![a] = profile[c].process]
    /\ pending' = [pending EXCEPT ![c] = a]
    /\ Associate(a, EarlyName(c))
    /\ uuids' = IF EarlyName(c)[1] = Unnamed THEN uuids + 1 ELSE uuids
    /\ UNCHANGED <<profile, requests, trackVars, log>>

\* request, once the session is settled: the maps follow, and the envelope is emitted.
Settle(c, s) ==
    /\ pending[c] # None
    /\ Associate(pending[c], s)
    /\ pending' = [pending EXCEPT ![c] = None]
    /\ requests' = [requests EXCEPT ![c] = @ + 1]
    /\ log' = Append(log, [conversation |-> c, session |-> s])
    /\ UNCHANGED <<profile, started, owner>>

\* request with an explicit session id, which becomes the active one of the process.
RequestWithId(c) ==
    LET f     == profile[c]
        entry == Tracked(sidTrack[f.id], f.id, f.text, LengthOf(c))
    IN  /\ f.id # None
        /\ Settle(c, entry.active)
        /\ sidTrack' = [sidTrack EXCEPT ![f.id] = entry]
        /\ pidTrack' = IF f.process = None
                       THEN pidTrack
                       ELSE [pidTrack EXCEPT ![f.process].active = entry.active]
        /\ UNCHANGED uuids

\* request without one, from a process that is known.
RequestOfProcess(c) ==
    LET f     == profile[c]
        entry == Tracked(pidTrack[f.process], f.process, f.text, LengthOf(c))
    IN  /\ f.id = None /\ f.process # None
        /\ Settle(c, entry.active)
        /\ pidTrack' = [pidTrack EXCEPT ![f.process] = entry]
        /\ UNCHANGED <<sidTrack, uuids>>

\* request with neither: a random name, or the default session.
RequestUnattributed(c) ==
    LET f == profile[c]
    IN  /\ f.id = None /\ f.process = None
        /\ Settle(c, IF f.known THEN <<Unnamed, uuids + 1>> ELSE <<Default, 1>>)
        /\ uuids' = IF f.known THEN uuids + 1 ELSE uuids
        /\ UNCHANGED trackVars

\* request that finds its turn removed or timed out leaves the session unsettled.
RequestUntracked(c) ==
    /\ pending[c] # None
    /\ pending' = [pending EXCEPT ![c] = None]
    /\ requests' = [requests EXCEPT ![c] = @ + 1]
    /\ UNCHANGED <<profile, started, trackVars, connVars, uuids, log, gone>>

\* A disconnection that reports the session though it has other clients.
ReportedAtOnce(a, s) == s

\* The session a disconnection reports: that of the peer, when the peer was its last one.
Reported(a, s) == IF Clients(s) = {a} THEN s ELSE None

\* client_disconnected; requests between their hooks die with their connection.
ClientDisconnected(a) ==
    LET s == client_to_session[a]
    IN  /\ s # None
        /\ owner' = [owner EXCEPT ![a] = "closed"]
        /\ client_to_session' = [client_to_session EXCEPT ![a] = None]
        /\ session_to_clients' =
                [t \in DOMAIN session_to_clients \ {r \in {s} : Clients(r) = {a}} |->
                    IF t = s THEN Clients(s) \ {a} ELSE session_to_clients[t]]
        /\ gone' = gone \cup ({Reported(a, s)} \ {None})
        /\ pending' = [c \in Conversation |-> IF pending[c] = a THEN None ELSE pending[c]]
        /\ UNCHANGED <<profile, requests, started, trackVars, uuids, log>>

Next ==
    \/ \E c \in Conversation :
        \/ \E a \in Peer : RequestHeaders(c, a)
        \/ RequestWithId(c) \/ RequestOfProcess(c) \/ RequestUnattributed(c)
        \/ RequestUntracked(c)
    \/ \E a \in Peer : ClientDisconnected(a)

Spec == Init /\ [][Next]_vars
-----------------------------------------------------------------------------
(* Properties. *)

Entry ==
    [active : Name \cup {None}, counter : Nat, length : 0..2, text : Text \cup {None}]

\* The values of the variables; requests are only ever attributed to sessions with a name.
TypeOK ==
    /\ profile \in [Conversation -> Profiles]
    /\ requests \in [Conversation -> Nat] /\ started \in 0..MaxRequests
    /\ owner \in [Peer -> Process \cup {None, "closed"}]
    /\ pending \in [Conversation -> Peer \cup {None}]
    /\ sidTrack \in [ExplicitId -> Entry]
    /\ pidTrack \in [Process -> Entry]
    /\ client_to_session \in [Peer -> Name \cup {None}]
    /\ session_to_clients \in [DOMAIN session_to_clients -> SUBSET Peer]
    /\ DOMAIN session_to_clients \subseteq Name
    /\ uuids \in Nat
    /\ log \in Seq([conversation : Conversation, session : Name])
    /\ gone \subseteq Name

\* What the addon tracks a conversation by.
Key(c) == IF profile[c].id # None THEN profile[c].id ELSE profile[c].process

KeyAt(i) == Key(log[i].conversation)

\* The keys whose entry no conversation of another key changes: explicit ids, and the
\* processes that send none.
Undisturbed(k) ==
    k # None /\ \A c \in Conversation : profile[c].process = k => profile[c].id = None

\* Requests i and j are of one such key.
SameKey(i, j) == KeyAt(i) = KeyAt(j) /\ Undisturbed(KeyAt(i))

\* A conversation that no other one of its key interrupts stays in its session, whatever
\* its messages are and whatever other keys do in between.
ContinuesInItsSession ==
    \A i, j \in 1..Len(log) :
        /\ i < j /\ SameKey(i, j) /\ log[i].conversation = log[j].conversation
        /\ \A h \in i..j : KeyAt(h) = KeyAt(i) => log[h].conversation = log[i].conversation
        => log[i].session = log[j].session

\* Each conversation of the key k has a first message, and one of its own.
Telling(k) ==
    \A c, d \in Conversation :
        Key(c) = k /\ Key(d) = k =>
            profile[c].text # None /\ (profile[c].text = profile[d].text => c = d)

\* A reused id is told apart by first messages: conversations that differ in them never
\* share a session, however they interleave.
OneConversationPerSession ==
    \A i, j \in 1..Len(log) :
        SameKey(i, j) /\ Telling(KeyAt(i)) /\ log[i].session = log[j].session =>
            log[i].conversation = log[j].conversation

\* A session that was given up for a newer one of its key never gets another request.
NeverReturns ==
    \A i, h, j \in 1..Len(log) :
        i < h /\ h < j /\ SameKey(i, j) /\ SameKey(i, h) /\ log[i].session = log[j].session =>
            log[h].session = log[i].session

\* A session last reported as disconnected is not the current session of any connection.
DisconnectedIsUnused == \A a \in Peer : client_to_session[a] \notin gone
=============================================================================
