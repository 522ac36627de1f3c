------------------------ MODULE SessionRoutingProofs ------------------------
(***************************************************************************)
(* Theorems about SessionRouting, for every set of conversations, agents,  *)
(* connections and texts.                                                  *)
(*                                                                         *)
(* Two invariants are independent of each other.  Routed says what an      *)
(* entry of the tracking maps remembers of the log; Attached says that a   *)
(* connection is in the set of the session it is currently used for.       *)
(***************************************************************************)
EXTENDS SessionRouting, TLAPS

USE ProfileAssumption, NoneAssumption

(* Types. *)

LEMMA ProfileFacts ==
    ASSUME TypeOK, NEW c \in Conversation
    PROVE  /\ profile[c].process \in Process \cup {None}
           /\ profile[c].id \in ExplicitId \cup {None}
           /\ profile[c].text \in Text \cup {None}
           /\ profile[c].known \in BOOLEAN
           /\ LengthOf(c) \in 1..2
           /\ Key(c) \in ExplicitId \cup Process \cup {None}
<1>1. profile[c] \in Profile
  BY DEF TypeOK
<1> QED
  BY <1>1 DEF Profile, LengthOf, Key

LEMMA TrackedType ==
    ASSUME NEW entry \in Entry, NEW base \in Base, NEW text \in Text \cup {None},
           NEW length \in 0..2
    PROVE  /\ Tracked(entry, base, text, length) \in Entry
           /\ Tracked(entry, base, text, length).active \in Name
  BY DEF Tracked, Entry, Name

LEMMA EarlyNameType ==
    ASSUME TypeOK, NEW c \in Conversation
    PROVE  EarlyName(c) \in Name
  BY ProfileFacts DEF EarlyName, Name, Base, TypeOK

\* The types of the connection maps, kept apart for the lemmas.
Maps ==
    /\ client_to_session \in [Peer -> Name \cup {None}]
    /\ session_to_clients \in [DOMAIN session_to_clients -> SUBSET Peer]
    /\ DOMAIN session_to_clients \subseteq Name
    /\ gone \subseteq Name

LEMMA AssociateType ==
    ASSUME Maps, NEW a \in Peer, NEW s \in Name, Associate(a, s)
    PROVE  Maps'
<1>1. client_to_session' \in [Peer -> Name \cup {None}]
  BY DEF Maps, Associate
<1>2. DOMAIN session_to_clients' = DOMAIN session_to_clients \cup {s}
  BY DEF Associate
<1>3. \A t \in DOMAIN session_to_clients' : session_to_clients'[t] \in SUBSET Peer
  BY <1>2 DEF Associate, Maps, Clients
<1>4. session_to_clients' \in [DOMAIN session_to_clients' -> SUBSET Peer]
  BY <1>3 DEF Associate
<1>5. gone' \subseteq Name
  BY DEF Maps, Associate
<1> QED
  BY <1>1, <1>2, <1>4, <1>5 DEF Maps

LEMMA DisconnectType ==
    ASSUME Maps, NEW a \in Peer, ClientDisconnected(a)
    PROVE  Maps'
<1> DEFINE s == client_to_session[a]
<1>1. s \in Name
  BY DEF Maps, ClientDisconnected
<1>2. client_to_session' \in [Peer -> Name \cup {None}]
  BY DEF Maps, ClientDisconnected
<1>3. DOMAIN session_to_clients' = DOMAIN session_to_clients \ {r \in {s} : Clients(r) = {a}}
  BY DEF ClientDisconnected
<1>4. \A t \in DOMAIN session_to_clients' : session_to_clients'[t] \in SUBSET Peer
  BY <1>3 DEF ClientDisconnected, Maps, Clients
<1>5. session_to_clients' \in [DOMAIN session_to_clients' -> SUBSET Peer]
  BY <1>4 DEF ClientDisconnected
<1>6. gone' \subseteq Name
  BY <1>1 DEF Maps, ClientDisconnected, Reported
<1> QED
  BY <1>2, <1>3, <1>5, <1>6 DEF Maps

LEMMA SettleType ==
    ASSUME TypeOK, NEW c \in Conversation, NEW s \in Name, Settle(c, s)
    PROVE  /\ Maps'
           /\ profile' \in [Conversation -> Profiles]
           /\ requests' \in [Conversation -> Nat]
           /\ started' \in 0..MaxRequests
           /\ owner' \in [Peer -> Process \cup {None, "closed"}]
           /\ pending' \in [Conversation -> Peer \cup {None}]
           /\ log' \in Seq([conversation : Conversation, session : Name])
<1>1. pending[c] \in Peer
  BY DEF TypeOK, Settle
<1>2. Maps'
  BY <1>1, AssociateType DEF TypeOK, Maps, Settle
<1>3. [conversation |-> c, session |-> s] \in [conversation : Conversation, session : Name]
  OBVIOUS
<1>4. log' \in Seq([conversation : Conversation, session : Name])
  BY <1>3 DEF TypeOK, Settle
<1> QED
  BY <1>2, <1>4 DEF TypeOK, Settle

LEMMA TypeInit == Init => TypeOK
<1> SUFFICES ASSUME Init PROVE TypeOK
  OBVIOUS
<1>1. Untracked \in Entry
  BY DEF Untracked, Entry
<1>2. /\ session_to_clients \in [DOMAIN session_to_clients -> SUBSET Peer]
      /\ DOMAIN session_to_clients \subseteq Name
  BY DEF Init
<1>3. log \in Seq([conversation : Conversation, session : Name])
  BY DEF Init
<1> QED
  BY <1>1, <1>2, <1>3 DEF Init, TypeOK

LEMMA TypeNext == TypeOK /\ [Next]_vars => TypeOK'
<1> SUFFICES ASSUME TypeOK, [Next]_vars PROVE TypeOK'
  OBVIOUS
<1>m. Maps
  BY DEF TypeOK, Maps
<1>1. ASSUME NEW c \in Conversation, NEW a \in Peer, RequestHeaders(c, a)
      PROVE  TypeOK'
  <2>1. EarlyName(c) \in Name
    BY EarlyNameType
  <2>2. Maps'
    BY <1>m, <1>1, <2>1, AssociateType DEF RequestHeaders
  <2>3. owner' \in [Peer -> Process \cup {None, "closed"}]
    BY <1>1, ProfileFacts DEF RequestHeaders, TypeOK
  <2>4. started' \in 0..MaxRequests
    BY <1>1 DEF RequestHeaders, TypeOK
  <2>5. pending' \in [Conversation -> Peer \cup {None}]
    BY <1>1 DEF RequestHeaders, TypeOK
  <2>6. uuids' \in Nat
    BY <1>1 DEF RequestHeaders, TypeOK
  <2> QED
    BY <1>1, <2>2, <2>3, <2>4, <2>5, <2>6 DEF RequestHeaders, TypeOK, Maps, trackVars
<1>2. ASSUME NEW c \in Conversation, RequestWithId(c)
      PROVE  TypeOK'
  <2> DEFINE e == profile[c].id
             entry == Tracked(sidTrack[e], e, profile[c].text, LengthOf(c))
  <2>1. /\ e \in ExplicitId /\ e \in Base /\ sidTrack[e] \in Entry
        /\ profile[c].text \in Text \cup {None} /\ LengthOf(c) \in 0..2
    BY <1>2, ProfileFacts DEF RequestWithId, TypeOK, Base
  <2>2. entry \in Entry /\ entry.active \in Name
    BY <2>1, TrackedType
  <2> HIDE DEF entry
  <2>3. Settle(c, entry.active)
    BY <1>2 DEF RequestWithId, entry
  <2>4. sidTrack' \in [ExplicitId -> Entry]
    BY <1>2, <2>1, <2>2 DEF RequestWithId, TypeOK, entry
  <2>5. pidTrack' \in [Process -> Entry]
    <3>1. CASE profile[c].process = None
      BY <1>2, <3>1 DEF RequestWithId, TypeOK
    <3>2. CASE profile[c].process # None
      <4>1. \A x \in Entry : [x EXCEPT !.active = entry.active] \in Entry
        BY <2>2 DEF Entry
      <4>2. pidTrack' = [pidTrack EXCEPT ![profile[c].process].active = entry.active]
        BY <1>2, <3>2 DEF RequestWithId, entry
      <4>3. profile[c].process \in Process
        BY <3>2, ProfileFacts
      <4> QED
        BY <4>1, <4>2, <4>3 DEF TypeOK
    <3> QED
      BY <3>1, <3>2
  <2>6. uuids' = uuids
    BY <1>2 DEF RequestWithId
  <2> QED
    BY <2>2, <2>3, <2>4, <2>5, <2>6, SettleType DEF TypeOK, Maps
<1>3. ASSUME NEW c \in Conversation, RequestOfProcess(c)
      PROVE  TypeOK'
  <2> DEFINE p == profile[c].process
             entry == Tracked(pidTrack[p], p, profile[c].text, LengthOf(c))
  <2>1. /\ p \in Process /\ p \in Base /\ pidTrack[p] \in Entry
        /\ profile[c].text \in Text \cup {None} /\ LengthOf(c) \in 0..2
    BY <1>3, ProfileFacts DEF RequestOfProcess, TypeOK, Base
  <2>2. entry \in Entry /\ entry.active \in Name
    BY <2>1, TrackedType
  <2> HIDE DEF entry
  <2>3. Settle(c, entry.active)
    BY <1>3 DEF RequestOfProcess, entry
  <2>4. pidTrack' \in [Process -> Entry]
    BY <1>3, <2>1, <2>2 DEF RequestOfProcess, TypeOK, entry
  <2>5. sidTrack' = sidTrack /\ uuids' = uuids
    BY <1>3 DEF RequestOfProcess
  <2> QED
    BY <2>2, <2>3, <2>4, <2>5, SettleType DEF TypeOK, Maps
<1>4. ASSUME NEW c \in Conversation, RequestUnattributed(c)
      PROVE  TypeOK'
  <2> DEFINE s == IF profile[c].known THEN <<Unnamed, uuids + 1>> ELSE <<Default, 1>>
  <2>1. s \in Name
    BY DEF TypeOK, Name, Base
  <2>2. Settle(c, s)
    BY <1>4 DEF RequestUnattributed
  <2>3. uuids' \in Nat
    BY <1>4 DEF RequestUnattributed, TypeOK
  <2>4. UNCHANGED trackVars
    BY <1>4 DEF RequestUnattributed
  <2> HIDE DEF s
  <2> QED
    BY <2>1, <2>2, <2>3, <2>4, SettleType DEF TypeOK, Maps, trackVars
<1>5. ASSUME NEW c \in Conversation, RequestUntracked(c)
      PROVE  TypeOK'
  BY <1>5 DEF RequestUntracked, TypeOK, trackVars, connVars
<1>6. ASSUME NEW a \in Peer, ClientDisconnected(a)
      PROVE  TypeOK'
  <2>1. Maps'
    BY <1>m, <1>6, DisconnectType
  <2>2. owner' \in [Peer -> Process \cup {None, "closed"}]
    BY <1>6 DEF ClientDisconnected, TypeOK
  <2>3. pending' \in [Conversation -> Peer \cup {None}]
    BY <1>6 DEF ClientDisconnected, TypeOK
  <2> QED
    BY <1>6, <2>1, <2>2, <2>3 DEF ClientDisconnected, TypeOK, Maps, trackVars
<1>7. CASE UNCHANGED vars
  BY <1>7 DEF TypeOK, vars, trackVars, connVars
<1> QED
  BY <1>1, <1>2, <1>3, <1>4, <1>5, <1>6, <1>7 DEF Next

\* Every request is attributed to a session with a name, and the maps hold what the code
\* puts there, in every behaviour (CtxinsAddon.requestheaders, request, client_disconnected).
THEOREM TypeCorrect == Spec => []TypeOK
<1> QED
  BY TypeInit, TypeNext, PTL DEF Spec
-----------------------------------------------------------------------------
(* Connections. *)

\* Each connection is a client of its session.  A session that loses its last client is
\* therefore no connection's session, which is all a SESSION_DISCONNECTED needs.
Attached ==
    /\ \A a \in Peer : client_to_session[a] # None => a \in Clients(client_to_session[a])
    /\ None \notin gone

AInv == TypeOK /\ Attached /\ DisconnectedIsUnused

LEMMA AssociateAttached ==
    ASSUME AInv, NEW a \in Peer, NEW s \in Name, Associate(a, s)
    PROVE  Attached' /\ DisconnectedIsUnused'
<1>1. /\ DOMAIN session_to_clients' = DOMAIN session_to_clients \cup {s}
      /\ session_to_clients'[s] = Clients(s) \cup {a}
      /\ \A t \in DOMAIN session_to_clients : t # s => session_to_clients'[t] = session_to_clients[t]
  BY DEF Associate
<1>2. \A t : Clients(t) \subseteq Clients(t)' /\ a \in Clients(s)'
  BY <1>1 DEF Clients
<1>3. \A b \in Peer : client_to_session'[b] = IF b = a THEN s ELSE client_to_session[b]
  BY DEF AInv, TypeOK, Associate
<1>4. gone' = gone \ {s}
  BY DEF Associate
<1> QED
  BY <1>2, <1>3, <1>4 DEF AInv, Attached, DisconnectedIsUnused

LEMMA DisconnectAttached ==
    ASSUME AInv, NEW a \in Peer, ClientDisconnected(a)
    PROVE  Attached' /\ DisconnectedIsUnused'
<1> DEFINE s == client_to_session[a]
<1>1. s \in Name /\ s # None
  BY DEF AInv, TypeOK, ClientDisconnected
<1>2. \A b \in Peer : client_to_session'[b] = IF b = a THEN None ELSE client_to_session[b]
  BY DEF AInv, TypeOK, ClientDisconnected
<1>3. \A b \in Peer : client_to_session'[b] # None => b # a /\ client_to_session'[b] = client_to_session[b]
  BY <1>2
<1>4. ASSUME NEW b \in Peer, client_to_session'[b] # None
      PROVE  (b \in Clients(client_to_session[b]))'
  <2> DEFINE t == client_to_session[b]
  <2>1. b # a /\ client_to_session'[b] = t /\ b \in Clients(t)
    BY <1>3, <1>4 DEF AInv, Attached
  <2>2. t \in DOMAIN session_to_clients /\ (t = s => Clients(t) # {a})
    BY <2>1 DEF Clients
  <2>3. t \in DOMAIN session_to_clients'
    BY <2>2 DEF ClientDisconnected
  <2>4. session_to_clients'[t] = IF t = s THEN Clients(s) \ {a} ELSE session_to_clients[t]
    BY <2>3 DEF ClientDisconnected
  <2> QED
    BY <2>1, <2>2, <2>3, <2>4 DEF Clients
<1>5. gone' = gone \cup ({Reported(a, s)} \ {None})
  BY DEF ClientDisconnected
<1>6. ASSUME NEW b \in Peer, client_to_session'[b] \in gone'
      PROVE  FALSE
  <2>1. client_to_session'[b] # None
    BY <1>5, <1>6 DEF AInv, Attached
  <2>2. b # a /\ client_to_session'[b] = client_to_session[b] /\ b \in Clients(client_to_session[b])
    BY <1>3, <2>1 DEF AInv, Attached
  <2>3. client_to_session[b] = s /\ Clients(s) = {a}
    BY <1>5, <1>6, <2>1, <2>2 DEF AInv, DisconnectedIsUnused, Reported
  <2> QED
    BY <2>2, <2>3
<1> QED
  BY <1>4, <1>5, <1>6 DEF AInv, Attached, DisconnectedIsUnused

LEMMA AttachedNext == AInv /\ [Next]_vars => AInv'
<1> SUFFICES ASSUME AInv, [Next]_vars PROVE Attached' /\ DisconnectedIsUnused'
  BY TypeNext DEF AInv
<1>0. TypeOK
  BY DEF AInv
<1>1. ASSUME NEW c \in Conversation, NEW s \in Name, Settle(c, s)
      PROVE  Attached' /\ DisconnectedIsUnused'
  <2>1. pending[c] \in Peer /\ Associate(pending[c], s)
    BY <1>0, <1>1 DEF Settle, TypeOK
  <2> QED
    BY <2>1, AssociateAttached
<1>2. ASSUME NEW c \in Conversation, NEW a \in Peer, RequestHeaders(c, a)
      PROVE  Attached' /\ DisconnectedIsUnused'
  BY <1>0, <1>2, EarlyNameType, AssociateAttached DEF RequestHeaders
<1>3. ASSUME NEW c \in Conversation,
             RequestWithId(c) \/ RequestOfProcess(c) \/ RequestUnattributed(c)
      PROVE  \E s \in Name : Settle(c, s)
  <2>1. /\ profile[c].text \in Text \cup {None} /\ LengthOf(c) \in 0..2
        /\ profile[c].process \in Process \cup {None} /\ profile[c].id \in ExplicitId \cup {None}
    BY <1>0, ProfileFacts
  <2>2. CASE RequestWithId(c)
    <3>1. profile[c].id \in Base /\ sidTrack[profile[c].id] \in Entry
      BY <1>0, <2>1, <2>2 DEF RequestWithId, TypeOK, Base
    <3> QED
      BY <2>1, <2>2, <3>1, TrackedType DEF RequestWithId
  <2>3. CASE RequestOfProcess(c)
    <3>1. profile[c].process \in Base /\ pidTrack[profile[c].process] \in Entry
      BY <1>0, <2>1, <2>3 DEF RequestOfProcess, TypeOK, Base
    <3> QED
      BY <2>1, <2>3, <3>1, TrackedType DEF RequestOfProcess
  <2>4. CASE RequestUnattributed(c)
    <3>1. (IF profile[c].known THEN <<Unnamed, uuids + 1>> ELSE <<Default, 1>>) \in Name
      BY <1>0 DEF TypeOK, Name, Base
    <3> QED
      BY <2>4, <3>1 DEF RequestUnattributed
  <2> QED
    BY <1>3, <2>2, <2>3, <2>4
<1>4. ASSUME UNCHANGED <<client_to_session, session_to_clients, gone>>
      PROVE  Attached' /\ DisconnectedIsUnused'
  BY <1>4 DEF AInv, Attached, DisconnectedIsUnused, Clients
<1>5. ASSUME NEW c \in Conversation, RequestUntracked(c)
      PROVE  Attached' /\ DisconnectedIsUnused'
  BY <1>4, <1>5 DEF RequestUntracked, connVars
<1>6. CASE UNCHANGED vars
  BY <1>4, <1>6 DEF vars, connVars
<1> QED
  BY <1>1, <1>2, <1>3, <1>5, <1>6, DisconnectAttached DEF Next

\* client_disconnected never reports a session that another connection is using.
THEOREM ReportsTheUnused == Spec => []DisconnectedIsUnused
<1>1. Init => AInv
  BY TypeInit DEF Init, AInv, Attached, DisconnectedIsUnused
<1>2. AInv => DisconnectedIsUnused
  BY DEF AInv
<1> QED
  BY <1>1, <1>2, AttachedNext, PTL DEF Spec
-----------------------------------------------------------------------------
(* Sessions. *)

KeyEntry(k) == IF k \in ExplicitId THEN sidTrack[k] ELSE pidTrack[k]

NumberAt(i) == log[i].session[2]

Keys == {k \in ExplicitId \cup Process : Undisturbed(k)}

\* The sessions of a key are numbered up to its counter, and its active one is the last.
Numbered ==
    \A k \in Keys :
        /\ KeyEntry(k).active \in {None, <<k, KeyEntry(k).counter>>}
        /\ \A i \in 1..Len(log) : KeyAt(i) = k =>
                log[i].session[1] = k /\ NumberAt(i) <= KeyEntry(k).counter

\* The numbers never decrease in the course of the log.
Ordered ==
    \A i, j \in 1..Len(log) : i < j /\ SameKey(i, j) => NumberAt(i) <= NumberAt(j)

\* No other conversation of its key has sent a request since request i.
Uninterrupted(i) ==
    \A h \in i..Len(log) :
        KeyAt(h) = KeyAt(i) => log[h].conversation = log[i].conversation

\* The entry of a key remembers the conversation that sent the last request.
Remembered ==
    \A k \in Keys : \A i \in 1..Len(log) : KeyAt(i) = k /\ Uninterrupted(i) =>
        /\ log[i].session = KeyEntry(k).active
        /\ requests[log[i].conversation] > 0
        /\ profile[log[i].conversation].text \in {None, KeyEntry(k).text}

\* Where first messages tell conversations apart, the entry has the first message of every
\* request of the active session.
Told ==
    \A k \in Keys : Telling(k) =>
        /\ KeyEntry(k).active # None => KeyEntry(k).text # None
        /\ \A i \in 1..Len(log) : KeyAt(i) = k /\ log[i].session = KeyEntry(k).active =>
                profile[log[i].conversation].text = KeyEntry(k).text

RInv ==
    /\ TypeOK /\ Numbered /\ Ordered /\ Remembered /\ Told
    /\ ContinuesInItsSession /\ OneConversationPerSession

\* A request of conversation c, tracked by key k, goes to session s.
Attributed(c, k, s) ==
    /\ s \in Name
    /\ profile' = profile
    /\ requests' = [requests EXCEPT ![c] = @ + 1]
    /\ log' = Append(log, [conversation |-> c, session |-> s])
    /\ k = Key(c)
    /\ Undisturbed(k) =>
            /\ KeyEntry(k)' = Tracked(KeyEntry(k), k, profile[c].text, LengthOf(c))
            /\ s = KeyEntry(k)'.active
    /\ \A q \in ExplicitId \cup Process : q # k /\ Undisturbed(q) => KeyEntry(q)' = KeyEntry(q)

LEMMA RequestsAreAttributed ==
    ASSUME TypeOK, NEW c \in Conversation,
           RequestWithId(c) \/ RequestOfProcess(c) \/ RequestUnattributed(c)
    PROVE  \E k \in ExplicitId \cup Process \cup {None}, s \in Name : Attributed(c, k, s)
<1> DEFINE f == profile[c]
<1>0. /\ f.text \in Text \cup {None} /\ LengthOf(c) \in 0..2
      /\ f.process \in Process \cup {None} /\ f.id \in ExplicitId \cup {None}
  BY ProfileFacts
<1>1. CASE RequestWithId(c)
  <2>0. PICK k \in ExplicitId : k = f.id
    BY <1>0, <1>1 DEF RequestWithId
  <2> DEFINE entry == Tracked(sidTrack[k], k, f.text, LengthOf(c))
  <2>1. k # None /\ k = Key(c) /\ k \in Base /\ sidTrack[k] \in Entry
    BY <2>0 DEF Key, TypeOK, Base
  <2>2. entry.active \in Name
    BY <1>0, <2>1, TrackedType
  <2> HIDE DEF entry
  <2>3. Settle(c, entry.active) /\ sidTrack' = [sidTrack EXCEPT ![k] = entry]
    BY <1>1, <2>0 DEF RequestWithId, entry
  <2>4. KeyEntry(k) = sidTrack[k] /\ KeyEntry(k)' = entry
    BY <2>1, <2>3 DEF KeyEntry, TypeOK
  <2>5. ASSUME NEW q \in ExplicitId \cup Process, q # k, Undisturbed(q)
        PROVE  KeyEntry(q)' = KeyEntry(q)
    <3>1. CASE q \in ExplicitId
      BY <2>3, <2>5, <3>1 DEF KeyEntry, TypeOK
    <3>2. CASE q \notin ExplicitId
      <4>1. f.process # q
        BY <2>0, <2>5 DEF Undisturbed
      <4>2. pidTrack'[q] = pidTrack[q]
        <5>1. CASE f.process = None
          BY <1>1, <5>1 DEF RequestWithId
        <5>2. CASE f.process # None
          <6> DEFINE e == [pidTrack[f.process] EXCEPT !.active = entry.active]
          <6>1. pidTrack' = [pidTrack EXCEPT ![f.process] = e]
            BY <1>1, <2>0, <5>2 DEF RequestWithId, entry
          <6> HIDE DEF e
          <6> QED
            BY <2>5, <3>2, <4>1, <6>1 DEF TypeOK
        <5> QED
          BY <5>1, <5>2
      <4> QED
        BY <3>2, <4>2 DEF KeyEntry
    <3> QED
      BY <3>1, <3>2
  <2>6. Attributed(c, k, entry.active)
    BY <2>1, <2>2, <2>3, <2>4, <2>5 DEF Attributed, Settle, entry
  <2> QED
    BY <2>2, <2>6
<1>2. CASE RequestOfProcess(c)
  <2>0. PICK k \in Process : k = f.process
    BY <1>0, <1>2 DEF RequestOfProcess
  <2> DEFINE entry == Tracked(pidTrack[k], k, f.text, LengthOf(c))
  <2>1. /\ k # None /\ k = Key(c) /\ k \in Base /\ k \notin ExplicitId
        /\ pidTrack[k] \in Entry
    BY <1>2, <2>0 DEF RequestOfProcess, Key, TypeOK, Base
  <2>2. entry.active \in Name
    BY <1>0, <2>1, TrackedType
  <2> HIDE DEF entry
  <2>3. Settle(c, entry.active) /\ pidTrack' = [pidTrack EXCEPT ![k] = entry] /\ sidTrack' = sidTrack
    BY <1>2, <2>0 DEF RequestOfProcess, entry
  <2>4. KeyEntry(k) = pidTrack[k] /\ KeyEntry(k)' = entry
    BY <2>1, <2>3 DEF KeyEntry, TypeOK
  <2>5. \A q \in ExplicitId \cup Process : q # k => KeyEntry(q)' = KeyEntry(q)
    BY <2>3 DEF KeyEntry, TypeOK
  <2>6. Attributed(c, k, entry.active)
    BY <2>1, <2>2, <2>3, <2>4, <2>5 DEF Attributed, Settle, entry
  <2> QED
    BY <2>2, <2>6
<1>3. CASE RequestUnattributed(c)
  <2> DEFINE s == IF f.known THEN <<Unnamed, uuids + 1>> ELSE <<Default, 1>>
  <2>1. s \in Name
    BY DEF TypeOK, Name, Base
  <2> HIDE DEF s
  <2>2. Settle(c, s) /\ UNCHANGED trackVars /\ Key(c) = None
    BY <1>3 DEF RequestUnattributed, Key, s
  <2>3. Attributed(c, None, s)
    BY <2>1, <2>2 DEF Attributed, Settle, trackVars, KeyEntry, Undisturbed
  <2> QED
    BY <2>1, <2>3
<1> QED
  BY <1>1, <1>2, <1>3

LEMMA AppendFacts ==
    ASSUME NEW S, NEW q \in Seq(S), NEW x \in S
    PROVE  /\ Len(q) \in Nat /\ Len(Append(q, x)) = Len(q) + 1
           /\ \A i \in 1..Len(q) : Append(q, x)[i] = q[i] /\ q[i] \in S
           /\ Append(q, x)[Len(q) + 1] = x
  OBVIOUS

LEMMA LogFacts ==
    ASSUME TypeOK, NEW c \in Conversation, NEW k, NEW s, Attributed(c, k, s)
    PROVE  /\ Len(log) \in Nat /\ Len(log') = Len(log) + 1
           /\ \A i \in 1..Len(log) :
                /\ log'[i] = log[i] /\ KeyAt(i)' = KeyAt(i)
                /\ log[i].conversation \in Conversation /\ log[i].session \in Name
           /\ log'[Len(log) + 1] = [conversation |-> c, session |-> s]
           /\ \A n : n = Len(log) + 1 => KeyAt(n)' = k
<1> DEFINE R == [conversation : Conversation, session : Name]
           r == [conversation |-> c, session |-> s]
<1>1. log \in Seq(R) /\ r \in R
  BY DEF TypeOK, Attributed
<1>2. log' = Append(log, r) /\ profile' = profile /\ k = Key(c)
  BY DEF Attributed
<1>3. /\ \A x \in R : x.conversation \in Conversation /\ x.session \in Name
      /\ r.conversation = c
  OBVIOUS
<1> HIDE DEF R, r
<1>4. /\ Len(log) \in Nat /\ Len(log') = Len(log) + 1
      /\ \A i \in 1..Len(log) : log'[i] = log[i] /\ log[i] \in R
      /\ log'[Len(log) + 1] = r
  BY <1>1, <1>2, AppendFacts
<1>5. \A i \in 1..Len(log) : KeyAt(i)' = KeyAt(i)
  BY <1>2, <1>4 DEF KeyAt, Key
<1>6. \A n : n = Len(log) + 1 => KeyAt(n)' = k
  BY <1>2, <1>3, <1>4 DEF KeyAt, Key
<1> QED
  BY <1>3, <1>5, <1>6, <1>4 DEF r
LEMMA ElementFact ==
    ASSUME NEW S, NEW q \in Seq(S), NEW i \in 1..Len(q)
    PROVE  q[i] \in S
  OBVIOUS

LEMMA KeyFacts ==
    ASSUME TypeOK, NEW i \in 1..Len(log)
    PROVE  /\ log[i].conversation \in Conversation /\ log[i].session \in Name
           /\ NumberAt(i) \in Nat /\ log[i].session = <<log[i].session[1], NumberAt(i)>>
           /\ KeyAt(i) \in ExplicitId \cup Process \cup {None}
<1>1. log[i] \in [conversation : Conversation, session : Name]
  BY ElementFact DEF TypeOK
<1>2. log[i].conversation \in Conversation /\ log[i].session \in Name
  BY <1>1
<1>3. NumberAt(i) \in Nat /\ log[i].session = <<log[i].session[1], NumberAt(i)>>
  BY <1>2 DEF NumberAt, Name
<1>4. KeyAt(i) \in ExplicitId \cup Process \cup {None}
  BY <1>2, ProfileFacts DEF KeyAt
<1> QED
  BY <1>2, <1>3, <1>4

LEMMA EntryType ==
    ASSUME TypeOK, NEW k \in ExplicitId \cup Process
    PROVE  /\ KeyEntry(k).counter \in Nat
           /\ KeyEntry(k).active \in Name \cup {None}
           /\ KeyEntry(k).text \in Text \cup {None}
<1>1. KeyEntry(k) \in Entry
  BY DEF KeyEntry, TypeOK
<1> QED
  BY <1>1 DEF Entry

\* What a request does to the entry of its key: it continues the active session or opens
\* the next one, and it remembers its first message.
LEMMA EntryStep ==
    ASSUME TypeOK, NEW c \in Conversation, NEW k \in Keys, NEW s, Attributed(c, k, s)
    PROVE  LET e == KeyEntry(k)
               t == profile[c].text
           IN  /\ s = KeyEntry(k)'.active
               /\ KeyEntry(k)'.text = IF t = None THEN e.text ELSE t
               /\ \/ /\ KeyEntry(k)'.counter = e.counter /\ s = e.active /\ e.active # None
                     /\ e.text = None \/ t = None \/ e.text = t
                  \/ /\ KeyEntry(k)'.counter = e.counter + 1
                     /\ s = <<k, KeyEntry(k)'.counter>>
               /\ e.active # None /\ requests[c] > 0 /\ t \in {None, e.text} => s = e.active
<1> DEFINE e == KeyEntry(k)
           t == profile[c].text
           n == LengthOf(c)
<1>1. KeyEntry(k)' = Tracked(e, k, t, n) /\ s = KeyEntry(k)'.active
  BY DEF Attributed, Keys
<1>2. requests[c] > 0 => n = 2
  BY DEF LengthOf, TypeOK
<1> HIDE DEF e, t, n
<1>3. /\ KeyEntry(k)'.text = IF t = None THEN e.text ELSE t
      /\ \/ /\ KeyEntry(k)'.counter = e.counter /\ s = e.active /\ e.active # None
            /\ e.text = None \/ t = None \/ e.text = t
         \/ /\ KeyEntry(k)'.counter = e.counter + 1
            /\ s = <<k, KeyEntry(k)'.counter>>
  BY <1>1 DEF Tracked, Reset
<1>4. e.active # None /\ n = 2 /\ t \in {None, e.text} => s = e.active
  BY <1>1 DEF Tracked, Reset
<1> QED
  BY <1>1, <1>2, <1>3, <1>4 DEF e, t

\* The keys of the log after a request.
LEMMA KeysStep ==
    ASSUME TypeOK, NEW c \in Conversation, NEW k, NEW s, Attributed(c, k, s)
    PROVE  /\ Keys' = Keys
           /\ \A q : Telling(q)' <=> Telling(q)
           /\ Len(log) \in Nat /\ Len(log') = Len(log) + 1
           /\ \A i \in 1..Len(log') :
                \/ i \in 1..Len(log) /\ log'[i] = log[i] /\ KeyAt(i)' = KeyAt(i)
                \/ i = Len(log) + 1 /\ log'[i] = [conversation |-> c, session |-> s] /\ KeyAt(i)' = k
<1>1. Keys' = Keys
  BY DEF Attributed, Keys, Undisturbed
<1>2. \A q : Telling(q)' <=> Telling(q)
  BY DEF Attributed, Telling, Key
<1>3. \A i \in 1..(Len(log) + 1) : i \in 1..Len(log) \/ i = Len(log) + 1
  BY LogFacts
<1> QED
  BY <1>1, <1>2, <1>3, LogFacts

LEMMA SameKeyStep ==
    ASSUME TypeOK, NEW c \in Conversation, NEW k \in ExplicitId \cup Process \cup {None},
           NEW s, Attributed(c, k, s),
           NEW i \in 1..Len(log'), NEW j \in 1..Len(log'), SameKey(i, j)'
    PROVE  \E q \in Keys :
                KeyAt(i)' = q /\ KeyAt(j)' = q /\ (Telling(KeyAt(i))' => Telling(q))
<1>1. KeyAt(i)' \in ExplicitId \cup Process \cup {None}
  BY KeysStep, KeyFacts
<1>2. profile' = profile
  BY DEF Attributed
<1> QED
  BY <1>1, <1>2 DEF SameKey, Keys, Undisturbed, Telling, Key

LEMMA NumberedStep ==
    ASSUME RInv, TypeOK', NEW c \in Conversation, NEW k \in ExplicitId \cup Process \cup {None},
           NEW s, Attributed(c, k, s)
    PROVE  Numbered' /\ Ordered'
<1>1. TypeOK /\ Numbered /\ Ordered
  BY DEF RInv
<1>2. ASSUME NEW q \in Keys
      PROVE  /\ KeyEntry(q)'.active \in {None, <<q, KeyEntry(q)'.counter>>}
             /\ KeyEntry(q).counter <= KeyEntry(q)'.counter
             /\ KeyEntry(q).counter \in Nat /\ KeyEntry(q)'.counter \in Nat
             /\ q = k => s = <<q, KeyEntry(q)'.counter>>
  <2>1. KeyEntry(q).active \in {None, <<q, KeyEntry(q).counter>>}
    BY <1>1 DEF Numbered
  <2>2. KeyEntry(q).counter \in Nat /\ q \in ExplicitId \cup Process /\ Undisturbed(q)
    BY <1>1, EntryType DEF Keys
  <2>3. CASE q = k
    BY <1>1, <2>1, <2>2, <2>3, EntryStep
  <2>4. CASE q # k
    BY <2>1, <2>2, <2>4 DEF Attributed
  <2> QED
    BY <2>3, <2>4
<1>3. ASSUME NEW q \in Keys, NEW i \in 1..Len(log'), KeyAt(i)' = q
      PROVE  /\ log'[i].session[1] = q /\ NumberAt(i)' <= KeyEntry(q)'.counter
             /\ i = Len(log) + 1 => NumberAt(i)' = KeyEntry(q)'.counter
             /\ i <= Len(log) => NumberAt(i)' = NumberAt(i) /\ NumberAt(i) <= KeyEntry(q).counter
             /\ NumberAt(i)' \in Nat
  <2>1. CASE i \in 1..Len(log) /\ log'[i] = log[i] /\ KeyAt(i)' = KeyAt(i)
    <3>1. /\ log[i].session[1] = q /\ NumberAt(i) <= KeyEntry(q).counter
          /\ NumberAt(i) \in Nat /\ NumberAt(i)' = NumberAt(i)
      BY <1>1, <1>3, <2>1, KeyFacts DEF Numbered, NumberAt
    <3>2. i # Len(log) + 1
      BY <1>1, <2>1, LogFacts
    <3> QED
      BY <1>2, <2>1, <3>1, <3>2
  <2>2. CASE i = Len(log) + 1 /\ log'[i] = [conversation |-> c, session |-> s] /\ KeyAt(i)' = k
    <3>1. log'[i].session = <<q, KeyEntry(q)'.counter>>
      BY <1>2, <1>3, <2>2
    <3>2. ~(i <= Len(log))
      BY <1>1, <2>2, LogFacts
    <3> QED
      BY <1>2, <3>1, <3>2 DEF NumberAt
  <2> QED
    BY <1>1, <2>1, <2>2, KeysStep
<1>0. PICK n \in Nat : Len(log) = n /\ Len(log') = n + 1
  BY <1>1, LogFacts
<1>4. Numbered'
  BY <1>1, <1>2, <1>3, KeysStep DEF Numbered
<1>5. Ordered'
  <2> SUFFICES ASSUME NEW i \in 1..Len(log'), NEW j \in 1..Len(log'), i < j, SameKey(i, j)'
               PROVE  NumberAt(i)' <= NumberAt(j)'
    BY DEF Ordered
  <2>1. PICK q \in Keys : KeyAt(i)' = q /\ KeyAt(j)' = q
    BY <1>1, SameKeyStep
  <2>2. i \in 1..Len(log) /\ (j \in 1..Len(log) \/ j = Len(log) + 1)
    BY <1>0
  <2>3. CASE j \in 1..Len(log)
    <3>1. KeyAt(i) = q /\ KeyAt(j) = q
      BY <1>1, <2>1, <2>2, <2>3, LogFacts
    <3>2. NumberAt(i) <= NumberAt(j)
      BY <1>1, <2>2, <2>3, <3>1 DEF Ordered, SameKey, Keys
    <3> QED
      BY <1>3, <2>1, <2>2, <2>3, <3>2
  <2>4. CASE j = Len(log) + 1
    <3>1. NumberAt(i)' <= KeyEntry(q)'.counter /\ NumberAt(j)' = KeyEntry(q)'.counter
      BY <1>3, <2>1, <2>4
    <3> QED
      BY <3>1
  <2> QED
    BY <2>2, <2>3, <2>4
<1> QED
  BY <1>4, <1>5
LEMMA RememberedStep ==
    ASSUME RInv, NEW c \in Conversation, NEW k \in ExplicitId \cup Process \cup {None},
           NEW s, Attributed(c, k, s)
    PROVE  Remembered' /\ ContinuesInItsSession'
<1>1. TypeOK /\ Remembered /\ ContinuesInItsSession
  BY DEF RInv
<1>0. PICK n \in Nat : Len(log) = n /\ Len(log') = n + 1
  BY <1>1, LogFacts
<1>2. requests'[c] > 0 /\ \A d \in Conversation : requests[d] > 0 => requests'[d] > 0
  BY <1>1 DEF Attributed, TypeOK
<1>3. profile' = profile /\ k = Key(c)
  BY DEF Attributed
<1>4. ASSUME NEW q \in Keys, NEW i \in 1..Len(log), KeyAt(i) = q, q = k, Uninterrupted(i),
             log[i].conversation = c
      PROVE  log[i].session = s
  <2>1. /\ log[i].session = KeyEntry(k).active /\ requests[c] > 0
        /\ profile[c].text \in {None, KeyEntry(k).text}
    BY <1>1, <1>4 DEF Remembered
  <2>2. KeyEntry(k).active # None
    BY <1>1, <2>1, KeyFacts
  <2> QED
    BY <1>1, <1>4, <2>1, <2>2, EntryStep
<1>5. ASSUME NEW i \in 1..Len(log),
             \A h \in i..Len(log) : KeyAt(h)' = KeyAt(i)' => log'[h].conversation = log'[i].conversation
      PROVE  Uninterrupted(i)
  <2>1. \A h \in i..Len(log) : h \in 1..Len(log)
    BY <1>0
  <2> QED
    BY <1>1, <1>5, <2>1, LogFacts DEF Uninterrupted
<1>6. Remembered'
  <2> SUFFICES ASSUME NEW q \in Keys, NEW i \in 1..Len(log'), KeyAt(i)' = q, Uninterrupted(i)'
               PROVE  /\ log'[i].session = KeyEntry(q)'.active
                      /\ requests'[log'[i].conversation] > 0
                      /\ profile'[log'[i].conversation].text \in {None, KeyEntry(q)'.text}
    BY <1>1, KeysStep DEF Remembered
  <2>1. CASE i = Len(log) + 1
    <3>1. log'[i] = [conversation |-> c, session |-> s] /\ q = k
      BY <1>1, <2>1, LogFacts
    <3>2. s = KeyEntry(k)'.active /\ profile[c].text \in {None, KeyEntry(k)'.text}
      BY <1>1, <3>1, EntryStep
    <3> QED
      BY <1>2, <1>3, <3>1, <3>2
  <2>2. CASE i \in 1..Len(log)
    <3>1. /\ log'[i] = log[i] /\ KeyAt(i) = q /\ log[i].conversation \in Conversation
      BY <1>1, <2>2, LogFacts
    <3>2. \A h \in i..Len(log') : KeyAt(h)' = q => log'[h].conversation = log[i].conversation
      BY <3>1 DEF Uninterrupted
    <3>3. Uninterrupted(i)
      <4>1. \A h \in i..Len(log) : h \in i..Len(log')
        BY <1>0
      <4> QED
        BY <1>5, <2>2, <3>1, <3>2, <4>1
    <3>4. /\ log[i].session = KeyEntry(q).active /\ requests[log[i].conversation] > 0
          /\ profile[log[i].conversation].text \in {None, KeyEntry(q).text}
      BY <1>1, <2>2, <3>1, <3>3 DEF Remembered
    <3>5. CASE q = k
      <4>1. log[i].conversation = c
        <5>1. n + 1 \in i..Len(log')
          BY <1>0, <2>2
        <5>2. n + 1 \in 1..Len(log') /\ n + 1 \notin 1..Len(log)
          BY <1>0
        <5>3. KeyAt(n + 1)' = k /\ log'[n + 1] = [conversation |-> c, session |-> s]
          BY <1>1, <5>2, KeysStep
        <5> QED
          BY <3>2, <3>5, <5>1, <5>3
      <4>2. log[i].session = s
        BY <1>4, <2>2, <3>1, <3>3, <3>5, <4>1
      <4>3. /\ s = KeyEntry(q)'.active
            /\ KeyEntry(q)'.text = IF profile[c].text = None THEN KeyEntry(q).text ELSE profile[c].text
        BY <1>1, <3>5, EntryStep
      <4> QED
        BY <1>2, <1>3, <3>1, <3>4, <4>1, <4>2, <4>3
    <3>6. CASE q # k
      <4>1. KeyEntry(q)' = KeyEntry(q)
        BY <3>6 DEF Attributed, Keys
      <4> QED
        BY <1>2, <1>3, <3>1, <3>4, <4>1
    <3> QED
      BY <3>5, <3>6
  <2> QED
    BY <1>1, <2>1, <2>2, KeysStep
<1>7. ContinuesInItsSession'
  <2> SUFFICES ASSUME NEW i \in 1..Len(log'), NEW j \in 1..Len(log'), i < j, SameKey(i, j)',
                      log'[i].conversation = log'[j].conversation,
                      \A h \in i..j : KeyAt(h)' = KeyAt(i)' =>
                            log'[h].conversation = log'[i].conversation
               PROVE  log'[i].session = log'[j].session
    BY DEF ContinuesInItsSession
  <2>1. PICK q \in Keys : KeyAt(i)' = q /\ KeyAt(j)' = q
    BY <1>1, SameKeyStep
  <2>0. i \in 1..Len(log) /\ (j \in 1..Len(log) \/ j = Len(log) + 1)
    BY <1>0
  <2>2. log'[i] = log[i] /\ KeyAt(i) = q
    BY <1>1, <2>0, <2>1, LogFacts
  <2>3. CASE j \in 1..Len(log)
    <3>1. log'[j] = log[j] /\ SameKey(i, j)
      BY <1>1, <2>0, <2>1, <2>2, <2>3, LogFacts DEF SameKey, Keys
    <3>0. \A h \in i..j : h \in 1..Len(log)
      BY <1>0, <2>0, <2>3
    <3>2. \A h \in i..j : log'[h] = log[h] /\ KeyAt(h)' = KeyAt(h)
      BY <1>1, <3>0, LogFacts
    <3>3. \A h \in i..j : KeyAt(h) = KeyAt(i) => log[h].conversation = log[i].conversation
      BY <2>1, <2>2, <3>2
    <3> QED
      BY <1>1, <2>0, <2>2, <2>3, <3>1, <3>3 DEF ContinuesInItsSession
  <2>4. CASE j = Len(log) + 1
    <3>1. log'[j] = [conversation |-> c, session |-> s] /\ q = k
      BY <1>1, <2>1, <2>4, LogFacts
    <3>2. Uninterrupted(i)
      <4>1. \A h \in i..Len(log) : h \in i..j
        BY <1>0, <2>4
      <4> QED
        BY <1>5, <2>0, <4>1
    <3> QED
      BY <1>4, <2>0, <2>2, <3>1, <3>2
  <2> QED
    BY <2>0, <2>3, <2>4
<1> QED
  BY <1>6, <1>7
LEMMA ToldStep ==
    ASSUME RInv, NEW c \in Conversation, NEW k \in ExplicitId \cup Process \cup {None},
           NEW s, Attributed(c, k, s)
    PROVE  Told' /\ OneConversationPerSession'
<1>1. TypeOK /\ Numbered /\ Told /\ OneConversationPerSession
  BY DEF RInv
<1>2. profile' = profile /\ k = Key(c) /\ (k \in Keys => s = KeyEntry(k)'.active)
  BY DEF Attributed, Keys
<1>3. ASSUME k \in Keys, Telling(k)
      PROVE  /\ profile[c].text # None /\ KeyEntry(k)'.text = profile[c].text
             /\ \A i \in 1..Len(log) : KeyAt(i) = k /\ log[i].session = s =>
                    profile[log[i].conversation].text = profile[c].text
  <2>1. profile[c].text # None
    BY <1>2, <1>3 DEF Telling
  <2>2. KeyEntry(k)'.text = profile[c].text
    BY <1>1, <1>3, <2>1, EntryStep
  <2>3. ASSUME NEW i \in 1..Len(log), KeyAt(i) = k, log[i].session = s
        PROVE  profile[log[i].conversation].text = profile[c].text
    <3>1. CASE s = KeyEntry(k).active /\ s # None
               /\ (KeyEntry(k).text = None \/ KeyEntry(k).text = profile[c].text)
      BY <1>1, <1>3, <2>3, <3>1 DEF Told
    <3>2. CASE /\ KeyEntry(k)'.counter = KeyEntry(k).counter + 1
               /\ s = <<k, KeyEntry(k)'.counter>>
      <4>1. NumberAt(i) <= KeyEntry(k).counter /\ KeyEntry(k).counter \in Nat
        BY <1>1, <1>3, <2>3, EntryType DEF Numbered, Keys
      <4>2. NumberAt(i) = KeyEntry(k).counter + 1
        BY <2>3, <3>2 DEF NumberAt
      <4> QED
        BY <4>1, <4>2
    <3> QED
      BY <1>1, <1>3, <2>1, <3>1, <3>2, EntryStep
  <2> QED
    BY <2>1, <2>2, <2>3
<1>4. Told'
  <2> SUFFICES ASSUME NEW q \in Keys, Telling(q)
               PROVE  /\ KeyEntry(q)'.active # None => KeyEntry(q)'.text # None
                      /\ \A i \in 1..Len(log') :
                            KeyAt(i)' = q /\ log'[i].session = KeyEntry(q)'.active =>
                                profile'[log'[i].conversation].text = KeyEntry(q)'.text
    BY <1>1, KeysStep DEF Told
  <2>1. CASE q = k
    <3>1. KeyEntry(q)'.active = s /\ KeyEntry(q)'.text = profile[c].text /\ profile[c].text # None
      BY <1>2, <1>3, <2>1
    <3>2. ASSUME NEW i \in 1..Len(log'), KeyAt(i)' = q, log'[i].session = s
          PROVE  profile'[log'[i].conversation].text = profile[c].text
      <4>1. CASE i \in 1..Len(log) /\ log'[i] = log[i] /\ KeyAt(i)' = KeyAt(i)
        BY <1>2, <1>3, <2>1, <3>2, <4>1
      <4>2. CASE log'[i] = [conversation |-> c, session |-> s]
        BY <1>2, <4>2
      <4> QED
        BY <1>1, <4>1, <4>2, KeysStep
    <3> QED
      BY <3>1, <3>2
  <2>2. CASE q # k
    <3>1. KeyEntry(q)' = KeyEntry(q)
      BY <2>2 DEF Attributed, Keys
    <3>2. ASSUME NEW i \in 1..Len(log'), KeyAt(i)' = q
          PROVE  i \in 1..Len(log) /\ log'[i] = log[i] /\ KeyAt(i) = q
      BY <1>1, <2>2, <3>2, KeysStep
    <3> QED
      BY <1>1, <1>2, <3>1, <3>2 DEF Told
  <2> QED
    BY <2>1, <2>2
<1>5. ASSUME NEW i \in 1..Len(log), KeyAt(i) = k, k \in Keys, Telling(k), log[i].session = s
      PROVE  log[i].conversation = c
  <2>1. Key(log[i].conversation) = k /\ log[i].conversation \in Conversation
    BY <1>1, <1>5, KeyFacts DEF KeyAt
  <2>2. profile[log[i].conversation].text = profile[c].text
    BY <1>3, <1>5
  <2> QED
    BY <1>2, <1>5, <2>1, <2>2 DEF Telling
<1>6. OneConversationPerSession'
  <2> SUFFICES ASSUME NEW i \in 1..Len(log'), NEW j \in 1..Len(log'), SameKey(i, j)',
                      Telling(KeyAt(i))', log'[i].session = log'[j].session
               PROVE  log'[i].conversation = log'[j].conversation
    BY DEF OneConversationPerSession
  <2>1. PICK q \in Keys : KeyAt(i)' = q /\ KeyAt(j)' = q /\ Telling(q)
    BY <1>1, SameKeyStep
  <2> DEFINE Old(x) == x \in 1..Len(log) /\ log'[x] = log[x] /\ KeyAt(x) = q
             New(x) == log'[x] = [conversation |-> c, session |-> s] /\ q = k
  <2>2. (Old(i) \/ New(i)) /\ (Old(j) \/ New(j))
    BY <1>1, <2>1, KeysStep
  <2>3. CASE Old(i) /\ Old(j)
    <3>1. SameKey(i, j) /\ Telling(KeyAt(i))
      BY <2>1, <2>3 DEF SameKey, Keys
    <3> QED
      BY <1>1, <2>3, <3>1 DEF OneConversationPerSession
  <2>4. CASE Old(i) /\ New(j)
    BY <1>5, <2>1, <2>4
  <2>5. CASE New(i) /\ Old(j)
    BY <1>5, <2>1, <2>5
  <2>6. CASE New(i) /\ New(j)
    BY <2>6
  <2> QED
    BY <2>2, <2>3, <2>4, <2>5, <2>6
<1> QED
  BY <1>4, <1>6

LEMMA RoutedNext == RInv /\ [Next]_vars => RInv'
<1> SUFFICES ASSUME RInv, [Next]_vars PROVE RInv'
  OBVIOUS
<1>1. TypeOK /\ TypeOK'
  BY TypeNext DEF RInv
<1>2. ASSUME NEW c \in Conversation,
             RequestWithId(c) \/ RequestOfProcess(c) \/ RequestUnattributed(c)
      PROVE  RInv'
  <2>1. PICK k \in ExplicitId \cup Process \cup {None}, s \in Name : Attributed(c, k, s)
    BY <1>1, <1>2, RequestsAreAttributed
  <2> QED
    BY <1>1, <2>1, NumberedStep, RememberedStep, ToldStep DEF RInv
<1>3. ASSUME UNCHANGED <<profile, log, trackVars>>,
             \A c \in Conversation : requests[c] > 0 => requests'[c] > 0
      PROVE  RInv'
  <2>1. /\ \A k : KeyEntry(k)' = KeyEntry(k)
        /\ \A i : KeyAt(i)' = KeyAt(i) /\ NumberAt(i)' = NumberAt(i)
        /\ Keys' = Keys /\ Len(log') = Len(log)
    BY <1>3 DEF KeyEntry, KeyAt, NumberAt, Key, Keys, Undisturbed, trackVars
  <2>2. /\ \A k : Telling(k)' <=> Telling(k)
        /\ \A i : Uninterrupted(i)' <=> Uninterrupted(i)
        /\ \A i, j : SameKey(i, j)' <=> SameKey(i, j)
    BY <1>3, <2>1 DEF Telling, Key, Uninterrupted, SameKey, KeyAt, Undisturbed
  <2>3. Numbered' /\ Ordered'
    BY <1>3, <2>1, <2>2 DEF RInv, Numbered, Ordered
  <2>4. Remembered'
    BY <1>1, <1>3, <2>1, <2>2, KeyFacts DEF RInv, Remembered
  <2>5. Told'
    BY <1>3, <2>1, <2>2 DEF RInv, Told
  <2>6. ContinuesInItsSession'
    BY <1>3 DEF RInv, ContinuesInItsSession, SameKey, KeyAt, Key, Undisturbed
  <2>7. OneConversationPerSession'
    BY <1>3 DEF RInv, OneConversationPerSession, SameKey, KeyAt, Key, Undisturbed, Telling
  <2> QED
    BY <1>1, <2>3, <2>4, <2>5, <2>6, <2>7 DEF RInv
<1>4. ASSUME NEW c \in Conversation, NEW a \in Peer, RequestHeaders(c, a)
      PROVE  RInv'
  BY <1>3, <1>4 DEF RequestHeaders
<1>5. ASSUME NEW c \in Conversation, RequestUntracked(c)
      PROVE  RInv'
  BY <1>1, <1>3, <1>5 DEF RequestUntracked, TypeOK
<1>6. ASSUME NEW a \in Peer, ClientDisconnected(a)
      PROVE  RInv'
  BY <1>3, <1>6 DEF ClientDisconnected
<1>7. CASE UNCHANGED vars
  BY <1>3, <1>7 DEF vars
<1> QED
  BY <1>2, <1>4, <1>5, <1>6, <1>7 DEF Next

\* What an entry of the tracking maps remembers of the log, in every behaviour.
THEOREM Invariance == Spec => []RInv
<1>1. Init => RInv
  <2> SUFFICES ASSUME Init PROVE RInv
    OBVIOUS
  <2>1. TypeOK /\ log = <<>> /\ Len(log) = 0
    BY TypeInit DEF Init
  <2>2. \A k \in ExplicitId \cup Process : KeyEntry(k).active = None
    BY DEF Init, KeyEntry, Untracked
  <2>3. Numbered /\ Told
    BY <2>1, <2>2 DEF Numbered, Told, Keys
  <2>4. Ordered /\ Remembered /\ ContinuesInItsSession /\ OneConversationPerSession
    BY <2>1 DEF Ordered, Remembered, ContinuesInItsSession, OneConversationPerSession
  <2> QED
    BY <2>1, <2>3, <2>4 DEF RInv
<1> QED
  BY <1>1, RoutedNext, PTL DEF Spec

\* A conversation nobody of its key interrupts stays in its session, whatever other keys'
\* conversations, lost turns and disconnections happen in between.
THEOREM ConversationsContinue == Spec => []ContinuesInItsSession
<1>1. RInv => ContinuesInItsSession
  BY DEF RInv
<1> QED
  BY <1>1, Invariance, PTL

\* Conversations whose first messages differ never share a session under a reused id.
THEOREM ConversationsAreToldApart == Spec => []OneConversationPerSession
<1>1. RInv => OneConversationPerSession
  BY DEF RInv
<1> QED
  BY <1>1, Invariance, PTL

\* A session that was given up for a newer one of its key never gets another request.
THEOREM SessionsNeverReturn == Spec => []NeverReturns
<1>1. RInv => NeverReturns
  <2> SUFFICES ASSUME RInv, NEW i \in 1..Len(log), NEW h \in 1..Len(log), NEW j \in 1..Len(log),
                      i < h, h < j, SameKey(i, j), SameKey(i, h),
                      log[i].session = log[j].session
               PROVE  log[h].session = log[i].session
    BY DEF NeverReturns
  <2>1. TypeOK /\ Numbered /\ Ordered
    BY DEF RInv
  <2>2. SameKey(h, j)
    BY DEF SameKey
  <2>3. NumberAt(i) <= NumberAt(h) /\ NumberAt(h) <= NumberAt(j) /\ NumberAt(i) = NumberAt(j)
    BY <2>1, <2>2 DEF Ordered, NumberAt
  <2>4. NumberAt(h) = NumberAt(i)
    BY <2>1, <2>3, KeyFacts
  <2>5. KeyAt(i) \in Keys /\ KeyAt(h) = KeyAt(i)
    BY <2>1, KeyFacts DEF SameKey, Keys, Undisturbed
  <2>6. log[h].session[1] = log[i].session[1]
    BY <2>1, <2>5 DEF Numbered
  <2> QED
    BY <2>1, <2>4, <2>6, KeyFacts
<1> QED
  BY <1>1, Invariance, PTL
=============================================================================
