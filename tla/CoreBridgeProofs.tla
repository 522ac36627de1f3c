-------------------------- MODULE CoreBridgeProofs --------------------------
(***************************************************************************)
(* Theorems about CoreBridge and the SessionStore it works on, for every   *)
(* set of sessions, requests and models and every capacity of the store.   *)
(*                                                                         *)
(* The argument has three parts:                                           *)
(*   - the store: what each method leaves of a store, as lemmas about the  *)
(*     operators of SessionStore;                                          *)
(*   - the steps: every handler is one of three kinds.  It is Quiet (at    *)
(*     most it evicts sessions), it Grows a history by one turn, or a step *)
(*     Joins the last turn of a history;                                   *)
(*   - the invariant: each kind of step keeps the types, the histories and *)
(*     what the interfaces were told.                                      *)
(***************************************************************************)
EXTENDS CoreBridge, SequenceTheorems, FiniteSetTheorems, TLAPS

-----------------------------------------------------------------------------
(* The methods of the store. *)

\* No session is twice in the sequence q.
Injective(q) == \A i, j \in 1..Len(q) : q[i] = q[j] => i = j

\* Taking e out of a list that has nothing twice (OrderedDict.pop): it is gone, the
\* others keep their order, and still nothing is there twice.
LEMMA FirstRemoved ==
    ASSUME NEW S, NEW q \in Seq(S), Injective(q), NEW e \in S
    PROVE  /\ RemoveFirst(q, e) \in Seq(S)
           /\ Injective(RemoveFirst(q, e))
           /\ ToSet(RemoveFirst(q, e)) = ToSet(q) \ {e}
           /\ Len(RemoveFirst(q, e)) = IF e \in ToSet(q) THEN Len(q) - 1 ELSE Len(q)
<1>1. CASE ~ \E i \in 1..Len(q) : q[i] = e
  BY <1>1 DEF RemoveFirst, ToSet
<1>2. CASE \E i \in 1..Len(q) : q[i] = e
  <2>1. PICK k \in 1..Len(q) : q[k] = e
    BY <1>2
  <2> DEFINE a == SubSeq(q, 1, k-1)
             b == SubSeq(q, k+1, Len(q))
             r == RemoveFirst(q, e)
  <2>2. r = a \o b
    <3>1. {i \in 1..Len(q) : q[i] = e} = {k}
      BY <2>1 DEF Injective
    <3>2. Min({k}) = k
      BY <2>1, LenProperties DEF Min
    <3>3. r = RemoveAt(q, k)
      BY <1>2, <3>1, <3>2 DEF RemoveFirst, SelectInSeq
    <3> QED BY <3>3 DEF RemoveAt
  <2>3. /\ a \in Seq(S) /\ Len(a) = k - 1
        /\ \A i \in 1..(k-1) : a[i] = q[i]
        /\ b \in Seq(S) /\ Len(b) = Len(q) - k
        /\ \A i \in 1..(Len(q) - k) : b[i] = q[i + k]
    BY LenProperties, SubSeqProperties
  <2> HIDE DEF a, b, r
  <2>4. /\ r \in Seq(S) /\ Len(r) = Len(q) - 1
        /\ \A i \in 1..(Len(q) - 1) : r[i] = IF i < k THEN q[i] ELSE q[i + 1]
    <3>1. Len(q) \in Nat /\ k \in Nat /\ 1 <= k /\ k <= Len(q)
      BY LenProperties
    <3>2. r \in Seq(S) /\ Len(r) = Len(a) + Len(b)
      BY <2>2, <2>3, ConcatProperties
    <3>3. \A i \in 1..(Len(a) + Len(b)) : r[i] = IF i <= Len(a) THEN a[i] ELSE b[i - Len(a)]
      BY <2>2, <2>3, ConcatProperties
    <3>4. ASSUME NEW i \in 1..(Len(q) - 1)
          PROVE  r[i] = IF i < k THEN q[i] ELSE q[i + 1]
      <4>1. CASE i < k
        BY <4>1, <3>1, <3>3, <2>3
      <4>2. CASE ~ (i < k)
        <5>1. r[i] = b[i - (k - 1)] /\ i - (k - 1) \in 1..(Len(q) - k)
          BY <4>2, <3>1, <3>3, <2>3
        <5>2. (i - (k - 1)) + k = i + 1
          BY <3>1
        <5> QED BY <4>2, <5>1, <5>2, <2>3
      <4> QED BY <4>1, <4>2
    <3> QED BY <3>1, <3>2, <3>4, <2>3
  <2>5. Injective(r)
    BY <2>4, LenProperties DEF Injective
  <2>6. ToSet(q) = {q[i] : i \in 1..Len(q)} /\ ToSet(r) = {r[i] : i \in 1..Len(r)}
    BY DEF ToSet
  <2>7. ASSUME NEW x \in ToSet(q) \ {e} PROVE x \in ToSet(r)
    <3>1. PICK i \in 1..Len(q) : q[i] = x
      BY <2>6, <2>7
    <3>2. i # k
      BY <3>1, <2>1
    <3>3. CASE i < k
      BY <3>1, <3>3, <2>4, <2>6, LenProperties
    <3>4. CASE i > k
      <4>1. i - 1 \in 1..Len(r) /\ r[i-1] = q[i]
        BY <3>4, <2>4, LenProperties
      <4> QED BY <3>1, <4>1, <2>6
    <3> QED BY <3>2, <3>3, <3>4, LenProperties
  <2>8. ASSUME NEW x \in ToSet(r) PROVE x \in ToSet(q) \ {e}
    <3>1. PICK i \in 1..Len(r) : r[i] = x
      BY <2>6, <2>8
    <3>2. PICK j \in 1..Len(q) : j # k /\ q[j] = x
      BY <3>1, <2>4, LenProperties
    <3> QED BY <3>2, <2>1, <2>6 DEF Injective
  <2>9. e \in ToSet(q)
    BY <2>1, <2>6
  <2> QED
    BY <2>4, <2>5, <2>7, <2>8, <2>9 DEF r
<1> QED BY <1>1, <1>2

\* The store new is st with s the most recently active session, after the sessions in E
\* were evicted to make room.
Room(st, new, s, E) ==
    /\ new \in Stores
    /\ Len(new.order) <= MaxSessions
    /\ Injective(new.order)
    /\ E \subseteq Live(st) \ {s}
    /\ Live(new) = (Live(st) \ E) \cup {s}
    /\ new.turns = [x \in Session |-> IF x \in E THEN <<>> ELSE st.turns[x]]
    /\ new.byModel = [m \in Model |-> st.byModel[m] \ E]
    /\ new.flagged = st.flagged \ E
    /\ new.exported = st.exported
    /\ new.aliases = st.aliases

\* What every store of the bridge satisfies: the sessions are within the capacity.
Sound(st) ==
    /\ st \in Stores
    /\ Len(st.order) <= MaxSessions
    /\ Injective(st.order)

\* What _evict_session leaves of a store: the session is out of the registry and of both
\* indexes; the aliases and the export marks are as they were.
LEMMA Evicted ==
    ASSUME NEW st, Sound(st), NEW s \in Session
    PROVE  LET new == EvictSession(st, s) IN
           /\ new \in Stores
           /\ Injective(new.order)
           /\ Live(new) = Live(st) \ {s}
           /\ Len(new.order) = IF s \in Live(st) THEN Len(st.order) - 1 ELSE Len(st.order)
           /\ new.turns = [st.turns EXCEPT ![s] = <<>>]
           /\ new.byModel = [m \in Model |-> st.byModel[m] \ {s}]
           /\ new.flagged = st.flagged \ {s}
           /\ new.exported = st.exported
           /\ new.aliases = st.aliases
<1> DEFINE new == EvictSession(st, s)
<1>1. st \in Stores /\ st.order \in Seq(Session) /\ Injective(st.order)
  BY DEF Sound, Stores
<1>2. /\ new.order = RemoveFirst(st.order, s)
      /\ new.turns = [st.turns EXCEPT ![s] = <<>>]
      /\ new.flagged = st.flagged \ {s}
      /\ new.exported = st.exported
      /\ new.aliases = st.aliases
  BY <1>1 DEF EvictSession, Stores
<1>3. new.byModel = [m \in Model |-> st.byModel[m] \ {s}]
  BY <1>1 DEF EvictSession, Stores
<1>4. /\ RemoveFirst(st.order, s) \in Seq(Session)
      /\ Injective(new.order)
      /\ Live(new) = Live(st) \ {s}
      /\ Len(new.order) = IF s \in Live(st) THEN Len(st.order) - 1 ELSE Len(st.order)
  <2>1. /\ RemoveFirst(st.order, s) \in Seq(Session)
        /\ Injective(RemoveFirst(st.order, s))
        /\ ToSet(RemoveFirst(st.order, s)) = ToSet(st.order) \ {s}
        /\ Len(RemoveFirst(st.order, s)) =
                IF s \in ToSet(st.order) THEN Len(st.order) - 1 ELSE Len(st.order)
    BY <1>1, FirstRemoved
  <2> HIDE DEF new
  <2> QED BY <2>1, <1>2 DEF Live
<1>5. new \in Stores
  <2>1. <<>> \in Seq(Turns)
    OBVIOUS
  <2> QED BY <1>1, <1>4, <2>1 DEF EvictSession, Stores
<1> QED BY <1>2, <1>3, <1>4, <1>5

\* A new key at the end of the registry.
LEMMA Appended ==
    ASSUME NEW S, NEW q \in Seq(S), Injective(q), NEW e \in S, e \notin ToSet(q)
    PROVE  /\ Append(q, e) \in Seq(S)
           /\ Injective(Append(q, e))
           /\ ToSet(Append(q, e)) = ToSet(q) \cup {e}
           /\ Len(Append(q, e)) = Len(q) + 1
<1> DEFINE new == Append(q, e)
<1>1. /\ new \in Seq(S) /\ Len(new) = Len(q) + 1
      /\ \A i \in 1..Len(q) : new[i] = q[i]
      /\ new[Len(q) + 1] = e
  BY AppendProperties
<1> HIDE DEF new
<1>2. \A i \in 1..Len(q) : q[i] # e
  BY LenProperties DEF ToSet
<1>3. Injective(new)
  BY <1>1, <1>2, LenProperties DEF Injective
<1>4. ToSet(new) = ToSet(q) \cup {e}
  BY <1>1, LenProperties DEF ToSet
<1> QED BY <1>1, <1>3, <1>4 DEF new

\* move_to_end of a session, after which the registry holds it once, whether it held it
\* before or not.
LEMMA MovedToEnd ==
    ASSUME NEW q \in Seq(Session), Injective(q), NEW s \in Session
    PROVE  LET new == Append(RemoveFirst(q, s), s) IN
           /\ new \in Seq(Session)
           /\ Injective(new)
           /\ ToSet(new) = ToSet(q) \cup {s}
           /\ Len(new) = IF s \in ToSet(q) THEN Len(q) ELSE Len(q) + 1
<1> DEFINE a == RemoveFirst(q, s)
<1>1. /\ a \in Seq(Session) /\ Injective(a) /\ ToSet(a) = ToSet(q) \ {s}
      /\ Len(a) = IF s \in ToSet(q) THEN Len(q) - 1 ELSE Len(q)
  BY FirstRemoved
<1> HIDE DEF a
<1>2. /\ Append(a, s) \in Seq(Session) /\ Injective(Append(a, s))
      /\ ToSet(Append(a, s)) = ToSet(a) \cup {s} /\ Len(Append(a, s)) = Len(a) + 1
  BY <1>1, Appended
<1> QED
  BY <1>1, <1>2, LenProperties DEF a

\* Admitting a session (the loop that evicts while the store is full) and moving it to the
\* end evicts only sessions other than it, and all their turns and index entries with them.
LEMMA MadeRoom ==
    ASSUME NEW st, Sound(st), NEW s \in Session
    PROVE  \E E \in SUBSET Session : Room(st, MoveToEnd(Admit(st, s), s), s, E)
<1>1. st \in Stores /\ st.order \in Seq(Session) /\ Injective(st.order)
      /\ Len(st.order) <= MaxSessions
  BY DEF Sound, Stores
<1> DEFINE a == Admit(st, s)
           n == MoveToEnd(a, s)
<1>2. ASSUME NEW b, b \in Stores, Injective(b.order), NEW E \in SUBSET (Live(st) \ {s}),
             Live(b) \cup {s} = (Live(st) \ E) \cup {s},
             Len(b.order) <= IF s \in Live(b) THEN MaxSessions ELSE MaxSessions - 1,
             b.turns = [x \in Session |-> IF x \in E THEN <<>> ELSE st.turns[x]],
             b.byModel = [m \in Model |-> st.byModel[m] \ E],
             b.flagged = st.flagged \ E,
             b.exported = st.exported,
             b.aliases = st.aliases
      PROVE  Room(st, MoveToEnd(b, s), s, E)
  <2>1. LET q == Append(RemoveFirst(b.order, s), s) IN
        /\ q \in Seq(Session) /\ Injective(q) /\ ToSet(q) = ToSet(b.order) \cup {s}
        /\ Len(q) = IF s \in ToSet(b.order) THEN Len(b.order) ELSE Len(b.order) + 1
    BY <1>2, MovedToEnd DEF Stores
  <2> DEFINE q == Append(RemoveFirst(b.order, s), s)
  <2>2. MoveToEnd(b, s) = [b EXCEPT !.order = q]
    BY DEF MoveToEnd
  <2> HIDE DEF q
  <2>3. [b EXCEPT !.order = q] \in Stores
    BY <1>2, <2>1 DEF Stores, q
  <2>4. Len(q) <= MaxSessions
    BY <1>2, <2>1, LenProperties, CapacityAssumption DEF q, Live, Stores
  <2> QED BY <1>2, <2>1, <2>2, <2>3, <2>4 DEF Room, Live, q, Stores
<1>3. CASE s \in Live(st)
  <2>1. a = st
    BY <1>3 DEF Admit
  <2>2. st.turns = [x \in Session |-> IF x \in {} THEN <<>> ELSE st.turns[x]]
    BY <1>1 DEF Stores
  <2>3. st.byModel = [m \in Model |-> st.byModel[m] \ {}]
    BY <1>1 DEF Stores
  <2>4. Room(st, MoveToEnd(st, s), s, {})
    BY <1>1, <1>2, <1>3, <2>2, <2>3
  <2> QED BY <2>1, <2>4
<1>4. CASE s \notin Live(st) /\ Len(st.order) >= MaxSessions
  <2> DEFINE h == Head(st.order)
             room == EvictSession(st, h)
  <2>1. h \in Live(st) /\ h \in Session
    <3>1. st.order # <<>> /\ 1 \in 1..Len(st.order)
      BY <1>1, <1>4, LenProperties, EmptySeq, CapacityAssumption
    <3>2. h = st.order[1]
      BY <1>1, <3>1, HeadTailProperties
    <3> QED BY <1>1, <3>1, <3>2, ElementOfSeq DEF Live, ToSet
  <2>2. /\ room \in Stores
        /\ Injective(room.order)
        /\ Live(room) = Live(st) \ {h}
        /\ Len(room.order) = Len(st.order) - 1
        /\ room.turns = [st.turns EXCEPT ![h] = <<>>]
        /\ room.byModel = [m \in Model |-> st.byModel[m] \ {h}]
        /\ room.flagged = st.flagged \ {h}
        /\ room.exported = st.exported
        /\ room.aliases = st.aliases
    BY <2>1, Evicted
  <2>3. a = [room EXCEPT !.order = Append(room.order, s)]
    BY <1>4 DEF Admit
  <2> HIDE DEF room, h, a
  <2>4. /\ Append(room.order, s) \in Seq(Session)
        /\ Injective(Append(room.order, s))
        /\ ToSet(Append(room.order, s)) = Live(room) \cup {s}
        /\ Len(Append(room.order, s)) = Len(st.order)
    <3>1. room.order \in Seq(Session) /\ s \notin ToSet(room.order)
      BY <1>4, <2>2 DEF Stores, Live
    <3> QED BY <3>1, <2>2, <1>1, Appended, LenProperties DEF Live
  <2>5. /\ a \in Stores
        /\ a.order = Append(room.order, s)
        /\ a.turns = room.turns
        /\ a.byModel = room.byModel
        /\ a.flagged = room.flagged
        /\ a.exported = room.exported
        /\ a.aliases = room.aliases
    BY <2>2, <2>3, <2>4 DEF Stores
  <2>6. room.turns = [x \in Session |-> IF x \in {h} THEN <<>> ELSE st.turns[x]]
    BY <2>2, <1>1, <2>1 DEF Stores
  <2>7. Live(a) = (Live(st) \ {h}) \cup {s} /\ s \in Live(a) /\ Len(a.order) <= MaxSessions
    BY <2>2, <2>4, <2>5, <1>1 DEF Live
  <2>8. Injective(a.order)
    BY <2>4, <2>5
  <2>9. {h} \in SUBSET (Live(st) \ {s})
    BY <2>1, <1>4
  <2>10. Room(st, MoveToEnd(a, s), s, {h})
    BY <1>2, <2>2, <2>5, <2>6, <2>7, <2>8, <2>9
  <2> QED BY <2>1, <2>10 DEF a
<1>5. CASE s \notin Live(st) /\ ~ (Len(st.order) >= MaxSessions)
  <2>1. a = [st EXCEPT !.order = Append(st.order, s)]
    BY <1>5 DEF Admit
  <2> HIDE DEF a
  <2>2. /\ Append(st.order, s) \in Seq(Session)
        /\ Injective(Append(st.order, s))
        /\ ToSet(Append(st.order, s)) = Live(st) \cup {s}
        /\ Len(Append(st.order, s)) = Len(st.order) + 1
    BY <1>1, <1>5, Appended DEF Live
  <2>3. /\ a \in Stores
        /\ a.order = Append(st.order, s)
        /\ a.turns = st.turns
        /\ a.byModel = st.byModel
        /\ a.flagged = st.flagged
        /\ a.exported = st.exported
        /\ a.aliases = st.aliases
    BY <1>1, <2>1, <2>2 DEF Stores
  <2>4. st.turns = [x \in Session |-> IF x \in {} THEN <<>> ELSE st.turns[x]]
    BY <1>1 DEF Stores
  <2>5. st.byModel = [m \in Model |-> st.byModel[m] \ {}]
    BY <1>1 DEF Stores
  <2>6. Live(a) = Live(st) \cup {s} /\ Len(a.order) <= MaxSessions
    BY <2>2, <2>3, <1>1, <1>5, CapacityAssumption, LenProperties DEF Live
  <2>7. Injective(a.order)
    BY <2>2, <2>3
  <2>8. Room(st, MoveToEnd(a, s), s, {})
    BY <1>2, <2>3, <2>4, <2>5, <2>6, <2>7
  <2> QED BY <2>8 DEF a
<1> QED BY <1>3, <1>4, <1>5

\* register_session, seen from outside: room is made, and no turn of the session is lost.
LEMMA SessionRegistered ==
    ASSUME NEW st, Sound(st), NEW s \in Session, NEW status \in {"active", "disconnected"}
    PROVE  \E E \in SUBSET Session : Room(st, RegisterSession(st, s, status), s, E)
<1> DEFINE a == MoveToEnd(Admit(st, s), s)
           n == RegisterSession(st, s, status)
<1>1. PICK E \in SUBSET Session : Room(st, a, s, E)
  BY MadeRoom
<1>2. n = [a EXCEPT !.meta[s] = status]
  BY DEF RegisterSession
<1>3. a \in Stores
  BY <1>1 DEF Room
<1> HIDE DEF a, n
<1>4. /\ n \in Stores /\ n.order = a.order /\ n.turns = a.turns /\ n.byModel = a.byModel
      /\ n.flagged = a.flagged /\ n.exported = a.exported /\ n.aliases = a.aliases
  BY <1>2, <1>3 DEF Stores
<1>5. Room(st, n, s, E)
  BY <1>1, <1>4 DEF Room, Live
<1> QED BY <1>5 DEF n

\* The store new is st with turn appended to the session s.
Grown(st, new, s, turn, E) ==
    /\ new \in Stores
    /\ Len(new.order) <= MaxSessions
    /\ Injective(new.order)
    /\ E \subseteq Live(st) \ {s}
    /\ Live(new) = (Live(st) \ E) \cup {s}
    /\ new.turns = [x \in Session |-> IF x = s THEN Append(st.turns[s], turn)
                                     ELSE IF x \in E THEN <<>> ELSE st.turns[x]]
    /\ new.byModel = [m \in Model |-> (st.byModel[m] \ E)
                                     \cup IF m = turn.model THEN {s} ELSE {}]
    /\ new.flagged = st.flagged \ E
    /\ new.aliases = st.aliases

\* Replacing the last element after appending one is appending the replacement.
LEMMA AppendedReplaced ==
    ASSUME NEW S, NEW q \in Seq(S), NEW e \in S, NEW f \in S
    PROVE  [Append(q, e) EXCEPT ![Len(q) + 1] = f] = Append(q, f)
<1> DEFINE a == Append(q, e)
           b == Append(q, f)
           k == Len(q) + 1
           c == [a EXCEPT ![k] = f]
<1>1. /\ a \in Seq(S) /\ Len(a) = k /\ a[k] = e /\ \A i \in 1..Len(q) : a[i] = q[i]
      /\ b \in Seq(S) /\ Len(b) = k /\ b[k] = f /\ \A i \in 1..Len(q) : b[i] = q[i]
      /\ Len(q) \in Nat
  BY AppendProperties, LenProperties
<1> HIDE DEF a, b
<1>2. k \in 1..Len(a)
  BY <1>1
<1>3. c \in Seq(S) /\ Len(c) = k
  BY <1>1, <1>2, ExceptSeq
<1>4. \A i \in 1..k : c[i] = IF i = k THEN f ELSE a[i]
  BY <1>1, LenProperties
<1>5. \A i \in 1..k : c[i] = b[i]
  BY <1>1, <1>4
<1> HIDE DEF c, k
<1>6. c = b
  BY <1>1, <1>3, <1>5, SeqEqual
<1> QED BY <1>6 DEF c, b, a, k

\* append_turn followed by the analyzer's violations: the turn is the last of its session,
\* the model index has it, and the other sessions are as they were or evicted.
LEMMA TurnAppended ==
    ASSUME NEW st, Sound(st), NEW turn \in Turns, ~turn.violates, NEW v \in BOOLEAN
    PROVE  \E E \in SUBSET Session :
             LET s == turn.session
                 grown == AppendTurn(st, turn)
             IN  /\ Len(grown.turns[s]) = Len(st.turns[s]) + 1
                 /\ Grown(st, Analyzed(grown, s, Len(grown.turns[s]), v),
                          s, [turn EXCEPT !.violates = v], E)
<1> DEFINE s == turn.session
           a == MoveToEnd(Admit(st, s), s)
           b == [a EXCEPT !.turns[s] = Append(@, turn)]
           c == IndexTurn(b, turn)
           k == Len(c.turns[s])
           n == Analyzed(c, s, k, v)
           analyzed == [turn EXCEPT !.violates = v]
<1>1. s \in Session /\ turn.model \in Model
  BY DEF Turns
<1>2. PICK E \in SUBSET Session : Room(st, a, s, E)
  BY <1>1, MadeRoom
<1>3. c = AppendTurn(st, turn)
  BY DEF AppendTurn
<1> HIDE DEF a
<1>4. /\ a \in Stores
      /\ a.turns[s] = st.turns[s] /\ a.turns[s] \in Seq(Turns)
      /\ Append(a.turns[s], turn) \in Seq(Turns)
  BY <1>1, <1>2, AppendProperties DEF Room, Stores
<1>5. /\ b \in Stores
      /\ b.turns = [a.turns EXCEPT ![s] = Append(a.turns[s], turn)]
      /\ b.order = a.order /\ b.byModel = a.byModel /\ b.flagged = a.flagged
      /\ b.aliases = a.aliases
  BY <1>1, <1>4 DEF Stores
<1> HIDE DEF b
<1>6. /\ c \in Stores
      /\ c.turns = b.turns /\ c.order = b.order /\ c.flagged = b.flagged
      /\ c.aliases = b.aliases
      /\ c.byModel = [b.byModel EXCEPT ![turn.model] = @ \cup {s}]
  BY <1>1, <1>5 DEF IndexTurn, Stores
<1> HIDE DEF c
<1>7. /\ c.turns[s] = Append(st.turns[s], turn)
      /\ k = Len(st.turns[s]) + 1
      /\ k \in 1..Len(c.turns[s])
      /\ c.turns[s][k] = turn
      /\ c.turns[s] \in Seq(Turns)
  BY <1>1, <1>4, <1>5, <1>6, AppendProperties, LenProperties DEF Stores
<1>8. analyzed \in Turns /\ analyzed.model = turn.model
  BY DEF Turns
<1>9. n.turns = [c.turns EXCEPT ![s] = [@ EXCEPT ![k] = analyzed]]
  BY <1>1, <1>6, <1>7 DEF Analyzed, Stores
<1>10. [c.turns[s] EXCEPT ![k] = analyzed] = Append(st.turns[s], analyzed)
  <2>1. st.turns[s] \in Seq(Turns)
    BY <1>4
  <2> HIDE DEF s, analyzed, k
  <2>2. [Append(st.turns[s], turn) EXCEPT ![Len(st.turns[s]) + 1] = analyzed]
           = Append(st.turns[s], analyzed)
    <3>1. \A q \in Seq(Turns) : \A e, f \in Turns :
             [Append(q, e) EXCEPT ![Len(q) + 1] = f] = Append(q, f)
      BY AppendedReplaced
    <3>2. analyzed \in Turns
      BY <1>8
    <3> QED BY <3>1, <3>2, <2>1, Zenon
  <2>3. c.turns[s] = Append(st.turns[s], turn) /\ k = Len(st.turns[s]) + 1
    BY <1>7
  <2> QED BY <2>2, <2>3
<1>11. Append(st.turns[s], analyzed) \in Seq(Turns)
  BY <1>4, <1>8, AppendProperties
<1>12. /\ n \in Stores
       /\ n.order = c.order /\ n.byModel = c.byModel /\ n.flagged = c.flagged
       /\ n.aliases = c.aliases
  <2>1. n = [c EXCEPT !.turns[s][k].violates = v]
    BY DEF Analyzed
  <2>2. n.order = c.order /\ n.byModel = c.byModel /\ n.flagged = c.flagged
        /\ n.aliases = c.aliases /\ n.meta = c.meta /\ n.exported = c.exported
    BY <2>1, <1>6 DEF Stores
  <2>3. n.turns \in [Session -> Seq(Turns)]
    BY <1>6, <1>9, <1>10, <1>11, <1>1 DEF Stores
  <2>4. n = [c EXCEPT !.turns = n.turns]
    BY <2>1, <1>6 DEF Stores
  <2> HIDE DEF n
  <2>5. [c EXCEPT !.turns = n.turns] \in Stores
    BY <1>6, <2>3 DEF Stores
  <2> QED BY <2>2, <2>4, <2>5
<1> HIDE DEF n, k, analyzed, s
<1>13. Grown(st, n, s, analyzed, E)
  <2>1. n.turns = [x \in Session |-> IF x = s THEN Append(st.turns[s], analyzed)
                                     ELSE IF x \in E THEN <<>> ELSE st.turns[x]]
    <3>1. n.turns = [b.turns EXCEPT ![s] = Append(st.turns[s], analyzed)]
      BY <1>6, <1>9, <1>10
    <3>2. b.turns = [a.turns EXCEPT ![s] = Append(a.turns[s], turn)]
      BY <1>5
    <3>3. a.turns = [x \in Session |-> IF x \in E THEN <<>> ELSE st.turns[x]]
      BY <1>2 DEF Room
    <3> QED BY <3>1, <3>2, <3>3, <1>1
  <2>2. n.byModel = [m \in Model |-> (st.byModel[m] \ E)
                                     \cup IF m = analyzed.model THEN {s} ELSE {}]
    <3>1. n.byModel = [a.byModel EXCEPT ![turn.model] = @ \cup {s}]
      BY <1>5, <1>6, <1>12
    <3>2. a.byModel = [m \in Model |-> st.byModel[m] \ E]
      BY <1>2 DEF Room
    <3> QED BY <3>1, <3>2, <1>1, <1>8
  <2> QED BY <1>2, <1>5, <1>6, <1>12, <2>1, <2>2 DEF Room, Grown, Live
<1> QED BY <1>3, <1>7, <1>13 DEF s, k, n, analyzed

\* The store new is st with the last turn of session x replaced by turn, which place p of
\* the session holds as well.
Merged(st, new, x, turn, v, p) ==
    /\ new \in Stores
    /\ new.order = st.order
    /\ new.turns = [st.turns EXCEPT ![x] = [i \in 1..Len(st.turns[x]) |->
            IF i = Len(st.turns[x]) THEN [turn EXCEPT !.violates = v]
            ELSE IF i = p THEN turn ELSE st.turns[x][i]]]
    /\ new.byModel = [st.byModel EXCEPT ![turn.model] = @ \cup {x}]
    /\ new.flagged \in {st.flagged, st.flagged \cup {x}}
    /\ new.aliases = st.aliases

\* The two writes of a merged step, the bridge's to the last place and update_turn's to the
\* place of the turn's own index, which are the same place when the turns are numbered right.
LEMMA TurnMerged ==
    ASSUME NEW st \in Stores, NEW turn \in Turns, NEW v \in BOOLEAN, NEW x \in Live(st),
           x = turn.session, st.turns[x] # <<>>
    PROVE  LET k       == Len(st.turns[x])
               mutated == [st EXCEPT !.turns[x][k] = turn]
               updated == UpdateTurn(mutated, turn)
           IN  \E p \in 1..k :
                 /\ turn.index = k - 1 => p = k
                 /\ Merged(st, Analyzed(updated, x, k, v), x, turn, v, p)
<1> DEFINE q == st.turns[x]
           k == Len(q)
           mutated == [st EXCEPT !.turns[x][k] = turn]
           updated == UpdateTurn(mutated, turn)
           n == Analyzed(updated, x, k, v)
           analyzed == [turn EXCEPT !.violates = v]
           p == PlaceOf(mutated, turn)
<1>1. x \in Session /\ q \in Seq(Turns) /\ k \in Nat /\ k \in 1..k /\ turn.model \in Model
      /\ turn.index \in Nat
  <2>1. x \in Session /\ turn.model \in Model /\ turn.index \in Nat
    BY DEF Turns
  <2>2. q \in Seq(Turns) /\ q # <<>>
    BY <2>1 DEF Stores
  <2> HIDE DEF q
  <2>3. Len(q) \in Nat /\ Len(q) # 0
    BY <2>2, LenProperties, EmptySeq
  <2> QED BY <2>1, <2>2, <2>3
<1>2. [q EXCEPT ![k] = turn] \in Seq(Turns) /\ Len([q EXCEPT ![k] = turn]) = k
  BY <1>1, ExceptSeq
<1>3. /\ mutated \in Stores
      /\ mutated.turns = [st.turns EXCEPT ![x] = [q EXCEPT ![k] = turn]]
      /\ mutated.order = st.order /\ mutated.byModel = st.byModel
      /\ mutated.flagged = st.flagged /\ mutated.aliases = st.aliases
  <2>1. mutated = [st EXCEPT !.turns = [st.turns EXCEPT ![x] = [q EXCEPT ![k] = turn]]]
    BY <1>1 DEF Stores
  <2> HIDE DEF mutated
  <2>2. [st.turns EXCEPT ![x] = [q EXCEPT ![k] = turn]] \in [Session -> Seq(Turns)]
    BY <1>1, <1>2 DEF Stores
  <2> QED BY <2>1, <2>2 DEF Stores
<1> HIDE DEF mutated
<1>4. mutated.turns[x] = [q EXCEPT ![k] = turn] /\ Len(mutated.turns[x]) = k
  BY <1>1, <1>2, <1>3 DEF Stores
<1>5. p \in 1..k /\ (turn.index = k - 1 => p = k)
  BY <1>1, <1>4 DEF PlaceOf
<1>6. updated = IndexTurn([mutated EXCEPT !.turns[x][p] = turn], turn)
  <2>1. mutated.turns[turn.session] # <<>> /\ turn.session \in Live(mutated)
    BY <1>1, <1>3, <1>4, EmptySeq DEF Live
  <2> QED BY <2>1 DEF UpdateTurn
<1> DEFINE placed == [mutated EXCEPT !.turns[x][p] = turn]
           r == [[q EXCEPT ![k] = turn] EXCEPT ![p] = turn]
<1> HIDE DEF p, updated
<1>7. /\ placed \in Stores
      /\ placed.turns = [st.turns EXCEPT ![x] = r]
      /\ placed.order = st.order /\ placed.byModel = st.byModel
      /\ placed.flagged = st.flagged /\ placed.aliases = st.aliases
      /\ r \in Seq(Turns) /\ Len(r) = k
  <2>1. r \in Seq(Turns) /\ Len(r) = k
    BY <1>2, <1>5, ExceptSeq
  <2>2. placed = [mutated EXCEPT !.turns = [mutated.turns EXCEPT ![x] = r]]
    BY <1>1, <1>3, <1>4 DEF Stores
  <2> HIDE DEF placed, r
  <2>3. [mutated.turns EXCEPT ![x] = r] = [st.turns EXCEPT ![x] = r]
    BY <1>3, <1>1 DEF Stores
  <2>4. [st.turns EXCEPT ![x] = r] \in [Session -> Seq(Turns)]
    BY <2>1, <1>1 DEF Stores
  <2> QED BY <2>1, <2>2, <2>3, <2>4, <1>3 DEF Stores
<1> HIDE DEF placed
<1>8. /\ updated \in Stores
      /\ updated.turns = placed.turns /\ updated.order = placed.order
      /\ updated.flagged \in {placed.flagged, placed.flagged \cup {x}}
      /\ updated.aliases = placed.aliases
      /\ updated.byModel = [placed.byModel EXCEPT ![turn.model] = @ \cup {x}]
  <2>1. updated = [placed EXCEPT !.byModel[turn.model] = @ \cup {x},
                     !.flagged = IF turn.violates THEN @ \cup {x} ELSE @]
    BY <1>6 DEF IndexTurn, placed
  <2>2. (IF turn.violates THEN placed.flagged \cup {x} ELSE placed.flagged) \subseteq Session
    BY <1>1, <1>7 DEF Stores
  <2>3. [placed.byModel EXCEPT ![turn.model] = @ \cup {x}] \in [Model -> SUBSET Session]
    BY <1>1, <1>7 DEF Stores
  <2> QED BY <2>1, <2>2, <2>3, <1>1, <1>7 DEF Stores
<1> DEFINE z == [i \in 1..k |-> IF i = k THEN analyzed ELSE IF i = p THEN turn ELSE q[i]]
<1>9. analyzed \in Turns
  BY DEF Turns
<1>10. /\ updated.turns[x] = r /\ r[k] = turn
  <2>1. r[k] = turn
    BY <1>1, <1>2, <1>5, LenProperties
  <2> HIDE DEF r
  <2>2. updated.turns[x] = r
    BY <1>1, <1>7, <1>8 DEF Stores
  <2> QED BY <2>1, <2>2
<1>11. n.turns = [st.turns EXCEPT ![x] = [r EXCEPT ![k] = analyzed]]
  <2>1. n.turns = [updated.turns EXCEPT ![x] = [@ EXCEPT ![k] = analyzed]]
    BY <1>1, <1>7, <1>8, <1>10 DEF Analyzed, Stores
  <2> HIDE DEF r, n, analyzed
  <2> QED BY <2>1, <1>1, <1>7, <1>8, <1>10 DEF Stores
<1>12. [r EXCEPT ![k] = analyzed] = z
  BY <1>1, <1>5, <1>7, LenProperties
<1>13. [r EXCEPT ![k] = analyzed] \in Seq(Turns)
  BY <1>1, <1>7, <1>9, ExceptSeq
<1>14. /\ n \in Stores
       /\ n.order = updated.order /\ n.byModel = updated.byModel
       /\ n.flagged = updated.flagged /\ n.aliases = updated.aliases
  <2>1. n = [updated EXCEPT !.turns[x][k].violates = v]
    BY DEF Analyzed
  <2>2. n.order = updated.order /\ n.byModel = updated.byModel
        /\ n.flagged = updated.flagged /\ n.aliases = updated.aliases
    BY <2>1, <1>8 DEF Stores
  <2>3. n.turns \in [Session -> Seq(Turns)]
    BY <1>1, <1>11, <1>13 DEF Stores
  <2>4. n = [updated EXCEPT !.turns = n.turns]
    BY <2>1, <1>8 DEF Stores
  <2> HIDE DEF n
  <2>5. [updated EXCEPT !.turns = n.turns] \in Stores
    BY <1>8, <2>3 DEF Stores
  <2> QED BY <2>2, <2>4, <2>5
<1> HIDE DEF n, r
<1>15. Merged(st, n, x, turn, v, p)
  <2>1. n.turns = [st.turns EXCEPT ![x] = z]
    BY <1>11, <1>12
  <2> QED BY <2>1, <1>7, <1>8, <1>14 DEF Merged
<1> QED BY <1>5, <1>15 DEF n, updated, mutated

-----------------------------------------------------------------------------
(* The inductive invariant. *)

\* The step r is part of the i-th turn of session s.
Has(s, i, r) == i \in 1..Len(store.turns[s]) /\ r \in store.turns[s][i].steps

\* The registry holds no session twice.
OrderIsInjective == Injective(store.order)

\* A session that is not stored has no turns.
OnlyStoredHaveTurns == \A s \in Session \ Live(store) : store.turns[s] = <<>>

\* Only the placeholder session of a process is ever an alias, and never of itself.
OnlyPlaceholderIsAliased ==
    \A s \in Session : Aliased(s) => s = Placeholder /\ store.aliases[s] # Placeholder

\* Every request that was made has a session.
SessionsAreKnown == \A r \in Request : req[r].phase # "new" => req[r].session \in Session

\* A turn is filed under the session it names, which is that of one of its steps.
TurnsAreOwned ==
    \A s \in Session : \A i \in 1..Len(store.turns[s]) :
        /\ store.turns[s][i].session = s
        /\ \E r \in Request : Has(s, i, r) /\ req[r].session = s

\* A step of a stored turn is completed, was not evicted, and is one of the session's own
\* requests or one of an alias of it.
StepsAreDone ==
    \A s \in Session, i \in Nat, r \in Request : Has(s, i, r) =>
        /\ req[r].phase = "closed"
        /\ r \notin evicted
        /\ req[r].session = s \/ Aliased(req[r].session)

\* The turns of a session that is no alias are numbered by their places.
TurnsAreNumbered ==
    \A s \in Session : ~Aliased(s) =>
        \A i \in 1..Len(store.turns[s]) : store.turns[s][i].index = i - 1

\* No step is part of the turns of two sessions, nor of two turns of a session that is no
\* alias.
StepsAreApart ==
    \A s, t \in Session, i, j \in Nat, r \in Request : Has(s, i, r) /\ Has(t, j, r) =>
        s = t /\ (Aliased(s) \/ i = j)

\* Only completed steps were evicted.
EvictedAreClosed == \A r \in evicted : req[r].phase = "closed"

\* A completed step of a session that is no alias, unless evicted, is part of a turn of it.
ClosedAreStored ==
    \A r \in Request : req[r].phase = "closed" /\ ~Aliased(req[r].session) /\ r \notin evicted =>
        \E i \in Nat : Has(req[r].session, i, r)

\* The histories, the requests and the indexes belong together.
History ==
    /\ OrderIsInjective
    /\ OnlyStoredHaveTurns
    /\ OnlyPlaceholderIsAliased
    /\ SessionsAreKnown
    /\ TurnsAreOwned
    /\ StepsAreDone
    /\ TurnsAreNumbered
    /\ StepsAreApart
    /\ EvictedAreClosed
    /\ ClosedAreStored
    /\ IndexesNameStoredSessions

\* The inductive invariant.
IInv == TypeOK /\ History /\ UiAgreesWithStore

\* Nothing happens to the histories but that those of the sessions in E are evicted.
Quiet(E) ==
    /\ Sound(store')
    /\ Live(store) \ E \subseteq Live(store')
    /\ \A x \in Session : store'.turns[x] = IF x \in E THEN <<>> ELSE store.turns[x]
    /\ store'.byModel = [m \in Model |-> store.byModel[m] \ E]
    /\ store'.flagged = store.flagged \ E
    /\ \A x \in Session :
        \/ store'.aliases[x] = store.aliases[x]
        \/ x = Placeholder /\ store'.aliases[x] \in Session \ {Placeholder}
    /\ evicted' = evicted \cup UNION {StepsOf(store.turns[x]) : x \in E}
    /\ req' \in [Request -> RequestStates]
    /\ \A r \in Request :
        /\ req'[r].phase = "closed" <=> req[r].phase = "closed"
        /\ req[r].phase = "closed" => req'[r] = req[r]
        /\ req'[r].phase # "new" => req'[r].session \in Session

\* The steps of a session's turns are those some turn of it has.
LEMMA StepsOfTurns ==
    ASSUME TypeOK, NEW s \in Session
    PROVE  \A r : r \in StepsOf(store.turns[s]) <=> r \in Request /\ \E i \in Nat : Has(s, i, r)
<1>1. store.turns[s] \in Seq(Turns)
  BY DEF TypeOK, Stores
<1>2. Len(store.turns[s]) \in Nat
     /\ \A i \in 1..Len(store.turns[s]) : store.turns[s][i].steps \subseteq Request
  <2>1. \A i \in 1..Len(store.turns[s]) : store.turns[s][i] \in Turns
    BY <1>1, ElementOfSeq
  <2>2. \A turn \in Turns : turn.steps \subseteq Request
    BY DEF Turns
  <2> QED BY <1>1, <2>1, <2>2, LenProperties
<1> QED BY <1>2 DEF StepsOf, Has

\* A handler that completes nothing keeps the histories right: what it evicts goes as a
\* whole, and what goes is remembered as evicted.
LEMMA QuietKeepsHistory ==
    ASSUME IInv, NEW E \in SUBSET Session, Quiet(E)
    PROVE  History'
<1>0. /\ TypeOK /\ History /\ store \in Stores /\ store' \in Stores
      /\ \A x \in Session : store.turns[x] \in Seq(Turns) /\ Len(store.turns[x]) \in Nat
      /\ Len(<<>>) = 0
  BY LenProperties DEF IInv, Quiet, Sound, TypeOK, Stores
<1>1. \A s \in Session : \A i, r : Has(s, i, r)' <=> s \notin E /\ Has(s, i, r)
  <2>1. \A s \in Session : store'.turns[s] = IF s \in E THEN <<>> ELSE store.turns[s]
    BY DEF Quiet
  <2> QED BY <1>0, <2>1 DEF Has
<1>2. \A s \in Session : Aliased(s) => Aliased(s)'
  BY NoneAssumption DEF Quiet, Aliased
<1>3. \A r \in Request : r \in evicted' <=> r \in evicted \/ \E s \in E, i \in Nat : Has(s, i, r)
  <2>1. \A s \in E, r \in Request : r \in StepsOf(store.turns[s]) <=> \E i \in Nat : Has(s, i, r)
    BY <1>0, StepsOfTurns
  <2> QED BY <2>1 DEF Quiet
<1>4. OrderIsInjective'
  BY DEF Quiet, Sound, OrderIsInjective
<1>5. OnlyStoredHaveTurns'
  BY <1>0 DEF Quiet, History, OnlyStoredHaveTurns
<1>6. OnlyPlaceholderIsAliased'
  BY <1>0 DEF Quiet, History, OnlyPlaceholderIsAliased, Aliased
<1>7. SessionsAreKnown'
  BY DEF Quiet, SessionsAreKnown
<1>8. TurnsAreOwned'
  <2> SUFFICES ASSUME NEW s \in Session, NEW i \in 1..Len(store'.turns[s])
               PROVE  /\ store'.turns[s][i].session = s
                      /\ \E r \in Request : Has(s, i, r)' /\ req'[r].session = s
    BY DEF TurnsAreOwned
  <2>1. s \notin E /\ store'.turns[s] = store.turns[s] /\ i \in 1..Len(store.turns[s])
    BY <1>0 DEF Quiet
  <2>2. PICK r \in Request : Has(s, i, r) /\ req[r].session = s
    BY <1>0, <2>1 DEF History, TurnsAreOwned
  <2>3. req[r].phase = "closed"
    BY <1>0, <2>1, <2>2 DEF History, StepsAreDone
  <2>4. req'[r].session = s /\ Has(s, i, r)'
    BY <1>1, <2>1, <2>2, <2>3 DEF Quiet
  <2> QED BY <1>0, <2>1, <2>4 DEF History, TurnsAreOwned
<1>9. StepsAreDone'
  <2> SUFFICES ASSUME NEW s \in Session, NEW i \in Nat, NEW r \in Request, Has(s, i, r)'
               PROVE  /\ req'[r].phase = "closed"
                      /\ r \notin evicted'
                      /\ req'[r].session = s \/ Aliased(req[r].session)'
    BY DEF StepsAreDone
  <2>1. s \notin E /\ Has(s, i, r)
    BY <1>1
  <2>2. /\ req[r].phase = "closed" /\ r \notin evicted
        /\ req[r].session = s \/ Aliased(req[r].session)
    BY <1>0, <2>1 DEF History, StepsAreDone
  <2>3. req'[r] = req[r] /\ req[r].session \in Session
    BY <1>0, <2>2 DEF Quiet, History, SessionsAreKnown
  <2>4. \A t \in E, j \in Nat : ~ Has(t, j, r)
    BY <1>0, <2>1 DEF History, StepsAreApart
  <2>5. r \notin evicted'
    BY <1>3, <2>2, <2>4
  <2>6. PICK x \in Session : x = req[r].session
    BY <2>3
  <2>7. x = req'[r].session /\ (x = s \/ Aliased(x)')
    BY <1>2, <2>2, <2>3, <2>6
  <2>8. Aliased(x)' => Aliased(req[r].session)'
    BY <2>7 DEF Aliased
  <2> QED BY <2>2, <2>3, <2>5, <2>7, <2>8
<1>10. TurnsAreNumbered'
  BY <1>0, <1>2 DEF History, TurnsAreNumbered, Quiet
<1>11. StepsAreApart'
  BY <1>0, <1>1, <1>2 DEF History, StepsAreApart
<1>12. EvictedAreClosed'
  <2> SUFFICES ASSUME NEW r \in evicted' PROVE req'[r].phase = "closed"
    BY DEF EvictedAreClosed
  <2>1. r \in Request
    <3>1. \A s \in E : StepsOf(store.turns[s]) \subseteq Request
      BY <1>0, StepsOfTurns
    <3> QED BY <1>0, <3>1 DEF Quiet, TypeOK
  <2>2. req[r].phase = "closed"
    <3>1. CASE r \in evicted
      BY <1>0, <3>1 DEF History, EvictedAreClosed
    <3>2. CASE r \notin evicted
      <4>1. PICK s \in E, i \in Nat : Has(s, i, r)
        BY <1>3, <2>1, <3>2
      <4> QED BY <1>0, <2>1, <4>1 DEF History, StepsAreDone
    <3> QED BY <3>1, <3>2
  <2> QED BY <2>1, <2>2 DEF Quiet
<1>13. ClosedAreStored'
  <2> SUFFICES ASSUME NEW r \in Request, req'[r].phase = "closed", ~Aliased(req[r].session)',
                      r \notin evicted'
               PROVE  \E i \in Nat : Has(req[r].session, i, r)'
    BY DEF ClosedAreStored
  <2>1. req[r].phase = "closed" /\ req'[r] = req[r] /\ req[r].session \in Session
    BY <1>0 DEF Quiet, History, SessionsAreKnown
  <2>2. PICK x \in Session : x = req[r].session /\ x = req'[r].session
    BY <2>1
  <2>3. ~Aliased(x)'
    BY <2>2 DEF Aliased
  <2>4. ~Aliased(x)
    BY <1>2, <2>3
  <2>5. PICK i \in Nat : Has(x, i, r)
    BY <1>0, <1>3, <2>1, <2>2, <2>4 DEF History, ClosedAreStored
  <2>6. x \notin E
    BY <1>3, <2>5
  <2>7. Has(x, i, r)'
    BY <1>1, <2>5, <2>6
  <2> QED BY <2>2, <2>7 DEF Has
<1>14. IndexesNameStoredSessions'
  <2>1. ASSUME NEW m \in Model, NEW s \in Session
        PROVE  /\ HasTurnOf(s, m)' => s \in store'.byModel[m]
               /\ s \in store'.byModel[m] => Aliased(s)' \/ HasTurnOf(s, m)'
    <3>1. store'.turns[s] = IF s \in E THEN <<>> ELSE store.turns[s]
      BY DEF Quiet
    <3>2. HasTurnOf(s, m)' <=> s \notin E /\ HasTurnOf(s, m)
      BY <1>0, <3>1 DEF HasTurnOf
    <3> QED
      BY <1>0, <1>2, <3>2 DEF Quiet, History, IndexesNameStoredSessions
  <2>2. ASSUME NEW s \in Session,
               s \in store'.flagged \/ \E m \in Model : s \in store'.byModel[m]
        PROVE  s \in Live(store') /\ store'.turns[s] # <<>>
    <3>1. s \notin E /\ (s \in store.flagged \/ \E m \in Model : s \in store.byModel[m])
      BY <2>2 DEF Quiet
    <3>2. s \in Live(store) /\ store.turns[s] # <<>>
      BY <1>0, <3>1 DEF History, IndexesNameStoredSessions
    <3> QED BY <3>1, <3>2 DEF Quiet
  <2> QED BY <2>1, <2>2 DEF IndexesNameStoredSessions
<1> QED
  BY <1>4, <1>5, <1>6, <1>7, <1>8, <1>9, <1>10, <1>11, <1>12, <1>13, <1>14 DEF History

\* The request r completes as turn, added to its session after those in E were evicted.
Grows(r, turn, E) ==
    /\ req[r].phase = "open" /\ req[r].session = turn.session
    /\ turn \in Turns /\ turn.steps = {r}
    /\ ~Aliased(turn.session) => turn.index = Len(store.turns[turn.session])
    /\ Grown(store, store', turn.session, turn, E)
    /\ req' = [req EXCEPT ![r].phase = "closed"]
    /\ evicted' = evicted \cup UNION {StepsOf(store.turns[x]) : x \in E}

\* A step that starts a turn keeps the histories right.
LEMMA GrowthKeepsHistory ==
    ASSUME IInv, NEW r \in Request, NEW turn, NEW E \in SUBSET Session, Grows(r, turn, E)
    PROVE  History'
<1>0. /\ TypeOK /\ History /\ store \in Stores /\ store' \in Stores
      /\ turn.session \in Session /\ turn.model \in Model
      /\ \A x \in Session : store.turns[x] \in Seq(Turns) /\ Len(store.turns[x]) \in Nat
      /\ Len(<<>>) = 0
      /\ req \in [Request -> RequestStates]
  BY LenProperties DEF IInv, Grows, Grown, TypeOK, Stores, Turns
<1>1. PICK s \in Session : s = turn.session
  BY <1>0
<1>2. PICK k \in Nat : k = Len(store.turns[s]) + 1
  BY <1>0
<1>3. /\ \A x \in Session \ {s} : store'.turns[x] = IF x \in E THEN <<>> ELSE store.turns[x]
      /\ store'.turns[s] = Append(store.turns[s], turn)
      /\ s \notin E
  BY <1>1 DEF Grows, Grown
<1>4. /\ Len(store'.turns[s]) = k /\ store'.turns[s][k] = turn
      /\ \A i \in 1..Len(store.turns[s]) : store'.turns[s][i] = store.turns[s][i]
  BY <1>0, <1>2, <1>3, AppendProperties DEF Grows
<1>5. /\ \A x \in Session \ {s} : \A i, q : Has(x, i, q)' <=> x \notin E /\ Has(x, i, q)
      /\ \A i \in Nat : \A q : Has(s, i, q)' <=> Has(s, i, q) \/ (i = k /\ q = r)
  <2>1. \A x \in Session \ {s} : \A i, q : Has(x, i, q)' <=> x \notin E /\ Has(x, i, q)
    BY <1>0, <1>3 DEF Has
  <2>2. ASSUME NEW i \in Nat, NEW q
        PROVE  Has(s, i, q)' <=> Has(s, i, q) \/ (i = k /\ q = r)
    <3>1. turn.steps = {r}
      BY DEF Grows
    <3>2. i \in 1..k <=> i \in 1..Len(store.turns[s]) \/ i = k
      BY <1>0, <1>2
    <3>3. k \notin 1..Len(store.turns[s])
      BY <1>0, <1>2
    <3> QED BY <1>4, <3>1, <3>2, <3>3 DEF Has
  <2> QED BY <2>1, <2>2
<1>5a. ASSUME NEW x \in Session, NEW i \in 1..Len(store'.turns[x]), ~ (x = s /\ i = k)
       PROVE  /\ i \in Nat /\ i \in 1..Len(store.turns[x]) /\ x \notin E
              /\ store'.turns[x][i] = store.turns[x][i]
  <2>1. CASE x = s
    BY <1>0, <1>2, <1>3, <1>4, <1>5a, <2>1
  <2>2. CASE x # s
    <3>1. store'.turns[x] = IF x \in E THEN <<>> ELSE store.turns[x]
      BY <1>3, <2>2
    <3> QED BY <1>0, <1>5a, <3>1
  <2> QED BY <2>1, <2>2
<1>6. \A x \in Session : Aliased(x) <=> Aliased(x)'
  BY DEF Grows, Grown, Aliased
<1>7. \A q \in Request : /\ req'[q].session = req[q].session
                         /\ req'[q].phase = IF q = r THEN "closed" ELSE req[q].phase
  BY <1>0 DEF Grows, RequestStates
<1>8. /\ req[r].phase = "open" /\ req[r].session = s /\ r \notin evicted
      /\ \A x \in Session, i \in Nat : ~ Has(x, i, r)
  BY <1>0, <1>1 DEF Grows, History, EvictedAreClosed, StepsAreDone
<1>9. \A q \in Request : q \in evicted' <=> q \in evicted \/ \E x \in E, i \in Nat : Has(x, i, q)
  <2>1. \A x \in E, q \in Request : q \in StepsOf(store.turns[x]) <=> \E i \in Nat : Has(x, i, q)
    BY <1>0, StepsOfTurns
  <2> QED BY <2>1 DEF Grows
<1>10. r \notin evicted'
  BY <1>8, <1>9
<1>11. Live(store') = (Live(store) \ E) \cup {s}
  BY <1>1 DEF Grows, Grown
<1>12. OrderIsInjective'
  BY DEF Grows, Grown, OrderIsInjective
<1>13. OnlyStoredHaveTurns'
  BY <1>0, <1>3, <1>11 DEF History, OnlyStoredHaveTurns
<1>14. OnlyPlaceholderIsAliased'
  BY <1>0 DEF Grows, Grown, History, OnlyPlaceholderIsAliased, Aliased
<1>15. SessionsAreKnown'
  BY <1>0, <1>7, <1>8 DEF History, SessionsAreKnown
<1>16. TurnsAreOwned'
  <2> SUFFICES ASSUME NEW x \in Session, NEW i \in 1..Len(store'.turns[x])
               PROVE  /\ store'.turns[x][i].session = x
                      /\ \E q \in Request : Has(x, i, q)' /\ req'[q].session = x
    BY DEF TurnsAreOwned
  <2>0. i \in Nat
    BY <1>0
  <2>1. CASE x = s /\ i = k
    BY <1>1, <1>4, <1>5, <1>7, <1>8, <2>0, <2>1
  <2>2. CASE ~ (x = s /\ i = k)
    <3>1. /\ i \in Nat /\ i \in 1..Len(store.turns[x]) /\ x \notin E
          /\ store'.turns[x][i] = store.turns[x][i]
      BY <1>5a, <2>2
    <3>2. PICK q \in Request : Has(x, i, q) /\ req[q].session = x
      BY <1>0, <3>1 DEF History, TurnsAreOwned
    <3>3. Has(x, i, q)' /\ req'[q].session = x
      BY <1>5, <1>7, <3>1, <3>2
    <3> QED BY <1>0, <3>1, <3>3 DEF History, TurnsAreOwned
  <2> QED BY <2>1, <2>2
<1>17. StepsAreDone'
  <2> SUFFICES ASSUME NEW x \in Session, NEW i \in Nat, NEW q \in Request, Has(x, i, q)'
               PROVE  /\ req'[q].phase = "closed"
                      /\ q \notin evicted'
                      /\ req'[q].session = x \/ Aliased(req[q].session)'
    BY DEF StepsAreDone
  <2>1. CASE x = s /\ i = k /\ q = r
    BY <1>7, <1>8, <1>10, <2>1
  <2>2. CASE ~ (x = s /\ i = k /\ q = r)
    <3>1. x \notin E /\ Has(x, i, q)
      BY <1>3, <1>5, <2>2
    <3>2. /\ req[q].phase = "closed" /\ q \notin evicted
          /\ req[q].session = x \/ Aliased(req[q].session)
      BY <1>0, <3>1 DEF History, StepsAreDone
    <3>3. \A y \in E, j \in Nat : ~ Has(y, j, q)
      BY <1>0, <3>1 DEF History, StepsAreApart
    <3>4. q \notin evicted'
      BY <1>9, <3>2, <3>3
    <3>5. PICK y \in Session : y = req[q].session /\ y = req'[q].session
      BY <1>0, <1>7, <3>2 DEF History, SessionsAreKnown
    <3>6. Aliased(y)' => Aliased(req[q].session)'
      BY <3>5 DEF Aliased
    <3> QED BY <1>6, <1>7, <3>2, <3>4, <3>5, <3>6
  <2> QED BY <2>1, <2>2
<1>18. TurnsAreNumbered'
  <2> SUFFICES ASSUME NEW x \in Session, ~Aliased(x)', NEW i \in 1..Len(store'.turns[x])
               PROVE  store'.turns[x][i].index = i - 1
    BY DEF TurnsAreNumbered
  <2>1. CASE x = s /\ i = k
    BY <1>0, <1>1, <1>2, <1>4, <1>6, <2>1 DEF Grows
  <2>2. CASE ~ (x = s /\ i = k)
    <3>1. /\ i \in Nat /\ i \in 1..Len(store.turns[x]) /\ x \notin E
          /\ store'.turns[x][i] = store.turns[x][i]
      BY <1>5a, <2>2
    <3> QED BY <1>0, <1>6, <3>1 DEF History, TurnsAreNumbered
  <2> QED BY <2>1, <2>2
<1>19. StepsAreApart'
  <2> SUFFICES ASSUME NEW x \in Session, NEW y \in Session, NEW i \in Nat, NEW j \in Nat,
                      NEW q \in Request, Has(x, i, q)', Has(y, j, q)'
               PROVE  x = y /\ (Aliased(x)' \/ i = j)
    BY DEF StepsAreApart
  <2>1. CASE q = r
    BY <1>5, <1>8, <2>1
  <2>2. CASE q # r
    <3>1. Has(x, i, q) /\ Has(y, j, q)
      BY <1>5, <2>2
    <3> QED BY <1>0, <1>6, <3>1 DEF History, StepsAreApart
  <2> QED BY <2>1, <2>2
<1>20. EvictedAreClosed'
  <2> SUFFICES ASSUME NEW q \in evicted' PROVE req'[q].phase = "closed"
    BY DEF EvictedAreClosed
  <2>1. q \in Request
    <3>1. \A x \in E : StepsOf(store.turns[x]) \subseteq Request
      BY <1>0, StepsOfTurns
    <3> QED BY <1>0, <3>1 DEF Grows, TypeOK
  <2>2. req[q].phase = "closed"
    <3>1. CASE q \in evicted
      BY <1>0, <3>1 DEF History, EvictedAreClosed
    <3>2. CASE q \notin evicted
      <4>1. PICK x \in E, i \in Nat : Has(x, i, q)
        BY <1>9, <2>1, <3>2
      <4> QED BY <1>0, <2>1, <4>1 DEF History, StepsAreDone
    <3> QED BY <3>1, <3>2
  <2> QED BY <1>7, <2>1, <2>2
<1>21. ClosedAreStored'
  <2> SUFFICES ASSUME NEW q \in Request, req'[q].phase = "closed", ~Aliased(req[q].session)',
                      q \notin evicted'
               PROVE  \E i \in Nat : Has(req[q].session, i, q)'
    BY DEF ClosedAreStored
  <2>1. PICK y \in Session : y = req[q].session /\ y = req'[q].session
    BY <1>0, <1>7, <1>8 DEF History, SessionsAreKnown
  <2>2. ~Aliased(y)
    <3>1. ~Aliased(y)'
      BY <2>1 DEF Aliased
    <3> QED BY <1>6, <3>1
  <2>3. \E i \in Nat : Has(y, i, q)'
    <3>1. CASE q = r
      BY <1>2, <1>5, <1>8, <2>1, <3>1
    <3>2. CASE q # r
      <4>1. PICK i \in Nat : Has(y, i, q)
        BY <1>0, <1>7, <1>9, <2>1, <2>2, <3>2 DEF History, ClosedAreStored
      <4>2. y \notin E
        BY <1>9, <4>1
      <4> QED BY <1>5, <4>1, <4>2
    <3> QED BY <3>1, <3>2
  <2> QED BY <2>1, <2>3 DEF Has
<1>22. IndexesNameStoredSessions'
  <2>1. ASSUME NEW m \in Model, NEW x \in Session
        PROVE  /\ HasTurnOf(x, m)' => x \in store'.byModel[m]
               /\ x \in store'.byModel[m] => Aliased(x)' \/ HasTurnOf(x, m)'
    <3>1. HasTurnOf(x, m)' <=> (x \notin E /\ HasTurnOf(x, m)) \/ (x = s /\ m = turn.model)
      <4>1. CASE x = s
        <5>1. \A i : i \in 1..k <=> i \in 1..Len(store.turns[s]) \/ i = k
          BY <1>0, <1>2
        <5> QED BY <4>1, <5>1, <1>3, <1>4 DEF HasTurnOf
      <4>2. CASE x # s
        BY <4>2, <1>0, <1>3 DEF HasTurnOf
      <4> QED BY <4>1, <4>2
    <3>2. x \in store'.byModel[m] <=>
              (x \notin E /\ x \in store.byModel[m]) \/ (x = s /\ m = turn.model)
      BY <1>1 DEF Grows, Grown
    <3>3. /\ HasTurnOf(x, m) => x \in store.byModel[m]
          /\ x \in store.byModel[m] => Aliased(x) \/ HasTurnOf(x, m)
      BY <1>0 DEF History, IndexesNameStoredSessions
    <3> QED BY <1>6, <3>1, <3>2, <3>3
  <2>2. ASSUME NEW x \in Session,
               x \in store'.flagged \/ \E m \in Model : x \in store'.byModel[m]
        PROVE  x \in Live(store') /\ store'.turns[x] # <<>>
    <3>1. CASE x = s
      <4>1. k # 0
        BY <1>0, <1>2
      <4> QED BY <1>0, <1>4, <1>11, <3>1, <4>1
    <3>2. CASE x # s
      <4>1. x \notin E /\ (x \in store.flagged \/ \E m \in Model : x \in store.byModel[m])
        BY <2>2, <3>2, <1>1 DEF Grows, Grown
      <4>2. x \in Live(store) /\ store.turns[x] # <<>>
        BY <1>0, <4>1 DEF History, IndexesNameStoredSessions
      <4> QED BY <1>3, <1>11, <3>2, <4>1, <4>2
    <3> QED BY <3>1, <3>2
  <2> QED BY <2>1, <2>2 DEF IndexesNameStoredSessions
<1> QED
  BY <1>12, <1>13, <1>14, <1>15, <1>16, <1>17, <1>18, <1>19, <1>20, <1>21, <1>22 DEF History

\* The step r merges into the last turn of session x, which becomes turn.
Joins(r, x, turn, v, p) ==
    /\ req[r].phase = "open"
    /\ req[r].session = x \/ Aliased(req[r].session)
    /\ turn \in Turns
    /\ LET last == store.turns[x][Len(store.turns[x])] IN
        /\ turn.session = last.session /\ turn.index = last.index /\ turn.model = last.model
        /\ turn.steps = last.steps \cup {r}
    /\ v \in BOOLEAN
    /\ p \in 1..Len(store.turns[x])
    /\ ~Aliased(x) => p = Len(store.turns[x])
    /\ Merged(store, store', x, turn, v, p)
    /\ req' = [req EXCEPT ![r].phase = "closed"]
    /\ evicted' = evicted

\* A step merged into the last turn of a history keeps the histories right.
LEMMA MergeKeepsHistory ==
    ASSUME IInv, NEW r \in Request, NEW s \in Session, NEW turn, NEW v, NEW p,
           Joins(r, s, turn, v, p)
    PROVE  History'
<1>0. /\ TypeOK /\ History /\ store \in Stores /\ store' \in Stores
      /\ turn.model \in Model
      /\ \A x \in Session : store.turns[x] \in Seq(Turns) /\ Len(store.turns[x]) \in Nat
      /\ req \in [Request -> RequestStates]
  BY LenProperties DEF IInv, Joins, Merged, TypeOK, Stores, Turns
<1>1. PICK k \in Nat : k = Len(store.turns[s])
  BY <1>0
<1>2. /\ k \in 1..k /\ p \in 1..k /\ (~Aliased(s) => p = k)
  BY <1>0, <1>1 DEF Joins
<1>3. PICK last : last = store.turns[s][k]
  OBVIOUS
<1>4. /\ turn.session = last.session /\ turn.index = last.index /\ turn.model = last.model
      /\ turn.steps = last.steps \cup {r}
  BY <1>1, <1>3 DEF Joins
<1>5. /\ \A x \in Session : x # s => store'.turns[x] = store.turns[x]
      /\ Len(store'.turns[s]) = k
      /\ \A i \in 1..k : i # k /\ i # p => store'.turns[s][i] = store.turns[s][i]
      /\ store'.turns[s][k] = [turn EXCEPT !.violates = v]
      /\ p # k => store'.turns[s][p] = turn
  <2>1. store'.turns = [store.turns EXCEPT ![s] = [i \in 1..k |->
            IF i = k THEN [turn EXCEPT !.violates = v]
            ELSE IF i = p THEN turn ELSE store.turns[s][i]]]
    BY <1>1 DEF Joins, Merged
  <2>2. store'.turns[s] = [i \in 1..k |->
            IF i = k THEN [turn EXCEPT !.violates = v]
            ELSE IF i = p THEN turn ELSE store.turns[s][i]]
    BY <1>0, <2>1 DEF Stores
  <2>3. \A x \in Session : x # s => store'.turns[x] = store.turns[x]
    BY <1>0, <2>1 DEF Stores
  <2>4. Len(store'.turns[s]) = k
    <3>1. store'.turns[s] \in Seq(Turns)
      BY <1>0 DEF Stores
    <3>2. DOMAIN store'.turns[s] = 1..k
      BY <2>2
    <3> QED BY <3>1, <3>2, LenProperties
  <2> QED BY <1>1, <1>2, <2>2, <2>3, <2>4
<1>6. ASSUME NEW i, i = k \/ i = p
      PROVE  /\ store'.turns[s][i].session = last.session
             /\ store'.turns[s][i].index = last.index
             /\ store'.turns[s][i].model = last.model
             /\ store'.turns[s][i].steps = last.steps \cup {r}
  <2>1. CASE i = k
    <3>1. turn \in Turns
      BY DEF Joins
    <3> QED BY <1>4, <1>5, <2>1, <3>1 DEF Turns
  <2>2. CASE i # k
    BY <1>4, <1>5, <1>6, <2>2
  <2> QED BY <2>1, <2>2
<1>7. \A x \in Session, i \in Nat : \A q :
        Has(x, i, q)' <=> IF x = s /\ (i = k \/ i = p) THEN Has(s, k, q) \/ q = r
                                                   ELSE Has(x, i, q)
  <2> SUFFICES ASSUME NEW x \in Session, NEW i \in Nat, NEW q
               PROVE  Has(x, i, q)' <=> IF x = s /\ (i = k \/ i = p) THEN Has(s, k, q) \/ q = r
                                                                  ELSE Has(x, i, q)
    OBVIOUS
  <2>1. CASE x = s /\ (i = k \/ i = p)
    <3>1. store'.turns[s][i].steps = last.steps \cup {r} /\ i \in 1..k
      BY <1>2, <1>6, <2>1
    <3> QED BY <1>1, <1>2, <1>3, <1>5, <2>1, <3>1 DEF Has
  <2>2. CASE x = s /\ ~ (i = k \/ i = p)
    BY <1>1, <1>5, <2>2 DEF Has
  <2>3. CASE x # s
    BY <1>5, <2>3 DEF Has
  <2> QED BY <2>1, <2>2, <2>3
<1>5a. \A x \in Session : Len(store'.turns[x]) = Len(store.turns[x])
  BY <1>1, <1>5
<1>8. \A x \in Session : Aliased(x) <=> Aliased(x)'
  BY DEF Joins, Merged, Aliased
<1>9. \A q \in Request : /\ req'[q].session = req[q].session
                         /\ req'[q].phase = IF q = r THEN "closed" ELSE req[q].phase
  BY <1>0 DEF Joins, RequestStates
<1>10. /\ req[r].phase = "open" /\ r \notin evicted /\ evicted' = evicted
       /\ \A x \in Session, i \in Nat : ~ Has(x, i, r)
  BY <1>0 DEF Joins, History, EvictedAreClosed, StepsAreDone
<1>11. PICK y \in Session : y = req[r].session /\ y = req'[r].session
  BY <1>0, <1>9, <1>10 DEF History, SessionsAreKnown
<1>12. y = s \/ Aliased(y)
  BY <1>11 DEF Joins
<1>13. Live(store') = Live(store)
  BY DEF Joins, Merged, Live
<1>14. OrderIsInjective'
  BY <1>0 DEF Joins, Merged, OrderIsInjective, History
<1>15. OnlyStoredHaveTurns'
  <2> SUFFICES ASSUME NEW x \in Session, x \notin Live(store') PROVE store'.turns[x] = <<>>
    BY DEF OnlyStoredHaveTurns
  <2>1. store.turns[x] = <<>>
    BY <1>0, <1>13 DEF History, OnlyStoredHaveTurns
  <2>2. x # s
    BY <1>0, <1>1, <1>2, <2>1, EmptySeq
  <2> QED BY <1>5, <2>1, <2>2
<1>16. OnlyPlaceholderIsAliased'
  BY <1>0 DEF Joins, Merged, History, OnlyPlaceholderIsAliased, Aliased
<1>17. SessionsAreKnown'
  BY <1>0, <1>9, <1>10 DEF History, SessionsAreKnown
<1>18. TurnsAreOwned'
  <2> SUFFICES ASSUME NEW x \in Session, NEW i \in 1..Len(store'.turns[x])
               PROVE  /\ store'.turns[x][i].session = x
                      /\ \E q \in Request : Has(x, i, q)' /\ req'[q].session = x
    BY DEF TurnsAreOwned
  <2>1. i \in Nat /\ i \in 1..Len(store.turns[x])
    BY <1>0, <1>5a
  <2>2. CASE x = s /\ (i = k \/ i = p)
    <3>1. last.session = s /\ \E q \in Request : Has(s, k, q) /\ req[q].session = s
      BY <1>0, <1>1, <1>2, <1>3 DEF History, TurnsAreOwned
    <3> QED BY <1>6, <1>7, <1>9, <2>1, <2>2, <3>1
  <2>3. CASE ~ (x = s /\ (i = k \/ i = p))
    <3>1. store'.turns[x][i] = store.turns[x][i]
      BY <1>1, <1>5, <2>1, <2>3
    <3>2. PICK q \in Request : Has(x, i, q) /\ req[q].session = x
      BY <1>0, <2>1 DEF History, TurnsAreOwned
    <3> QED BY <1>0, <1>7, <1>9, <2>1, <2>3, <3>1, <3>2 DEF History, TurnsAreOwned
  <2> QED BY <2>2, <2>3
<1>19. StepsAreDone'
  <2> SUFFICES ASSUME NEW x \in Session, NEW i \in Nat, NEW q \in Request, Has(x, i, q)'
               PROVE  /\ req'[q].phase = "closed"
                      /\ q \notin evicted'
                      /\ req'[q].session = x \/ Aliased(req[q].session)'
    BY DEF StepsAreDone
  <2>1. CASE q = r
    <3>1. x = s
      BY <1>7, <1>10, <2>1
    <3>2. y = s \/ Aliased(y)'
      BY <1>8, <1>12
    <3>3. Aliased(y)' => Aliased(req[q].session)'
      BY <1>11, <2>1 DEF Aliased
    <3> QED BY <1>9, <1>10, <1>11, <2>1, <3>1, <3>2, <3>3
  <2>2. CASE q # r
    <3>1. PICK j \in Nat : Has(x, j, q)
      BY <1>7, <2>2
    <3>2. /\ req[q].phase = "closed" /\ q \notin evicted
          /\ req[q].session = x \/ Aliased(req[q].session)
      BY <1>0, <3>1 DEF History, StepsAreDone
    <3>3. PICK z \in Session : z = req[q].session /\ z = req'[q].session
      BY <1>0, <1>9, <3>2 DEF History, SessionsAreKnown
    <3>4. Aliased(z)' => Aliased(req[q].session)'
      BY <3>3 DEF Aliased
    <3> QED BY <1>8, <1>9, <1>10, <3>2, <3>3, <3>4
  <2> QED BY <2>1, <2>2
<1>20. TurnsAreNumbered'
  <2> SUFFICES ASSUME NEW x \in Session, ~Aliased(x)', NEW i \in 1..Len(store'.turns[x])
               PROVE  store'.turns[x][i].index = i - 1
    BY DEF TurnsAreNumbered
  <2>1. i \in Nat /\ i \in 1..Len(store.turns[x]) /\ store.turns[x][i].index = i - 1
    BY <1>0, <1>5a, <1>8 DEF History, TurnsAreNumbered
  <2>2. CASE x = s /\ (i = k \/ i = p)
    BY <1>2, <1>3, <1>6, <1>8, <2>1, <2>2
  <2>3. CASE ~ (x = s /\ (i = k \/ i = p))
    BY <1>1, <1>5, <2>1, <2>3
  <2> QED BY <2>2, <2>3
<1>21. StepsAreApart'
  <2> SUFFICES ASSUME NEW x \in Session, NEW z \in Session, NEW i \in Nat, NEW j \in Nat,
                      NEW q \in Request, Has(x, i, q)', Has(z, j, q)'
               PROVE  x = z /\ (Aliased(x)' \/ i = j)
    BY DEF StepsAreApart
  <2>1. CASE q = r
    BY <1>2, <1>7, <1>8, <1>10, <2>1
  <2>2. CASE q # r
    <3>1. PICK ii \in Nat : Has(x, ii, q) /\ (~Aliased(x) => ii = i)
      BY <1>2, <1>7, <2>2
    <3>2. PICK jj \in Nat : Has(z, jj, q) /\ (~Aliased(z) => jj = j)
      BY <1>2, <1>7, <2>2
    <3> QED BY <1>0, <1>8, <3>1, <3>2 DEF History, StepsAreApart
  <2> QED BY <2>1, <2>2
<1>22. EvictedAreClosed'
  <2>1. evicted \subseteq Request
    BY <1>0 DEF TypeOK
  <2> QED BY <1>0, <1>9, <1>10, <2>1 DEF History, EvictedAreClosed
<1>23. ClosedAreStored'
  <2> SUFFICES ASSUME NEW q \in Request, req'[q].phase = "closed", ~Aliased(req[q].session)',
                      q \notin evicted'
               PROVE  \E i \in Nat : Has(req[q].session, i, q)'
    BY DEF ClosedAreStored
  <2>1. PICK z \in Session : z = req[q].session /\ z = req'[q].session
    BY <1>0, <1>9, <1>10 DEF History, SessionsAreKnown
  <2>2. ~Aliased(z)
    <3>1. ~Aliased(z)'
      BY <2>1 DEF Aliased
    <3> QED BY <1>8, <3>1
  <2>3. \E i \in Nat : Has(z, i, q)'
    <3>1. CASE q = r
      <4>1. z = s
        BY <1>11, <1>12, <2>1, <2>2, <3>1
      <4> QED BY <1>2, <1>7, <3>1, <4>1
    <3>2. CASE q # r
      <4>1. PICK i \in Nat : Has(z, i, q)
        BY <1>0, <1>9, <1>10, <2>1, <2>2, <3>2 DEF History, ClosedAreStored
      <4> QED BY <1>2, <1>7, <2>2, <4>1
    <3> QED BY <3>1, <3>2
  <2> QED BY <2>1, <2>3 DEF Has
<1>24. IndexesNameStoredSessions'
  <2>1. ASSUME NEW m \in Model, NEW x \in Session
        PROVE  /\ HasTurnOf(x, m)' => x \in store'.byModel[m]
               /\ x \in store'.byModel[m] => Aliased(x)' \/ HasTurnOf(x, m)'
    <3>1. HasTurnOf(x, m)' => HasTurnOf(x, m)
      <4> SUFFICES ASSUME NEW i \in 1..Len(store'.turns[x]), store'.turns[x][i].model = m
                   PROVE  HasTurnOf(x, m)
        BY DEF HasTurnOf
      <4>1. i \in 1..Len(store.turns[x])
        BY <1>5a
      <4>2. CASE x = s /\ (i = k \/ i = p)
        BY <1>1, <1>2, <1>3, <1>6, <4>2 DEF HasTurnOf
      <4>3. CASE ~ (x = s /\ (i = k \/ i = p))
        BY <1>1, <1>5, <4>1, <4>3 DEF HasTurnOf
      <4> QED BY <4>2, <4>3
    <3>2. HasTurnOf(x, m) /\ ~Aliased(x) => HasTurnOf(x, m)'
      <4> SUFFICES ASSUME ~Aliased(x), NEW i \in 1..Len(store.turns[x]),
                          store.turns[x][i].model = m
                   PROVE  store'.turns[x][i].model = m /\ i \in 1..Len(store'.turns[x])
        BY DEF HasTurnOf
      <4>1. i \in 1..Len(store'.turns[x])
        BY <1>5a
      <4>2. CASE x = s /\ (i = k \/ i = p)
        BY <1>2, <1>3, <1>6, <4>1, <4>2
      <4>3. CASE ~ (x = s /\ (i = k \/ i = p))
        BY <1>1, <1>5, <4>1, <4>3
      <4> QED BY <4>2, <4>3
    <3>3. x \in store'.byModel[m] <=> x \in store.byModel[m] \/ (x = s /\ m = turn.model)
      BY <1>0 DEF Joins, Merged, Stores
    <3>4. HasTurnOf(s, turn.model)
      BY <1>1, <1>2, <1>3, <1>4 DEF HasTurnOf
    <3>5. /\ HasTurnOf(x, m) => x \in store.byModel[m]
          /\ x \in store.byModel[m] => Aliased(x) \/ HasTurnOf(x, m)
      BY <1>0 DEF History, IndexesNameStoredSessions
    <3> QED BY <1>8, <3>1, <3>2, <3>3, <3>4, <3>5
  <2>2. ASSUME NEW x \in Session,
               x \in store'.flagged \/ \E m \in Model : x \in store'.byModel[m]
        PROVE  x \in Live(store') /\ store'.turns[x] # <<>>
    <3>1. x \in Live(store) /\ store.turns[x] # <<>>
      <4>1. store.turns[s] # <<>>
        BY <1>0, <1>1, <1>2, EmptySeq
      <4>2. s \in Live(store)
        BY <1>0, <4>1 DEF History, OnlyStoredHaveTurns
      <4>3. x = s \/ x \in store.flagged \/ \E m \in Model : x \in store.byModel[m]
        BY <1>0, <2>2 DEF Joins, Merged, Stores
      <4> QED BY <1>0, <4>1, <4>2, <4>3 DEF History, IndexesNameStoredSessions
    <3>2. store'.turns[x] # <<>>
      BY <1>0, <1>5a, <3>1, EmptySeq DEF Stores
    <3> QED BY <1>13, <3>1, <3>2
  <2> QED BY <2>1, <2>2 DEF IndexesNameStoredSessions
<1> QED
  BY <1>14, <1>15, <1>16, <1>17, <1>18, <1>19, <1>20, <1>21, <1>22, <1>23, <1>24 DEF History

-----------------------------------------------------------------------------
(* The handlers. *)

\* The store is sound.
LEMMA SoundStore ==
    ASSUME IInv
    PROVE  Sound(store)
BY DEF IInv, History, TypeOK, OrderIsInjective, Sound

\* What the code's requests may do while no turn is completed.
ReqsWait ==
    /\ req' \in [Request -> RequestStates]
    /\ \A r \in Request :
        /\ req'[r].phase = "closed" <=> req[r].phase = "closed"
        /\ req[r].phase = "closed" => req'[r] = req[r]
        /\ req'[r].phase # "new" => req'[r].session \in Session

\* A handler that only makes room for a session and links an alias is quiet.
LEMMA Refilled ==
    ASSUME IInv, NEW s \in Session, NEW E \in SUBSET Session, NEW st, Room(store, st, s, E),
           store' \in Stores, store'.order = st.order, store'.turns = st.turns,
           store'.byModel = st.byModel, store'.flagged = st.flagged,
           \A x \in Session :
             \/ store'.aliases[x] = store.aliases[x]
             \/ x = Placeholder /\ store'.aliases[x] \in Session \ {Placeholder},
           evicted' = evicted \cup
                UNION {StepsOf(store.turns[x]) : x \in Live(store) \ Live(store')},
           ReqsWait
    PROVE  Quiet(E)
<1>1. Live(store') = (Live(store) \ E) \cup {s} /\ E \subseteq Live(store) \ {s}
  BY DEF Room, Live
<1>2. Live(store) \ Live(store') = E
  BY <1>1
<1>3. Sound(store')
  BY DEF Room, Sound
<1>4. \A x \in Session : store'.turns[x] = IF x \in E THEN <<>> ELSE store.turns[x]
  BY DEF Room
<1> QED
  BY <1>1, <1>2, <1>3, <1>4 DEF Quiet, Room, ReqsWait

\* A handler that leaves the registry, the turns and the indexes alone is quiet.
LEMMA Unevicting ==
    ASSUME IInv, store' \in Stores, store'.order = store.order, store'.turns = store.turns,
           store'.byModel = store.byModel, store'.flagged = store.flagged,
           store'.aliases = store.aliases, evicted' = evicted, ReqsWait
    PROVE  Quiet({})
<1>1. Sound(store')
  BY SoundStore DEF Sound
<1>2. store.byModel = [m \in Model |-> store.byModel[m] \ {}]
  BY DEF IInv, TypeOK, Stores
<1>3. UNION {StepsOf(store.turns[x]) : x \in {}} = {}
  OBVIOUS
<1> QED
  BY <1>1, <1>2, <1>3 DEF Quiet, Live, ReqsWait

\* Leaving the requests alone completes none.
LEMMA ReqsSame ==
    ASSUME IInv, UNCHANGED req
    PROVE  ReqsWait
BY DEF IInv, TypeOK, History, SessionsAreKnown, ReqsWait

\* Opening or losing a request completes none.
LEMMA ReqChanges ==
    ASSUME IInv, NEW r \in Request, NEW q \in RequestStates, req[r].phase # "closed",
           q.phase # "closed", q.session \in Session, req' = [req EXCEPT ![r] = q]
    PROVE  ReqsWait
<1>1. req \in [Request -> RequestStates]
  BY DEF IInv, TypeOK
<1> QED
  BY <1>1 DEF IInv, History, SessionsAreKnown, ReqsWait

\* Asking for a session that is no alias answers with its own turns.
LEMMA OwnAnswer ==
    ASSUME NEW st \in Stores, NEW s \in Session, st.aliases[s] = None
    PROVE  GetSession(st, s) = st.turns[s]
BY DEF GetSession, Answering, Resolve

\* Asking for a session answers with the turns of some session.
LEMMA AnswerExists ==
    ASSUME NEW st \in Stores, NEW s \in Session
    PROVE  /\ Answering(st, s) \in Session
           /\ GetSession(st, s) = st.turns[Answering(st, s)]
           /\ GetSession(st, s) \in Seq(Turns)
<1>1. Answering(st, s) \in Session
  BY DEF Answering, Resolve, Stores
<1> QED
  BY <1>1 DEF GetSession, Stores

\* The turns told to the interfaces of session s: one more as started.
Starts(s, index) ==
    /\ s \in Session /\ index \in Nat
    /\ ui' = [ui EXCEPT ![s]["started"] = @ \cup {index}]
    /\ ~Aliased(s)' => index <= Len(store'.turns[s])

\* REQUEST_INITIATED: registering and linking is quiet, and the turn told as started is one
\* of the session's or the next.
LEMMA InitiateEffect ==
    ASSUME IInv, NEW r \in Request, Initiate(r)
    PROVE  /\ \E E \in SUBSET Session : Quiet(E)
           /\ \E s, index : Starts(s, index)
<1>1. PICK s \in Session, human \in BOOLEAN, knowsPid \in BOOLEAN :
        LET st      == LinkPlaceholder(Registered(s), s, knowsPid)
            history == GetSession(st, s)
        IN  /\ req' = [req EXCEPT ![r] = [phase |-> "open", session |-> s, human |-> human]]
            /\ SetStore(st)
            /\ Publish(s, "started",
                       IF Continues(history, human) THEN Len(history) - 1 ELSE Len(history))
  BY DEF Initiate
<1> DEFINE st0 == Registered(s)
           st  == LinkPlaceholder(st0, s, knowsPid)
           history == GetSession(st, s)
           index == IF Continues(history, human) THEN Len(history) - 1 ELSE Len(history)
<1>2. Sound(store) /\ store \in Stores
  BY SoundStore DEF Sound
<1>3. PICK E \in SUBSET Session : Room(store, st0, s, E)
  <2>1. CASE s \in Live(store)
    <3>1. store.turns = [x \in Session |-> IF x \in {} THEN <<>> ELSE store.turns[x]]
      BY <1>2 DEF Stores
    <3>2. store.byModel = [m \in Model |-> store.byModel[m] \ {}]
      BY <1>2 DEF Stores
    <3>3. Room(store, store, s, {})
      BY <1>2, <2>1, <3>1, <3>2 DEF Room, Sound
    <3>4. Registered(s) = store
      BY <2>1 DEF Registered
    <3> QED BY <3>3, <3>4
  <2>2. CASE s \notin Live(store)
    <3>1. Registered(s) = RegisterSession(store, s, "active")
      BY <2>2 DEF Registered
    <3> QED BY <1>2, <3>1, SessionRegistered
  <2> QED BY <2>1, <2>2
<1> HIDE DEF st0
<1>4. /\ st \in Stores /\ st.order = st0.order /\ st.turns = st0.turns
      /\ st.byModel = st0.byModel /\ st.flagged = st0.flagged
      /\ \A x \in Session :
           \/ st.aliases[x] = store.aliases[x]
           \/ x = Placeholder /\ st.aliases[x] \in Session \ {Placeholder}
  <2>1. st0 \in Stores /\ st0.aliases = store.aliases
    BY <1>3 DEF Room
  <2>2. CASE st = st0
    BY <2>1, <2>2
  <2>3. CASE st = [st0 EXCEPT !.aliases[Placeholder] = s] /\ s # Placeholder
    <3> HIDE DEF st
    <3> QED BY <2>1, <2>3, PlaceholderAssumption DEF Stores
  <2> QED
    BY <2>2, <2>3 DEF LinkPlaceholder, AliasSession
<1> HIDE DEF st
<1>5. /\ store' = st
      /\ req' = [req EXCEPT ![r] = [phase |-> "open", session |-> s, human |-> human]]
      /\ ui' = [ui EXCEPT ![s]["started"] = @ \cup {index}]
      /\ evicted' = evicted \cup
                UNION {StepsOf(store.turns[x]) : x \in Live(store) \ Live(store')}
  BY <1>1 DEF SetStore, Publish, st, st0
<1>6. ReqsWait
  <2>1. [phase |-> "open", session |-> s, human |-> human] \in RequestStates
    BY DEF RequestStates
  <2>2. req[r].phase = "new"
    BY DEF Initiate
  <2> QED BY <1>5, <2>1, <2>2, ReqChanges
<1>7. Quiet(E)
  BY <1>3, <1>4, <1>5, <1>6, Refilled
<1>8. Starts(s, index)
  <2>1. history \in Seq(Turns) /\ Len(history) \in Nat
    BY <1>4, AnswerExists, LenProperties
  <2>2. index \in Nat /\ index <= Len(history)
    <3> HIDE DEF history
    <3> QED BY <2>1, EmptySeq DEF Continues
  <2>3. st.aliases[s] = None => history = st.turns[s]
    BY <1>4, OwnAnswer
  <2> HIDE DEF history, index
  <2>4. ~Aliased(s)' => history = store'.turns[s]
    BY <1>5, <2>3 DEF Aliased
  <2> QED BY <1>5, <2>2, <2>4 DEF Starts
<1> QED BY <1>7, <1>8

\* A turn told to the interfaces of session s as completed.
Completes(s, index) == ui' = [ui EXCEPT ![s]["completed"] = @ \cup {index}]

\* TURN_COMPLETED of a step that starts a turn: the history grows by it and the turn is told.
LEMMA CompleteAsTurnEffect ==
    ASSUME IInv, NEW r \in Request, CompleteAsTurn(r)
    PROVE  \E turn \in Turns, E \in SUBSET Session :
             Grows(r, turn, E) /\ Completes(turn.session, turn.index)
<1>1. PICK s \in Session : s = req[r].session
  BY DEF CompleteAsTurn, IInv, History, SessionsAreKnown
<1> DEFINE history == GetSession(store, s)
<1>2. Sound(store) /\ store \in Stores
  BY SoundStore DEF Sound
<1>3. history \in Seq(Turns) /\ Len(history) \in Nat
  BY <1>2, AnswerExists, LenProperties
<1>4. PICK m \in Model, v \in BOOLEAN :
        LET turn == [session |-> s, index |-> Len(history), steps |-> {r}, model |-> m,
                     violates |-> FALSE]
            st == AppendTurn(store, turn)
        IN  SetStore(Analyzed(st, s, Len(st.turns[s]), v))
  BY <1>1 DEF CompleteAsTurn
<1>5. PICK raw : raw = [session |-> s, index |-> Len(history), steps |-> {r}, model |-> m,
                       violates |-> FALSE]
  OBVIOUS
<1>6. /\ raw \in Turns /\ ~raw.violates /\ raw.session = s
      /\ raw.index = Len(history) /\ raw.steps = {r}
  BY <1>3, <1>5 DEF Turns
<1>7. /\ req[r].phase = "open"
      /\ req' = [req EXCEPT ![r].phase = "closed"]
      /\ Completes(s, raw.index)
  BY <1>1, <1>6 DEF CompleteAsTurn, Publish, Completes
<1>8. ~Aliased(s) => raw.index = Len(store.turns[s])
  BY <1>2, <1>6, OwnAnswer DEF Aliased
<1> HIDE DEF history
<1> DEFINE grown == AppendTurn(store, raw)
           st    == Analyzed(grown, s, Len(grown.turns[s]), v)
           turn  == [raw EXCEPT !.violates = v]
<1>9. PICK E \in SUBSET Session : Grown(store, st, s, turn, E)
  BY <1>2, <1>6, TurnAppended
<1>10. /\ turn \in Turns /\ turn.session = s /\ turn.index = raw.index /\ turn.steps = {r}
  BY <1>6 DEF Turns
<1>11. /\ store' = st
       /\ evicted' = evicted \cup
                UNION {StepsOf(store.turns[x]) : x \in Live(store) \ Live(store')}
  BY <1>4, <1>5, <1>6 DEF SetStore
<1> HIDE DEF st, turn, grown
<1>12. Live(store) \ Live(store') = E
  BY <1>9, <1>11 DEF Grown
<1>13. Grows(r, turn, E)
  BY <1>1, <1>7, <1>8, <1>9, <1>10, <1>11, <1>12 DEF Grows
<1> QED BY <1>7, <1>10, <1>13

\* TURN_COMPLETED of an automatic step: it joins the last turn of the history that answers
\* for its session, and that turn is told.
LEMMA CompleteAsStepEffect ==
    ASSUME IInv, NEW r \in Request, CompleteAsStep(r)
    PROVE  \E x \in Session, turn \in Turns : \E v, p :
             Joins(r, x, turn, v, p) /\ Completes(req[r].session, turn.index)
<1>1. PICK s \in Session : s = req[r].session
  BY DEF CompleteAsStep, IInv, History, SessionsAreKnown
<1>2. store \in Stores
  BY SoundStore DEF Sound
<1>3. PICK x \in Session : x = Answering(store, s) /\ GetSession(store, s) = store.turns[x]
  BY <1>2, AnswerExists
<1> DEFINE history == store.turns[x]
           k == Len(history)
<1>4. history \in Seq(Turns) /\ history # <<>> /\ k \in Nat /\ k \in 1..k
  <2>1. history # <<>>
    BY <1>1, <1>3 DEF CompleteAsStep, Continues
  <2>2. history \in Seq(Turns)
    BY <1>2 DEF Stores
  <2> HIDE DEF history
  <2>3. Len(history) \in Nat /\ Len(history) # 0
    BY <2>1, <2>2, LenProperties, EmptySeq
  <2> QED BY <2>1, <2>2, <2>3
<1>5. PICK last : last = history[k]
  OBVIOUS
<1>6. last \in Turns /\ last.session = x /\ (~Aliased(x) => last.index = k - 1)
  <2>1. last \in Turns
    BY <1>4, <1>5, ElementOfSeq
  <2>2. last.session = x /\ (~Aliased(x) => last.index = k - 1)
    BY <1>4, <1>5 DEF IInv, History, TurnsAreOwned, TurnsAreNumbered
  <2> QED BY <2>1, <2>2
<1>7. PICK turn : turn = Merge(history, r)
  OBVIOUS
<1>8. /\ turn \in Turns
      /\ turn.session = x /\ turn.index = last.index /\ turn.model = last.model
      /\ turn.steps = last.steps \cup {r}
  BY <1>5, <1>6, <1>7 DEF Merge, Turns
<1> DEFINE mutated == [store EXCEPT !.turns[x][k] = turn]
           updated == UpdateTurn(mutated, turn)
<1>9. PICK v \in BOOLEAN : SetStore(Analyzed(updated, x, k, v))
  BY <1>1, <1>3, <1>7, <1>8 DEF CompleteAsStep
<1>10. /\ req[r].phase = "open"
       /\ req' = [req EXCEPT ![r].phase = "closed"]
       /\ Completes(s, turn.index)
  BY <1>1, <1>3, <1>7 DEF CompleteAsStep, Publish, Completes
<1> DEFINE st == Analyzed(updated, x, k, v)
<1>11. x \in Live(store)
  BY <1>4 DEF IInv, History, OnlyStoredHaveTurns
<1>12. PICK p \in 1..k : (turn.index = k - 1 => p = k) /\ Merged(store, st, x, turn, v, p)
  BY <1>2, <1>4, <1>8, <1>11, TurnMerged
<1>13. /\ store' = st
       /\ evicted' = evicted \cup
                UNION {StepsOf(store.turns[y]) : y \in Live(store) \ Live(store')}
  BY <1>9 DEF SetStore
<1> HIDE DEF st, mutated, updated
<1>14. Live(store') = Live(store)
  BY <1>12, <1>13 DEF Merged, Live
<1>15. evicted' = evicted
  <2>1. Live(store) \ Live(store') = {}
    BY <1>14
  <2> QED BY <1>13, <2>1
<1>16. req[r].session = x \/ Aliased(req[r].session)
  BY <1>1, <1>3 DEF Answering, Resolve, Aliased
<1>17. Joins(r, x, turn, v, p)
  BY <1>5, <1>6, <1>8, <1>10, <1>12, <1>13, <1>15, <1>16 DEF Joins
<1> QED BY <1>1, <1>8, <1>10, <1>17

-----------------------------------------------------------------------------
(* The types, and what the interfaces were told. *)

\* A quiet step keeps the types.
LEMMA QuietKeepsTypes ==
    ASSUME IInv, NEW E \in SUBSET Session, Quiet(E),
           granularity' = granularity, notices' \in 0..MaxNotices,
           ui' \in [Session -> [started : SUBSET Nat, completed : SUBSET Nat]]
    PROVE  TypeOK'
<1>1. TypeOK
  BY DEF IInv
<1>2. \A x \in E : StepsOf(store.turns[x]) \subseteq Request
  BY <1>1, StepsOfTurns
<1> QED
  BY <1>1, <1>2 DEF TypeOK, Quiet, Sound

\* A step that adds a turn keeps the types.
LEMMA GrowthKeepsTypes ==
    ASSUME IInv, NEW r \in Request, NEW turn \in Turns, NEW E \in SUBSET Session,
           Grows(r, turn, E), Completes(turn.session, turn.index),
           UNCHANGED <<granularity, notices>>
    PROVE  TypeOK'
<1>1. TypeOK
  BY DEF IInv
<1>2. \A x \in E : StepsOf(store.turns[x]) \subseteq Request
  BY <1>1, StepsOfTurns
<1>3. evicted' \subseteq Request
  BY <1>1, <1>2 DEF TypeOK, Grows
<1>4. req' \in [Request -> RequestStates]
  BY <1>1 DEF TypeOK, Grows, RequestStates
<1>5. ui' \in [Session -> [started : SUBSET Nat, completed : SUBSET Nat]]
  BY <1>1 DEF TypeOK, Completes, Turns
<1>6. store' \in Stores /\ Len(store'.order) <= MaxSessions
  BY DEF Grows, Grown
<1> QED
  BY <1>1, <1>3, <1>4, <1>5, <1>6 DEF TypeOK

\* A step that merges keeps the types.
LEMMA MergeKeepsTypes ==
    ASSUME IInv, NEW r \in Request, NEW x \in Session, NEW turn \in Turns, NEW v, NEW p,
           Joins(r, x, turn, v, p), Completes(req[r].session, turn.index),
           UNCHANGED <<granularity, notices>>
    PROVE  TypeOK'
<1>1. TypeOK
  BY DEF IInv
<1>2. req' \in [Request -> RequestStates]
  BY <1>1 DEF TypeOK, Joins, RequestStates
<1>3. ui' \in [Session -> [started : SUBSET Nat, completed : SUBSET Nat]]
  <2>1. turn.index \in Nat /\ req[r].session \in Session
    BY DEF Turns, Joins, IInv, History, SessionsAreKnown
  <2> QED BY <1>1, <2>1 DEF TypeOK, Completes
<1>4. store' \in Stores /\ store'.order = store.order
  BY DEF Joins, Merged
<1> QED
  BY <1>1, <1>2, <1>3, <1>4 DEF TypeOK, Joins

\* Where the turns of a session are evicted, one of its requests is.
LEMMA EvictionIsSeen ==
    ASSUME IInv, NEW E \in SUBSET Session,
           evicted' = evicted \cup UNION {StepsOf(store.turns[x]) : x \in E},
           \A q \in Request : req[q].phase = "closed" => req'[q].session = req[q].session
    PROVE  \A x \in Session : ~WasEvicted(x)' =>
             ~WasEvicted(x) /\ (x \in E => store.turns[x] = <<>>)
<1>1. TypeOK /\ History
  BY DEF IInv
<1>2. ASSUME NEW x \in Session, WasEvicted(x) PROVE WasEvicted(x)'
  <2>1. PICK q \in evicted : req[q].session = x
    BY <1>2 DEF WasEvicted
  <2>2. req'[q].session = x /\ q \in evicted'
    BY <1>1, <2>1 DEF History, EvictedAreClosed, TypeOK
  <2> QED BY <2>2 DEF WasEvicted
<1>3. ASSUME NEW x \in E, store.turns[x] # <<>> PROVE WasEvicted(x)'
  <2>1. 1 \in 1..Len(store.turns[x])
    BY <1>1, <1>3, LenProperties, EmptySeq DEF TypeOK, Stores
  <2>2. PICK q \in Request : Has(x, 1, q) /\ req[q].session = x
    BY <1>1, <2>1 DEF History, TurnsAreOwned
  <2>3. req'[q].session = x
    BY <1>1, <2>2 DEF History, StepsAreDone
  <2>4. q \in StepsOf(store.turns[x])
    BY <1>1, <2>2, StepsOfTurns
  <2>5. q \in evicted'
    BY <2>4
  <2> QED BY <2>3, <2>5 DEF WasEvicted
<1> QED BY <1>2, <1>3

\* A quiet step keeps what the interfaces were told right.
LEMMA QuietKeepsUi ==
    ASSUME IInv, NEW E \in SUBSET Session, Quiet(E),
           UNCHANGED ui \/ \E s, index : Starts(s, index)
    PROVE  UiAgreesWithStore'
<1>1. /\ TypeOK /\ History /\ UiAgreesWithStore
      /\ \A x \in Session : Len(store.turns[x]) \in Nat
  BY LenProperties DEF IInv, TypeOK, Stores
<1> SUFFICES ASSUME NEW x \in Session, ~Aliased(x)', ~WasEvicted(x)'
             PROVE  /\ \A i \in 1..Len(store'.turns[x]) : store'.turns[x][i].index = i - 1
                    /\ ui'[x].completed =
                          {store'.turns[x][i].index : i \in 1..Len(store'.turns[x])}
                    /\ ui'[x].started \subseteq 0..Len(store'.turns[x])
  BY DEF UiAgreesWithStore
<1>2. ~WasEvicted(x) /\ (x \in E => store.turns[x] = <<>>)
  BY EvictionIsSeen DEF Quiet
<1>3. store'.turns[x] = store.turns[x]
  BY <1>2 DEF Quiet
<1>4. ~Aliased(x)
  BY NoneAssumption DEF Aliased, Quiet
<1>5. /\ \A i \in 1..Len(store.turns[x]) : store.turns[x][i].index = i - 1
      /\ ui[x].completed = {store.turns[x][i].index : i \in 1..Len(store.turns[x])}
      /\ ui[x].started \subseteq 0..Len(store.turns[x])
  BY <1>1, <1>2, <1>4 DEF UiAgreesWithStore
<1>6. ui'[x].completed = ui[x].completed /\ ui'[x].started \subseteq 0..Len(store.turns[x])
  <2>1. CASE UNCHANGED ui
    BY <1>5, <2>1
  <2>2. CASE \E s, index : Starts(s, index)
    <3>1. PICK s, index : Starts(s, index)
      BY <2>2
    <3>2. CASE x = s
      <4>1. index \in 0..Len(store.turns[x])
        BY <1>1, <1>3, <3>1, <3>2 DEF Starts
      <4>2. ui'[x] = [ui[x] EXCEPT !["started"] = @ \cup {index}]
        BY <1>1, <3>1, <3>2 DEF Starts, TypeOK
      <4> QED BY <1>1, <1>5, <4>1, <4>2 DEF TypeOK
    <3>3. CASE x # s
      <4>1. ui'[x] = ui[x]
        BY <1>1, <3>1, <3>3 DEF Starts, TypeOK
      <4> QED BY <1>5, <4>1
    <3> QED BY <3>2, <3>3
  <2> QED BY <2>1, <2>2
<1> QED BY <1>3, <1>5, <1>6

\* A turn that is added is told under its own place.
LEMMA GrowthKeepsUi ==
    ASSUME IInv, NEW r \in Request, NEW turn \in Turns, NEW E \in SUBSET Session,
           Grows(r, turn, E), Completes(turn.session, turn.index)
    PROVE  UiAgreesWithStore'
<1>1. /\ TypeOK /\ History /\ UiAgreesWithStore
      /\ \A x \in Session : store.turns[x] \in Seq(Turns) /\ Len(store.turns[x]) \in Nat
  BY LenProperties DEF IInv, TypeOK, Stores
<1> SUFFICES ASSUME NEW x \in Session, ~Aliased(x)', ~WasEvicted(x)'
             PROVE  /\ \A i \in 1..Len(store'.turns[x]) : store'.turns[x][i].index = i - 1
                    /\ ui'[x].completed =
                          {store'.turns[x][i].index : i \in 1..Len(store'.turns[x])}
                    /\ ui'[x].started \subseteq 0..Len(store'.turns[x])
  BY DEF UiAgreesWithStore
<1>2. ~WasEvicted(x) /\ (x \in E => store.turns[x] = <<>>)
  <2>1. \A q \in Request : req'[q].session = req[q].session
    BY <1>1 DEF Grows, TypeOK, RequestStates
  <2> QED BY <2>1, EvictionIsSeen DEF Grows
<1>3. ~Aliased(x)
  BY DEF Aliased, Grows, Grown
<1>4. /\ \A i \in 1..Len(store.turns[x]) : store.turns[x][i].index = i - 1
      /\ ui[x].completed = {store.turns[x][i].index : i \in 1..Len(store.turns[x])}
      /\ ui[x].started \subseteq 0..Len(store.turns[x])
  BY <1>1, <1>2, <1>3 DEF UiAgreesWithStore
<1>5. turn.session \in Session
  BY DEF Turns
<1>6. CASE x = turn.session
  <2> DEFINE k == Len(store.turns[x]) + 1
  <2>1. store'.turns[x] = Append(store.turns[x], turn)
    BY <1>6 DEF Grows, Grown
  <2>2. /\ Len(store'.turns[x]) = k /\ store'.turns[x][k] = turn /\ k \in Nat
        /\ \A i \in 1..Len(store.turns[x]) : store'.turns[x][i] = store.turns[x][i]
    BY <1>1, <2>1, AppendProperties
  <2>3. turn.index = k - 1
    BY <1>1, <1>3, <1>6 DEF Grows
  <2>4. ui'[x] = [ui[x] EXCEPT !["completed"] = @ \cup {turn.index}]
    BY <1>1, <1>6 DEF Completes, TypeOK
  <2>5. /\ ui'[x].completed = ui[x].completed \cup {turn.index}
        /\ ui'[x].started = ui[x].started
    BY <1>1, <2>4 DEF TypeOK
  <2>6. \A i : i \in 1..k <=> i \in 1..Len(store.turns[x]) \/ i = k
    BY <1>1
  <2>7. {store'.turns[x][i].index : i \in 1..k} =
            {store.turns[x][i].index : i \in 1..Len(store.turns[x])} \cup {turn.index}
    BY <2>2, <2>6
  <2>8. \A i \in 1..k : store'.turns[x][i].index = i - 1
    BY <1>4, <2>2, <2>3, <2>6
  <2>9. 0..Len(store.turns[x]) \subseteq 0..k
    BY <1>1
  <2> QED BY <1>4, <2>2, <2>5, <2>7, <2>8, <2>9
<1>7. CASE x # turn.session
  <2>1. store'.turns[x] = store.turns[x]
    BY <1>2, <1>7 DEF Grows, Grown
  <2>2. ui'[x] = ui[x]
    BY <1>1, <1>7 DEF Completes, TypeOK
  <2> QED BY <1>4, <2>1, <2>2
<1> QED BY <1>6, <1>7

\* A turn that is merged into is told under the place it has.
LEMMA MergeKeepsUi ==
    ASSUME IInv, NEW r \in Request, NEW s \in Session, NEW turn \in Turns, NEW v, NEW p,
           Joins(r, s, turn, v, p), Completes(req[r].session, turn.index), History'
    PROVE  UiAgreesWithStore'
<1>1. /\ TypeOK /\ History /\ UiAgreesWithStore
      /\ \A x \in Session : store.turns[x] \in Seq(Turns) /\ Len(store.turns[x]) \in Nat
  BY LenProperties DEF IInv, TypeOK, Stores
<1> SUFFICES ASSUME NEW x \in Session, ~Aliased(x)', ~WasEvicted(x)'
             PROVE  /\ \A i \in 1..Len(store'.turns[x]) : store'.turns[x][i].index = i - 1
                    /\ ui'[x].completed =
                          {store'.turns[x][i].index : i \in 1..Len(store'.turns[x])}
                    /\ ui'[x].started \subseteq 0..Len(store'.turns[x])
  BY DEF UiAgreesWithStore
<1>2. ~Aliased(x)
  BY DEF Aliased, Joins, Merged
<1>3. ~WasEvicted(x)
  <2>1. \A q \in Request : req'[q].session = req[q].session
    BY <1>1 DEF Joins, TypeOK, RequestStates
  <2>2. evicted' = evicted /\ evicted \subseteq Request
    BY <1>1 DEF Joins, TypeOK
  <2> QED BY <2>1, <2>2 DEF WasEvicted
<1>4. /\ \A i \in 1..Len(store.turns[x]) : store.turns[x][i].index = i - 1
      /\ ui[x].completed = {store.turns[x][i].index : i \in 1..Len(store.turns[x])}
      /\ ui[x].started \subseteq 0..Len(store.turns[x])
  BY <1>1, <1>2, <1>3 DEF UiAgreesWithStore
<1>5. \A i \in 1..Len(store'.turns[x]) : store'.turns[x][i].index = i - 1
  BY DEF History, TurnsAreNumbered
<1>6. Len(store'.turns[x]) = Len(store.turns[x])
  <2>1. CASE x # s
    BY <2>1, <1>1 DEF Joins, Merged, TypeOK, Stores
  <2>2. CASE x = s
    <3>1. DOMAIN store'.turns[x] = 1..Len(store.turns[x]) /\ store'.turns[x] \in Seq(Turns)
      BY <2>2, <1>1 DEF Joins, Merged, TypeOK, Stores
    <3> QED BY <1>1, <3>1, LenProperties
  <2> QED BY <2>1, <2>2
<1>7. {store'.turns[x][i].index : i \in 1..Len(store'.turns[x])} =
          {store.turns[x][i].index : i \in 1..Len(store.turns[x])}
  BY <1>4, <1>5, <1>6
<1>8. ui'[x].completed = ui[x].completed /\ ui'[x].started = ui[x].started
  <2>1. CASE x = req[r].session
    <3>1. x = s
      BY <1>2, <2>1 DEF Joins
    <3>2. turn.index \in ui[x].completed
      <4>1. Len(store.turns[x]) \in 1..Len(store.turns[x])
        BY <1>1, <3>1 DEF Joins
      <4>2. turn.index = store.turns[x][Len(store.turns[x])].index
        BY <3>1 DEF Joins
      <4> QED BY <1>4, <4>1, <4>2
    <3>3. ui'[x] = [ui[x] EXCEPT !["completed"] = @ \cup {turn.index}]
      BY <1>1, <2>1 DEF Completes, TypeOK
    <3> QED BY <1>1, <3>2, <3>3 DEF TypeOK
  <2>2. CASE x # req[r].session
    <3>1. ui'[x] = ui[x]
      BY <1>1, <2>2 DEF Completes, TypeOK
    <3> QED BY <3>1
  <2> QED BY <2>1, <2>2
<1> QED BY <1>4, <1>5, <1>6, <1>7, <1>8

-----------------------------------------------------------------------------
(* The steps. *)

\* What a step of the bridge amounts to.
StepKinds ==
    \/ \E E \in SUBSET Session : Quiet(E) /\ (UNCHANGED ui \/ \E s, index : Starts(s, index))
    \/ /\ UNCHANGED <<granularity, notices>>
       /\ \E r \in Request, turn \in Turns, E \in SUBSET Session :
            Grows(r, turn, E) /\ Completes(turn.session, turn.index)
    \/ /\ UNCHANGED <<granularity, notices>>
       /\ \E r \in Request, x \in Session, turn \in Turns : \E v, p :
            Joins(r, x, turn, v, p) /\ Completes(req[r].session, turn.index)

\* Every handler is quiet, adds one turn, or merges one step into a last turn.
LEMMA StepHasKind ==
    ASSUME IInv, [Next]_vars
    PROVE  /\ StepKinds
           /\ UNCHANGED granularity /\ notices' \in 0..MaxNotices
<1>1. TypeOK /\ store \in Stores
  BY DEF IInv, TypeOK
<1>2. notices \in 0..MaxNotices /\ MaxNotices \in Nat
  BY <1>1, PlaceholderAssumption DEF TypeOK
<1>3. ASSUME NEW r \in Request, Initiate(r)
      PROVE  StepKinds /\ UNCHANGED <<granularity, notices>>
  BY <1>3, InitiateEffect DEF StepKinds, Initiate
<1>4. ASSUME NEW r \in Request, InitiateLost(r)
      PROVE  StepKinds /\ UNCHANGED <<granularity, notices>>
  <2>1. UNCHANGED <<store, granularity, ui, notices, evicted>> /\ req[r].phase # "closed"
    BY <1>4 DEF InitiateLost
  <2>2. PICK q \in RequestStates : /\ q.phase # "closed" /\ q.session \in Session
                                  /\ req' = [req EXCEPT ![r] = q]
    BY <1>4 DEF InitiateLost, RequestStates
  <2>3. ReqsWait
    BY <2>1, <2>2, ReqChanges
  <2>4. Quiet({})
    BY <1>1, <2>1, <2>3, Unevicting
  <2> QED BY <2>1, <2>4 DEF StepKinds
<1>5. ASSUME NEW r \in Request, CompleteAsTurn(r)
      PROVE  StepKinds /\ UNCHANGED <<granularity, notices>>
  BY <1>5, CompleteAsTurnEffect DEF StepKinds, CompleteAsTurn
<1>6. ASSUME NEW r \in Request, CompleteAsStep(r)
      PROVE  StepKinds /\ UNCHANGED <<granularity, notices>>
  BY <1>6, CompleteAsStepEffect DEF StepKinds, CompleteAsStep
<1>7. ASSUME NEW r \in Request, NeverCompleted(r)
      PROVE  StepKinds /\ UNCHANGED <<granularity, notices>>
  <2>1. UNCHANGED <<store, granularity, ui, notices, evicted>> /\ req[r].phase = "open"
    BY <1>7 DEF NeverCompleted
  <2>2. req[r].session \in Session
    BY <2>1 DEF IInv, History, SessionsAreKnown
  <2>3. PICK q : q = [req[r] EXCEPT !.phase = "lost"]
    OBVIOUS
  <2>4. q \in RequestStates /\ q.phase = "lost" /\ q.session = req[r].session
    BY <1>1, <2>3 DEF TypeOK, RequestStates
  <2>5. req' = [req EXCEPT ![r] = q]
    BY <1>7, <2>3 DEF NeverCompleted
  <2>6. ReqsWait
    BY <2>1, <2>2, <2>4, <2>5, ReqChanges
  <2>7. Quiet({})
    BY <1>1, <2>1, <2>6, Unevicting
  <2> QED BY <2>1, <2>7 DEF StepKinds
<1>8. ASSUME NEW s \in Session, Disconnect(s)
      PROVE  StepKinds /\ UNCHANGED granularity /\ notices' \in 0..MaxNotices
  <2> DEFINE st == RegisterSession(store, s, "disconnected")
  <2>1. /\ store' = st
        /\ evicted' = evicted \cup
                UNION {StepsOf(store.turns[x]) : x \in Live(store) \ Live(store')}
        /\ UNCHANGED <<granularity, req, ui>>
        /\ notices' \in 0..MaxNotices
    BY <1>2, <1>8 DEF Disconnect, SetStore
  <2>2. PICK E \in SUBSET Session : Room(store, st, s, E)
    BY SoundStore, SessionRegistered
  <2> HIDE DEF st
  <2>3. ReqsWait
    BY <2>1, ReqsSame
  <2>4. store' \in Stores /\ store'.aliases = store.aliases
    BY <2>1, <2>2 DEF Room
  <2>5. Quiet(E)
    BY <2>1, <2>2, <2>3, <2>4, Refilled
  <2> QED BY <2>1, <2>5 DEF StepKinds
<1>9. ASSUME NEW s \in Session, Export(s)
      PROVE  StepKinds /\ UNCHANGED granularity /\ notices' \in 0..MaxNotices
  <2>1. store' = [store EXCEPT !.exported = @ \cup {s}]
    BY <1>9 DEF Export, SetStore, MarkExported
  <2>2. /\ store' \in Stores /\ store'.order = store.order /\ store'.turns = store.turns
        /\ store'.byModel = store.byModel /\ store'.flagged = store.flagged
        /\ store'.aliases = store.aliases
    BY <1>1, <2>1 DEF Stores
  <2>3. Live(store) \ Live(store') = {}
    BY <2>2 DEF Live
  <2>4. evicted' = evicted
    BY <1>9, <2>3, <2>1 DEF Export, SetStore
  <2>5. ReqsWait
    BY <1>9, ReqsSame DEF Export
  <2>6. Quiet({})
    BY <2>2, <2>4, <2>5, Unevicting
  <2> QED BY <1>2, <1>9, <2>6 DEF StepKinds, Export
<1>10. CASE UNCHANGED vars
  <2>1. UNCHANGED <<store, granularity, req, ui, notices, evicted>>
    BY <1>10 DEF vars
  <2>2. Quiet({})
    BY <1>1, <2>1, ReqsSame, Unevicting
  <2> QED BY <1>2, <2>1, <2>2 DEF StepKinds
<1> DEFINE Goal == /\ StepKinds
                   /\ UNCHANGED granularity /\ notices' \in 0..MaxNotices
<1>11. StepKinds /\ UNCHANGED <<granularity, notices>> => Goal
  BY <1>2
<1>12. \A r \in Request :
        Initiate(r) \/ InitiateLost(r) \/ CompleteAsTurn(r) \/ CompleteAsStep(r)
        \/ NeverCompleted(r) => Goal
  <2> HIDE DEF Goal
  <2> QED BY <1>3, <1>4, <1>5, <1>6, <1>7, <1>11
<1>13. \A s \in Session : Disconnect(s) \/ Export(s) => Goal
  BY <1>8, <1>9
<1> HIDE DEF Goal
<1>14. Goal
  BY <1>10, <1>12, <1>13 DEF Next, Goal
<1> QED BY <1>14 DEF Goal

\* The empty store and the new requests satisfy the invariant.
LEMMA InitIInv == Init => IInv
<1> SUFFICES ASSUME Init PROVE IInv
  OBVIOUS
<1>1. store = EmptyStore /\ evicted = {}
  BY DEF Init
<1>2. EmptyStore \in Stores
  <2>1. <<>> \in Seq(Turns) /\ <<>> \in Seq(Session)
    OBVIOUS
  <2> QED BY <2>1 DEF EmptyStore, Stores
<1>3. /\ store \in Stores /\ store.order = <<>> /\ Live(store) = {}
      /\ \A s \in Session : store.turns[s] = <<>> /\ Len(store.turns[s]) = 0
      /\ \A m \in Model : store.byModel[m] = {}
      /\ store.flagged = {}
      /\ \A s \in Session : store.aliases[s] = None
  BY <1>1, <1>2 DEF EmptyStore, Live, ToSet
<1>4. TypeOK
  <2>1. req \in [Request -> RequestStates]
    BY DEF Init, RequestStates
  <2>2. ui \in [Session -> [started : SUBSET Nat, completed : SUBSET Nat]]
    BY DEF Init
  <2>3. Len(store.order) <= MaxSessions
    BY <1>3, CapacityAssumption
  <2>4. /\ granularity \in {"step", "human"} /\ notices \in 0..MaxNotices
        /\ evicted \subseteq Request
    BY PlaceholderAssumption DEF Init
  <2> QED BY <1>3, <2>1, <2>2, <2>3, <2>4 DEF TypeOK
<1>5. \A s \in Session : \A i, r : ~ Has(s, i, r)
  BY <1>3 DEF Has
<1>6. \A r \in Request : req[r].phase = "new"
  BY DEF Init
<1>7. OrderIsInjective
  BY <1>3 DEF OrderIsInjective, Injective
<1>8. IndexesNameStoredSessions
  BY <1>3 DEF IndexesNameStoredSessions, HasTurnOf
<1>9. TurnsAreOwned /\ TurnsAreNumbered
  BY <1>3 DEF TurnsAreOwned, TurnsAreNumbered
<1>10. StepsAreDone /\ StepsAreApart
  BY <1>5 DEF StepsAreDone, StepsAreApart
<1>11. OnlyStoredHaveTurns /\ OnlyPlaceholderIsAliased
  BY <1>3 DEF OnlyStoredHaveTurns, OnlyPlaceholderIsAliased, Aliased
<1>12. SessionsAreKnown /\ ClosedAreStored /\ EvictedAreClosed
  BY <1>1, <1>6 DEF SessionsAreKnown, ClosedAreStored, EvictedAreClosed
<1>13. UiAgreesWithStore
  <2>1. \A s \in Session : ui[s].started = {} /\ ui[s].completed = {}
    BY DEF Init
  <2> QED BY <1>3, <2>1 DEF UiAgreesWithStore
<1> QED
  BY <1>4, <1>7, <1>8, <1>9, <1>10, <1>11, <1>12, <1>13 DEF IInv, History

\* Every step keeps the invariant.
LEMMA StepKeepsIInv ==
    ASSUME IInv, [Next]_vars
    PROVE  IInv'
<1>1. /\ StepKinds
      /\ UNCHANGED granularity /\ notices' \in 0..MaxNotices
  BY StepHasKind
<1>2. ASSUME NEW E \in SUBSET Session, Quiet(E), UNCHANGED ui \/ \E s, index : Starts(s, index)
      PROVE  IInv'
  <2>1. ui' \in [Session -> [started : SUBSET Nat, completed : SUBSET Nat]]
    BY <1>2 DEF IInv, TypeOK, Starts
  <2>2. History'
    BY <1>2, QuietKeepsHistory
  <2>3. TypeOK'
    BY <1>1, <1>2, <2>1, QuietKeepsTypes
  <2>4. UiAgreesWithStore'
    BY <1>2, QuietKeepsUi
  <2> QED BY <2>2, <2>3, <2>4 DEF IInv
<1>3. ASSUME NEW r \in Request, NEW turn \in Turns, NEW E \in SUBSET Session,
             Grows(r, turn, E), Completes(turn.session, turn.index),
             UNCHANGED <<granularity, notices>>
      PROVE  IInv'
  <2>1. History'
    BY <1>3, GrowthKeepsHistory
  <2>2. TypeOK'
    BY <1>3, GrowthKeepsTypes
  <2>3. UiAgreesWithStore'
    BY <1>3, GrowthKeepsUi
  <2> QED BY <2>1, <2>2, <2>3 DEF IInv
<1>4. ASSUME NEW r \in Request, NEW x \in Session, NEW turn \in Turns, NEW v, NEW p,
             Joins(r, x, turn, v, p), Completes(req[r].session, turn.index),
             UNCHANGED <<granularity, notices>>
      PROVE  IInv'
  <2>1. History'
    BY <1>4, MergeKeepsHistory
  <2>2. TypeOK'
    BY <1>4, MergeKeepsTypes
  <2>3. UiAgreesWithStore'
    BY <1>4, <2>1, MergeKeepsUi
  <2> QED BY <2>1, <2>2, <2>3 DEF IInv
<1> QED BY <1>1, <1>2, <1>3, <1>4 DEF StepKinds

\* The invariant implies that a completed step is held exactly once until it is evicted.
LEMMA StepsCounted == IInv => EveryStepInOneTurn
<1> SUFFICES ASSUME IInv, NEW r \in Request, req[r].phase = "closed", ~Aliased(req[r].session)
             PROVE  Cardinality(Holders(r)) = IF r \in evicted THEN 0 ELSE 1
  BY DEF EveryStepInOneTurn
<1>1. TypeOK /\ History
  BY DEF IInv
<1>2. PICK s \in Session : s = req[r].session
  BY <1>1 DEF History, SessionsAreKnown
<1>3. ~Aliased(s)
  BY <1>2 DEF Aliased
<1>4. \A x \in Session : store.turns[x] \in Seq(Turns) /\ Len(store.turns[x]) \in Nat
                         /\ DOMAIN store.turns[x] = 1..Len(store.turns[x])
  BY <1>1, LenProperties DEF TypeOK, Stores
<1>5. \A h : h \in Holders(r) <=> \E x \in Session, i \in Nat : h = <<x, i>> /\ Has(x, i, r)
  BY <1>4 DEF Holders, Places, Has
<1>6. \A x \in Session, i \in Nat : Has(x, i, r) => r \notin evicted
  BY <1>1 DEF History, StepsAreDone
<1>7. CASE r \in evicted
  <2>1. Holders(r) = {}
    BY <1>5, <1>6, <1>7
  <2> QED BY <1>7, <2>1, FS_EmptySet
<1>8. CASE r \notin evicted
  <2>1. PICK i \in Nat : Has(s, i, r)
    BY <1>1, <1>2, <1>3, <1>8 DEF History, ClosedAreStored
  <2>2. \A x \in Session, j \in Nat : Has(x, j, r) => x = s /\ j = i
    BY <1>1, <1>3, <2>1 DEF History, StepsAreApart
  <2>3. Holders(r) = {<<s, i>>}
    BY <1>5, <2>1, <2>2
  <2> QED BY <1>8, <2>3, FS_Singleton
<1> QED BY <1>7, <1>8

\* What a step may do to the history of session s (HistoryOnlyGrows).
Grew(s) ==
    LET old == store.turns[s]
        new == store'.turns[s]
    IN  s \in Live(store) /\ ~Aliased(s) =>
        \/ new = <<>> /\ (old # <<>> => WasEvicted(s)')
        \/ /\ Len(new) \in Len(old)..(Len(old) + 1)
           /\ \A i \in 1..Len(old) :
                /\ new[i].index = old[i].index
                /\ old[i].steps \subseteq new[i].steps
                /\ old[i].steps # new[i].steps => i = Len(old) /\ Len(new) = Len(old)

\* Every step of the bridge does no more than that.
LEMMA StepOnlyGrows ==
    ASSUME IInv, [Next]_vars, NEW s \in Session
    PROVE  Grew(s)
<1>1. TypeOK /\ History
  BY DEF IInv
<1>2. \A x \in Session : store.turns[x] \in Seq(Turns) /\ Len(store.turns[x]) \in Nat
  BY <1>1, LenProperties DEF TypeOK, Stores
<1>3. ASSUME store'.turns[s] = store.turns[s]
      PROVE  Grew(s)
  BY <1>2, <1>3 DEF Grew
<1>4. ASSUME NEW E \in SUBSET Session, s \in E, store'.turns[s] = <<>>,
             evicted' = evicted \cup UNION {StepsOf(store.turns[x]) : x \in E},
             \A q \in Request : req[q].phase = "closed" => req'[q].session = req[q].session
      PROVE  Grew(s)
  <2>1. ~WasEvicted(s)' => store.turns[s] = <<>>
    BY <1>4, EvictionIsSeen
  <2> QED BY <1>4, <2>1 DEF Grew
<1>5. StepKinds
  BY StepHasKind
<1>6. ASSUME NEW E \in SUBSET Session, Quiet(E)
      PROVE  Grew(s)
  <2>1. store'.turns[s] = IF s \in E THEN <<>> ELSE store.turns[s]
    BY <1>6 DEF Quiet
  <2>2. /\ evicted' = evicted \cup UNION {StepsOf(store.turns[x]) : x \in E}
        /\ \A q \in Request : req[q].phase = "closed" => req'[q].session = req[q].session
    BY <1>6 DEF Quiet
  <2> QED BY <1>3, <1>4, <2>1, <2>2
<1>7. ASSUME NEW r \in Request, NEW turn \in Turns, NEW E \in SUBSET Session,
             Grows(r, turn, E)
      PROVE  Grew(s)
  <2>1. store'.turns[s] = IF s = turn.session THEN Append(store.turns[s], turn)
                          ELSE IF s \in E THEN <<>> ELSE store.turns[s]
    BY <1>7 DEF Grows, Grown
  <2>2. CASE s = turn.session
    <3>1. store'.turns[s] = Append(store.turns[s], turn)
      BY <2>1, <2>2
    <3>2. /\ Len(store'.turns[s]) = Len(store.turns[s]) + 1
          /\ \A i \in 1..Len(store.turns[s]) : store'.turns[s][i] = store.turns[s][i]
      BY <1>2, <1>7, <3>1, AppendProperties DEF Grows
    <3>3. Len(store'.turns[s]) \in Len(store.turns[s])..(Len(store.turns[s]) + 1)
      BY <1>2, <3>2
    <3> QED BY <3>2, <3>3 DEF Grew
  <2>3. CASE s # turn.session
    <3>1. /\ evicted' = evicted \cup UNION {StepsOf(store.turns[x]) : x \in E}
          /\ \A q \in Request : req[q].phase = "closed" => req'[q].session = req[q].session
      BY <1>1, <1>7 DEF Grows, TypeOK, RequestStates
    <3> QED BY <1>3, <1>4, <2>1, <2>3, <3>1
  <2> QED BY <2>2, <2>3
<1>8. ASSUME NEW r \in Request, NEW x \in Session, NEW turn \in Turns, NEW v, NEW p,
             Joins(r, x, turn, v, p)
      PROVE  Grew(s)
  <2>1. store'.turns = [store.turns EXCEPT ![x] = [i \in 1..Len(store.turns[x]) |->
            IF i = Len(store.turns[x]) THEN [turn EXCEPT !.violates = v]
            ELSE IF i = p THEN turn ELSE store.turns[x][i]]]
    BY <1>8 DEF Joins, Merged
  <2>2. CASE s # x
    <3>1. store'.turns[s] = store.turns[s]
      BY <1>1, <2>1, <2>2 DEF TypeOK, Stores
    <3> QED BY <1>3, <3>1
  <2>3. CASE s = x /\ Aliased(s)
    BY <2>3 DEF Grew
  <2>4. CASE s = x /\ ~Aliased(s)
    <3> DEFINE k == Len(store.turns[s])
    <3>1. k \in Nat /\ p = k
      BY <1>2, <1>8, <2>4 DEF Joins
    <3>2. store'.turns[s] = [i \in 1..k |->
            IF i = k THEN [turn EXCEPT !.violates = v] ELSE store.turns[s][i]]
      BY <1>1, <2>1, <2>4, <3>1 DEF TypeOK, Stores
    <3>3. turn.index = store.turns[s][k].index /\ turn.steps = store.turns[s][k].steps \cup {r}
      BY <1>8, <2>4 DEF Joins
    <3>4. [turn EXCEPT !.violates = v].index = turn.index
          /\ [turn EXCEPT !.violates = v].steps = turn.steps
      BY <1>8 DEF Turns
    <3>5. Len(store'.turns[s]) = k
      BY <3>1, <3>2, LenProperties
    <3>6. \A i \in 1..k :
            /\ store'.turns[s][i].index = store.turns[s][i].index
            /\ store.turns[s][i].steps \subseteq store'.turns[s][i].steps
            /\ store.turns[s][i].steps # store'.turns[s][i].steps => i = k
      BY <3>1, <3>2, <3>3, <3>4
    <3> HIDE DEF k
    <3>7. /\ Len(store'.turns[s]) \in k..(k + 1) /\ Len(store'.turns[s]) = k
      BY <3>1, <3>5
    <3> QED BY <3>6, <3>7 DEF Grew, k
  <2> QED BY <2>2, <2>3, <2>4
<1> QED BY <1>5, <1>6, <1>7, <1>8 DEF StepKinds

-----------------------------------------------------------------------------
(* The theorems. *)

\* The inductive invariant holds for every set of sessions, requests and models and every
\* capacity of the store.
THEOREM Invariance == Spec => []IInv
<1>1. Init => IInv
  BY InitIInv
<1>2. IInv /\ [Next]_vars => IInv'
  BY StepKeepsIInv
<1> QED BY <1>1, <1>2, PTL DEF Spec

\* Type correctness, with the bound on the sessions: eviction keeps the store within
\* max_sessions through every handler that may admit one.
THEOREM TypeCorrect == Spec => []TypeOK
<1>1. IInv => TypeOK
  BY DEF IInv
<1> QED BY <1>1, Invariance, PTL

\* The model and violation indexes stay right through evictions, sessions that come back and
\* merged steps: find_sessions_by_model misses no stored session that has a turn of the model.
THEOREM IndexesAreRight == Spec => []IndexesNameStoredSessions
<1>1. IInv => IndexesNameStoredSessions
  BY DEF IInv, History
<1> QED BY <1>1, Invariance, PTL

\* handle_wire_envelope neither loses nor repeats a completed step: until its turn is evicted
\* it is part of exactly one turn, of one session.
THEOREM StepsAreCounted == Spec => []EveryStepInOneTurn
<1>1. IInv => EveryStepInOneTurn
  BY StepsCounted
<1> QED BY <1>1, Invariance, PTL

\* What handle_wire_envelope published of a session is what the store has of it.
THEOREM UiIsTold == Spec => []UiAgreesWithStore
<1>1. IInv => UiAgreesWithStore
  BY DEF IInv
<1> QED BY <1>1, Invariance, PTL

\* The history of a session is append-only, whatever handler runs.
THEOREM HistoriesGrow == Spec => HistoryOnlyGrows
<1>1. IInv /\ [Next]_vars => [\A s \in Session : Grew(s)]_vars
  BY StepOnlyGrows
<1>2. [\A s \in Session : Grew(s)]_vars => [\A s \in Session :
        LET old == store.turns[s]
            new == store'.turns[s]
        IN  s \in Live(store) /\ ~Aliased(s) =>
            \/ new = <<>> /\ (old # <<>> => WasEvicted(s)')
            \/ /\ Len(new) \in Len(old)..(Len(old) + 1)
               /\ \A i \in 1..Len(old) :
                    /\ new[i].index = old[i].index
                    /\ old[i].steps \subseteq new[i].steps
                    /\ old[i].steps # new[i].steps => i = Len(old) /\ Len(new) = Len(old)]_vars
  BY DEF Grew
<1> QED BY <1>1, <1>2, Invariance, PTL DEF Spec, HistoryOnlyGrows
=============================================================================
