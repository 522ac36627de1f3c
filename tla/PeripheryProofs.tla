--------------------------- MODULE PeripheryProofs --------------------------
(***************************************************************************)
(* Theorems about Presentation, Detection and all of Periphery, for every  *)
(* set of sessions, peers, processes and agents, every capacity and time   *)
(* to live, and any number of envelopes.                                   *)
(*                                                                         *)
(* What the interfaces make of an event is nothing to the broadcaster: of  *)
(* its steps only a publication, a subscription, a take and a departure    *)
(* change what a subscriber hears, and the invariant says what each finds. *)
(*                                                                         *)
(* A cached answer is served long after the ports have changed, so the     *)
(* invariant says what an entry was worth when it was made, and compares   *)
(* all it remembers with that moment.  The steps are of two kinds: lookups *)
(* of the proxy, which change answers and entries and nothing else, and    *)
(* moves of the world, which change everything but those.                  *)
(***************************************************************************)
EXTENDS Periphery, DecodingProofs, SequenceTheorems

-----------------------------------------------------------------------------
(* The presentation. *)

(* Sequences of positions in the log. *)

\* Nothing is in order, and holds nothing.
LEMMA OrderOfNothing == InOrder(<<>>) /\ ToSet(<<>>) = {}
BY DEF InOrder, ToSet

\* Taking the first of what is queued changes nothing of what was heard.
LEMMA TakeKeepsHeard ==
    ASSUME NEW g \in Seq(Nat), NEW q \in Seq(Nat), q # <<>>
    PROVE  Append(g, Head(q)) \o Tail(q) = g \o q
<1>1. Len(q) \in Nat \ {0} /\ Head(q) = q[1]
  BY EmptySeq
<1>2. Head(q) \in Nat /\ Tail(q) \in Seq(Nat)
  BY HeadTailProperties
<1>3. q = <<Head(q)>> \o Tail(q)
  <2>1. 1 \in 1..Len(q) /\ Len(q) \in 1..Len(q)
    BY <1>1
  <2>2. SubSeq(q, 1, Len(q)) = <<q[1]>> \o SubSeq(q, 1 + 1, Len(q))
    BY <2>1, SubSeqRecursiveFirst
  <2>3. SubSeq(q, 1, Len(q)) = q /\ Tail(q) = SubSeq(q, 2, Len(q))
    BY SubSeqFull, TailIsSubSeq
  <2> QED BY <1>1, <2>2, <2>3
<1>4. Append(g, Head(q)) = g \o <<Head(q)>>
  BY <1>2, AppendIsConcat
<1>5. <<Head(q)>> \in Seq(Nat)
  BY <1>2
<1>6. (g \o <<Head(q)>>) \o Tail(q) = g \o (<<Head(q)>> \o Tail(q))
  BY <1>2, <1>5, ConcatAssociative
<1> QED BY <1>3, <1>4, <1>6, Zenon

\* What is in a concatenation is in one of its parts.
LEMMA SetOfBoth ==
    ASSUME NEW g \in Seq(Nat), NEW q \in Seq(Nat)
    PROVE  ToSet(g \o q) = ToSet(g) \cup ToSet(q)
<1> DEFINE c == g \o q
<1>1. /\ DOMAIN c = 1..(Len(g) + Len(q)) /\ Len(g) \in Nat /\ Len(q) \in Nat
      /\ DOMAIN g = 1..Len(g) /\ DOMAIN q = 1..Len(q)
      /\ \A i \in 1..(Len(g) + Len(q)) : c[i] = IF i <= Len(g) THEN g[i] ELSE q[i - Len(g)]
  BY ConcatProperties
<1> HIDE DEF c
<1>2. ASSUME NEW x \in ToSet(g) PROVE x \in ToSet(c)
  <2>1. PICK i \in 1..Len(g) : x = g[i]
    BY <1>1 DEF ToSet
  <2>2. i \in DOMAIN c /\ c[i] = x
    BY <1>1, <2>1
  <2> QED BY <2>2 DEF ToSet
<1>3. ASSUME NEW x \in ToSet(q) PROVE x \in ToSet(c)
  <2>1. PICK i \in 1..Len(q) : x = q[i]
    BY <1>1 DEF ToSet
  <2>2. Len(g) + i \in 1..(Len(g) + Len(q)) /\ ~(Len(g) + i <= Len(g)) /\ (Len(g) + i) - Len(g) = i
    BY <1>1
  <2>3. Len(g) + i \in DOMAIN c /\ c[Len(g) + i] = x
    BY <1>1, <2>1, <2>2
  <2> QED BY <2>3 DEF ToSet
<1>4. ASSUME NEW x \in ToSet(c) PROVE x \in ToSet(g) \cup ToSet(q)
  <2>1. PICK i \in DOMAIN c : x = c[i]
    BY DEF ToSet
  <2>2. CASE i <= Len(g)
    BY <1>1, <2>1, <2>2 DEF ToSet
  <2>3. CASE i > Len(g)
    <3>1. i - Len(g) \in 1..Len(q) /\ x = q[i - Len(g)]
      BY <1>1, <2>1, <2>3
    <3> QED BY <1>1, <3>1 DEF ToSet
  <2> QED BY <1>1, <2>2, <2>3
<1>5. ToSet(c) = ToSet(g) \cup ToSet(q)
  BY <1>2, <1>3, <1>4
<1> QED BY <1>5 DEF c

\* Two parts in order are in order together, if the second is newer than the first.
LEMMA OrderOfBoth ==
    ASSUME NEW g \in Seq(Nat), NEW q \in Seq(Nat), InOrder(g), InOrder(q),
           \A x \in ToSet(g), y \in ToSet(q) : x < y
    PROVE  InOrder(g \o q)
<1> DEFINE c == g \o q
<1>1. /\ DOMAIN c = 1..(Len(g) + Len(q)) /\ Len(g) \in Nat /\ Len(q) \in Nat
      /\ DOMAIN g = 1..Len(g) /\ DOMAIN q = 1..Len(q)
      /\ \A i \in 1..(Len(g) + Len(q)) : c[i] = IF i <= Len(g) THEN g[i] ELSE q[i - Len(g)]
  BY ConcatProperties
<1> HIDE DEF c
<1>2. ASSUME NEW i \in DOMAIN c, NEW j \in DOMAIN c, i < j PROVE c[i] < c[j]
  <2>1. CASE j <= Len(g)
    BY <1>1, <1>2, <2>1 DEF InOrder
  <2>2. CASE i <= Len(g) /\ j > Len(g)
    <3>1. c[i] = g[i] /\ i \in DOMAIN g /\ c[j] = q[j - Len(g)] /\ j - Len(g) \in DOMAIN q
      BY <1>1, <2>2
    <3>2. c[i] \in ToSet(g) /\ c[j] \in ToSet(q)
      BY <3>1 DEF ToSet
    <3> QED BY <3>2
  <2>3. CASE i > Len(g)
    <3>1. /\ c[i] = q[i - Len(g)] /\ i - Len(g) \in DOMAIN q
          /\ c[j] = q[j - Len(g)] /\ j - Len(g) \in DOMAIN q
          /\ i - Len(g) < j - Len(g)
      BY <1>1, <1>2, <2>3
    <3> QED BY <3>1 DEF InOrder
  <2> QED BY <1>1, <2>1, <2>2, <2>3
<1>3. InOrder(c)
  BY <1>2 DEF InOrder
<1> QED BY <1>3 DEF c

\* What is put behind what is queued is heard last.
LEMMA HeardLast ==
    ASSUME NEW g \in Seq(Nat), NEW q \in Seq(Nat), NEW n \in Seq(Nat)
    PROVE  (g \o q) \o n = g \o (q \o n)
<1>1. g \o (q \o n) \in Seq(Nat) /\ (g \o q) \o n \in Seq(Nat)
  OBVIOUS
<1>2. Len(g \o (q \o n)) = Len((g \o q) \o n)
  OBVIOUS
<1>3. ASSUME NEW i \in 1..Len((g \o q) \o n)
      PROVE  (g \o (q \o n))[i] = ((g \o q) \o n)[i]
  OBVIOUS
<1> QED BY <1>1, <1>2, <1>3

\* A sequence holds, in order, the positions up to l after b, without those of F.
Hears(s, l, b, F) == InOrder(s) /\ ToSet(s) = {p \in 1..l : p > b /\ p \notin F}

\* Positions l + 1, ... follow in n, and the others up to m become members of F, which is then H.
Continues(n, l, m, F, H) ==
    /\ l + Len(n) <= m
    /\ \A i \in 1..Len(n) : n[i] = l + i
    /\ H = F \cup (l + Len(n) + 1)..m

\* What is heard stays complete when the next positions are put behind it.
LEMMA NextPositions ==
    ASSUME NEW g \in Seq(Nat), NEW q \in Seq(Nat), NEW n \in Seq(Nat),
           NEW l \in Nat, NEW m \in Nat, NEW b \in 0..l, NEW F \in SUBSET (1..l), NEW H,
           Continues(n, l, m, F, H), Hears(g \o q, l, b, F)
    PROVE  Hears(g \o (q \o n), m, b, H)
<1> USE DEF Continues, Hears
<1>1. Len(n) \in Nat /\ DOMAIN n = 1..Len(n)
  OBVIOUS
<1>2. InOrder(n)
  BY <1>1 DEF InOrder
<1>3. ToSet(n) = (l + 1)..(l + Len(n))
  <2>1. ASSUME NEW x \in ToSet(n) PROVE x \in (l + 1)..(l + Len(n))
    BY <1>1 DEF ToSet
  <2>2. ASSUME NEW x \in (l + 1)..(l + Len(n)) PROVE x \in ToSet(n)
    <3>1. x - l \in 1..Len(n) /\ l + (x - l) = x
      BY <1>1
    <3>2. n[x - l] = x
      BY <3>1
    <3> QED BY <1>1, <3>1, <3>2 DEF ToSet
  <2> QED BY <2>1, <2>2
<1>4. \A x \in ToSet(g \o q), y \in ToSet(n) : x < y
  BY <1>1, <1>3
<1>5. PICK h \in Seq(Nat) : h = g \o q
  BY ConcatProperties
<1>6. InOrder(h \o n) /\ ToSet(h \o n) = ToSet(h) \cup ToSet(n)
  <2>1. InOrder(h) /\ \A x \in ToSet(h), y \in ToSet(n) : x < y
    BY <1>4, <1>5
  <2> HIDE DEF Continues, Hears
  <2>2. InOrder(h \o n)
    BY <1>2, <2>1, OrderOfBoth
  <2>3. ToSet(h \o n) = ToSet(h) \cup ToSet(n)
    BY SetOfBoth
  <2> QED BY <2>2, <2>3
<1>7. (g \o q) \o n = g \o (q \o n)
  BY HeardLast
<1>8. ToSet(h \o n) = {p \in 1..m : p > b /\ p \notin H}
  <2>1. ToSet(h \o n) = {p \in 1..l : p > b /\ p \notin F} \cup (l + 1)..(l + Len(n))
    BY <1>3, <1>5, <1>6
  <2> QED BY <1>1, <2>1
<1>9. g \o (q \o n) = h \o n
  BY <1>5, <1>7
<1> QED BY <1>6, <1>8, <1>9

\* One position that is newer than all of them.
LEMMA OneMore ==
    ASSUME NEW h \in Seq(Nat), NEW p \in Nat
    PROVE  /\ Append(h, p) \in Seq(Nat)
           /\ ToSet(Append(h, p)) = ToSet(h) \cup {p}
           /\ InOrder(h) /\ (\A x \in ToSet(h) : x < p) => InOrder(Append(h, p))
<1> DEFINE c == Append(h, p)
<1>1. /\ c \in Seq(Nat) /\ Len(c) = Len(h) + 1 /\ DOMAIN c = 1..(Len(h) + 1)
      /\ \A i \in 1..Len(h) : c[i] = h[i]
      /\ c[Len(h) + 1] = p
  OBVIOUS
<1> HIDE DEF c
<1>2. ToSet(c) = ToSet(h) \cup {p}
  <2>1. ASSUME NEW x \in ToSet(c) PROVE x \in ToSet(h) \cup {p}
    BY <1>1 DEF ToSet
  <2>2. ASSUME NEW x \in ToSet(h) PROVE x \in ToSet(c)
    BY <1>1 DEF ToSet
  <2>3. p \in ToSet(c)
    BY <1>1 DEF ToSet
  <2> QED BY <2>1, <2>2, <2>3
<1>3. ASSUME InOrder(h), \A x \in ToSet(h) : x < p PROVE InOrder(c)
  <2> SUFFICES ASSUME NEW i \in DOMAIN c, NEW j \in DOMAIN c, i < j PROVE c[i] < c[j]
    BY DEF InOrder
  <2>1. i \in 1..Len(h) /\ c[i] = h[i]
    BY <1>1
  <2>2. CASE j \in 1..Len(h)
    BY <1>1, <1>3, <2>1, <2>2 DEF InOrder
  <2>3. CASE j = Len(h) + 1
    BY <1>1, <1>3, <2>1, <2>3 DEF ToSet
  <2> QED BY <1>1, <2>2, <2>3
<1> QED BY <1>1, <1>2, <1>3 DEF c

\* The next one to be taken is newer than those already taken.
LEMMA NextIsNewer ==
    ASSUME NEW g \in Seq(Nat), NEW q \in Seq(Nat), q # <<>>, InOrder(g \o q)
    PROVE  /\ Head(q) \in Nat /\ Head(q) \in ToSet(g \o q)
           /\ \A x \in ToSet(g) : x < Head(q)
<1>1. /\ Len(q) \in Nat \ {0} /\ Head(q) = q[1] /\ q[1] \in Nat
      /\ DOMAIN (g \o q) = 1..(Len(g) + Len(q))
      /\ (g \o q)[Len(g) + 1] = q[1]
      /\ \A i \in 1..Len(g) : (g \o q)[i] = g[i]
  OBVIOUS
<1>2. Len(g) + 1 \in DOMAIN (g \o q)
  BY <1>1
<1>3. ASSUME NEW x \in ToSet(g) PROVE x < Head(q)
  <2>1. PICK i \in 1..Len(g) : x = g[i]
    BY DEF ToSet
  <2>2. i \in DOMAIN (g \o q) /\ i < Len(g) + 1
    BY <1>1, <2>1
  <2>3. (g \o q)[i] < (g \o q)[Len(g) + 1]
    BY <1>2, <2>2 DEF InOrder
  <2> QED BY <1>1, <2>1, <2>3
<1> QED BY <1>1, <1>2, <1>3 DEF ToSet

-----------------------------------------------------------------------------
(* The inductive invariant. *)

TuiPhases == {"off", "made", "mounted", "listening"}
WebPhases == {"away", "connecting", "subscribed", "gone"}

\* Every variable of the channels stays in its type, and no queue outgrows its capacity.
PresentationTypeOK ==
    /\ \E S : log \in Seq(S)
    /\ queue \in [Subscribers -> Seq(Nat) \cup {None}]
    /\ \A r \in Subscribers : queue[r] # None => Len(queue[r]) <= Capacity
    /\ got \in [Subscribers -> Seq(Nat)]
    /\ full \in [Subscribers -> SUBSET (1..Len(log))]
    /\ from \in [Subscribers -> 0..Len(log)]
    /\ tuiPhase \in TuiPhases
    /\ web \in [phase : WebPhases, session : Sessions \cup {None}, sent : Seq(Nat)]

\* Who has a queue, and who has not heard anything yet.
Subscribed ==
    /\ queue["tui"] # None <=> tuiPhase = "listening"
    /\ queue["web"] # None <=> web.phase = "subscribed"
    /\ tuiPhase # "listening" => got["tui"] = <<>>
    /\ web.phase \in {"away", "connecting"} => got["web"] = <<>> /\ web.sent = <<>>

\* The part of the property that is about every subscriber.
Served(r) ==
    queue[r] # None =>
        /\ InOrder(got[r] \o queue[r])
        /\ ToSet(got[r] \o queue[r]) =
                {p \in 1..Len(log) : p > from[r] /\ p \notin full[r]}

\* The part that is about the web client.
Forwarded ==
    queue["web"] # None =>
        /\ InOrder(web.sent)
        /\ ToSet(web.sent) = {p \in ToSet(got["web"]) : Passes(log[p])}

\* The inductive invariant.
PresentationInv ==
    PresentationTypeOK /\ Subscribed /\ Served("tui") /\ Served("web") /\ Forwarded

\* The two parts are the property.
LEMMA PartsAreWhole ==
    Served("tui") /\ Served("web") /\ Forwarded => SubscribersMissOnlyTheirOwn
<1> SUFFICES ASSUME Served("tui"), Served("web"), Forwarded
             PROVE  SubscribersMissOnlyTheirOwn
  OBVIOUS
<1>1. ASSUME NEW r \in Subscribers, queue[r] # None
      PROVE  /\ InOrder(got[r] \o queue[r])
             /\ ToSet(got[r] \o queue[r]) =
                    {p \in 1..Len(log) : p > from[r] /\ p \notin full[r]}
  <2>1. CASE r = "tui"
    BY <1>1, <2>1 DEF Served
  <2>2. CASE r = "web"
    BY <1>1, <2>2 DEF Served
  <2> QED BY <2>1, <2>2 DEF Subscribers
<1>2. ASSUME queue["web"] # None
      PROVE  /\ InOrder(web.sent)
             /\ ToSet(web.sent) = {p \in ToSet(got["web"]) :
                    \/ web.session \in {None, log[p].session}
                    \/ log[p].type \in {"SESSION_CREATED", "SESSION_DISCONNECTED"}}
  BY <1>2 DEF Forwarded, Passes, GLOBAL_EVENT_TYPES
<1> QED BY <1>1, <1>2 DEF SubscribersMissOnlyTheirOwn

\* The invariant holds before anybody looks.
LEMMA InitPresentationInv == InitPresentation \/ NoPresentation => PresentationInv
<1> SUFFICES ASSUME Quiet, audience \subseteq Subscribers PROVE PresentationInv
  BY DEF InitPresentation, NoPresentation
<1> USE DEF Quiet
<1>1. Len(log) = 0 /\ log \in Seq({})
  OBVIOUS
<1>2. /\ queue["tui"] = None /\ queue["web"] = None
      /\ got["tui"] = <<>> /\ got["web"] = <<>>
  BY DEF Subscribers
<1>3. PresentationTypeOK
  <2>1. /\ queue \in [Subscribers -> Seq(Nat) \cup {None}]
        /\ got \in [Subscribers -> Seq(Nat)]
    OBVIOUS
  <2>2. full \in [Subscribers -> SUBSET (1..Len(log))] /\ from \in [Subscribers -> 0..Len(log)]
    BY <1>1
  <2>3. \A r \in Subscribers : queue[r] = None
    OBVIOUS
  <2>4. web \in [phase : WebPhases, session : Sessions \cup {None}, sent : Seq(Nat)]
    BY DEF WebPhases
  <2> QED BY <1>1, <2>1, <2>2, <2>3, <2>4 DEF PresentationTypeOK, TuiPhases
<1>4. Subscribed /\ Served("tui") /\ Served("web") /\ Forwarded
  BY <1>2 DEF Subscribed, Served, Forwarded
<1> QED BY <1>3, <1>4 DEF PresentationInv

-----------------------------------------------------------------------------
(* A publication. *)

\* The handlers of the core publish, and touch no subscriber.
LEMMA HandlersPublish ==
    ASSUME NEW s \in Sessions, NEW human \in BOOLEAN,
           \/ RequestInitiated(s, human)
           \/ \E flagged \in BOOLEAN : TurnCompleted(s, human, flagged)
           \/ SessionDisconnected(s)
    PROVE  /\ \E S : \E events \in Seq(S) : Publish(events)
           /\ UNCHANGED <<tuiPhase, web>>
<1>1. CASE RequestInitiated(s, human)
  <2> DEFINE a == Event("SESSION_CREATED", s, 0, NoTurn, 0)
             b == Event("TURN_STARTED", s, NextIndex(s, human), NoTurn, 0)
             events == (IF turns[s] = <<>> THEN <<a>> ELSE <<>>) \o <<b>>
  <2>1. Publish(events) /\ UNCHANGED <<tuiPhase, web>>
    BY <1>1 DEF RequestInitiated
  <2>2. events \in Seq({a, b})
    <3> HIDE DEF a, b
    <3>1. <<a>> \in Seq({a, b}) /\ <<b>> \in Seq({a, b}) /\ <<>> \in Seq({a, b})
      OBVIOUS
    <3>2. CASE turns[s] = <<>>
      <4>1. events = <<a>> \o <<b>>
        BY <3>2
      <4> QED BY <3>1, <4>1, ConcatProperties
    <3>3. CASE turns[s] # <<>>
      <4>1. events = <<>> \o <<b>>
        BY <3>3
      <4> QED BY <3>1, <4>1, ConcatProperties
    <3> QED BY <3>2, <3>3
  <2> HIDE DEF events
  <2> QED BY <2>1, <2>2
<1>2. CASE \E flagged \in BOOLEAN : TurnCompleted(s, human, flagged)
  <2>1. PICK flagged \in BOOLEAN : TurnCompleted(s, human, flagged)
    BY <1>2
  <2> DEFINE index == NextIndex(s, human)
             new   == index = Len(turns[s])
             turn  == [steps |-> (IF new THEN 0 ELSE turns[s][index + 1].steps) + 1,
                       flagged |-> flagged]
             list  == IF new THEN Append(turns[s], turn)
                      ELSE [turns[s] EXCEPT ![index + 1] = turn]
             a == Event("TURN_COMPLETED", s, index, turn, 0)
             b == Event("VIOLATION_DETECTED", s, index, turn, 0)
             c == Event("SESSION_SUMMARY_UPDATED", s, 0, NoTurn, Total(list))
             events == <<a>> \o (IF flagged THEN <<b>> ELSE <<>>) \o <<c>>
  <2>2. Publish(events) /\ UNCHANGED <<tuiPhase, web>>
    BY <2>1 DEF TurnCompleted
  <2>3. events \in Seq({a, b, c})
    <3> HIDE DEF a, b, c
    <3>1. <<a>> \in Seq({a, b, c}) /\ <<b>> \in Seq({a, b, c}) /\ <<c>> \in Seq({a, b, c})
      OBVIOUS
    <3>2. (IF flagged THEN <<b>> ELSE <<>>) \in Seq({a, b, c})
      <4>1. CASE flagged
        BY <3>1, <4>1
      <4>2. CASE ~flagged
        BY <4>2
      <4> QED BY <4>1, <4>2
    <3> QED BY <3>1, <3>2, ConcatProperties
  <2> HIDE DEF events
  <2> QED BY <2>2, <2>3
<1>3. CASE SessionDisconnected(s)
  <2> DEFINE a == Event("SESSION_DISCONNECTED", s, 0, NoTurn, 0)
  <2>1. Publish(<<a>>) /\ UNCHANGED <<tuiPhase, web>>
    BY <1>3 DEF SessionDisconnected
  <2>2. <<a>> \in Seq({a})
    OBVIOUS
  <2> HIDE DEF a
  <2> QED BY <2>1, <2>2
<1> QED BY <1>1, <1>2, <1>3

\* A publication appends to the log.
LEMMA LogGrows ==
    ASSUME PresentationTypeOK, NEW T, NEW events \in Seq(T), Publish(events)
    PROVE  /\ \E S : log' \in Seq(S)
           /\ Len(log) \in Nat /\ Len(events) \in Nat
           /\ Len(log') = Len(log) + Len(events)
           /\ \A p \in 1..Len(log) : log'[p] = log[p]
<1>1. PICK S : log \in Seq(S)
  BY DEF PresentationTypeOK
<1>2. log \in Seq(S \cup T) /\ events \in Seq(S \cup T)
  BY <1>1, SeqMonotonic
<1>3. log' = log \o events
  BY DEF Publish
<1>4. /\ log \o events \in Seq(S \cup T)
      /\ Len(log \o events) = Len(log) + Len(events)
      /\ \A i \in 1..(Len(log) + Len(events)) : (log \o events)[i] =
            IF i <= Len(log) THEN log[i] ELSE events[i - Len(log)]
  BY <1>2, ConcatProperties
<1>5. Len(log) \in Nat /\ Len(events) \in Nat
  BY <1>2, LenProperties
<1>6. \A p \in 1..Len(log) : log'[p] = log[p]
  BY <1>3, <1>4, <1>5
<1>7. log' \in Seq(S \cup T)
  BY <1>3, <1>4
<1> QED BY <1>3, <1>4, <1>5, <1>6, <1>7

\* What a publication does to a queue: it gets what fits.
LEMMA QueueGrows ==
    ASSUME PresentationTypeOK, NEW T, NEW events \in Seq(T), Publish(events),
           NEW r \in Subscribers, queue[r] # None
    PROVE  \E m \in Nat :
             /\ queue'[r] = queue[r] \o [k \in 1..m |-> Len(log) + k]
             /\ queue'[r] \in Seq(Nat) /\ Len(queue'[r]) <= Capacity
             /\ m <= Len(events)
             /\ full'[r] = full[r] \cup {Len(log) + k : k \in (m + 1)..Len(events)}
<1> DEFINE q == queue[r]
           m == Taken(r, Len(events))
           n == [k \in 1..m |-> Len(log) + k]
           dropped == {k \in 1..Len(events) : Len(q) + k > Capacity}
<1>1. /\ q \in Seq(Nat) /\ Len(q) \in Nat /\ Len(q) <= Capacity
      /\ Len(log) \in Nat /\ Len(events) \in Nat
  BY LogGrows DEF PresentationTypeOK
<1>2. m = IF Len(q) + Len(events) > Capacity THEN Capacity - Len(q) ELSE Len(events)
  BY DEF Taken
<1>3. queue'[r] = q \o n
  BY DEF Publish
<1>4. full'[r] = full[r] \cup {Len(log) + k : k \in dropped}
  BY DEF Publish
<1> HIDE DEF q, m, n, dropped
<1>5. m \in Nat /\ m <= Len(events) /\ Len(q) + m <= Capacity
  BY <1>1, <1>2, PresentationAssumption
<1>6. dropped = (m + 1)..Len(events)
  BY <1>1, <1>2, PresentationAssumption DEF dropped
<1>7. n \in Seq(Nat) /\ Len(n) = m
  BY <1>1, <1>5 DEF n
<1>8. q \o n \in Seq(Nat) /\ Len(q \o n) = Len(q) + m
  BY <1>1, <1>7, ConcatProperties
<1>9. /\ queue'[r] = queue[r] \o [k \in 1..m |-> Len(log) + k]
      /\ queue'[r] \in Seq(Nat) /\ Len(queue'[r]) <= Capacity
      /\ full'[r] = full[r] \cup {Len(log) + k : k \in (m + 1)..Len(events)}
  <2>1. queue'[r] \in Seq(Nat) /\ Len(queue'[r]) <= Capacity
    BY <1>3, <1>5, <1>8
  <2>2. queue'[r] = queue[r] \o [k \in 1..m |-> Len(log) + k]
    BY <1>3 DEF q, n
  <2> QED BY <1>4, <1>6, <2>1, <2>2
<1> QED BY <1>5, <1>9

\* A subscriber that was served is served after a publication.
LEMMA PublicationServes ==
    ASSUME PresentationTypeOK, NEW T, NEW events \in Seq(T), Publish(events),
           NEW r \in Subscribers, Served(r)
    PROVE  Served(r)'
<1> SUFFICES ASSUME queue'[r] # None
             PROVE  /\ InOrder(got'[r] \o queue'[r])
                    /\ ToSet(got'[r] \o queue'[r]) =
                            {p \in 1..Len(log') : p > from'[r] /\ p \notin full'[r]}
  BY DEF Served
<1>1. queue[r] # None
  BY DEF Publish
<1>2. PICK m \in Nat :
        /\ queue'[r] = queue[r] \o [k \in 1..m |-> Len(log) + k]
        /\ m <= Len(events)
        /\ full'[r] = full[r] \cup {Len(log) + k : k \in (m + 1)..Len(events)}
  BY <1>1, QueueGrows
<1>3. got' = got /\ from' = from
  BY DEF Publish
<1>4. PICK g \in Seq(Nat) : g = got[r]
  BY DEF PresentationTypeOK
<1>5. PICK q \in Seq(Nat) : q = queue[r]
  BY <1>1 DEF PresentationTypeOK
<1>6. PICK l \in Nat : l = Len(log)
  BY LogGrows
<1>7. PICK e \in Nat : e = Len(events)
  BY LogGrows
<1>8. Len(log') = l + e
  BY <1>6, <1>7, LogGrows
<1>9. PICK F \in SUBSET (1..l) : F = full[r]
  BY <1>6 DEF PresentationTypeOK
<1>10. PICK b \in 0..l : b = from[r]
  BY <1>6 DEF PresentationTypeOK
<1>11. Hears(g \o q, l, b, F)
  BY <1>1, <1>4, <1>5, <1>6, <1>9, <1>10 DEF Served, Hears
<1>12. PICK n \in Seq(Nat) : n = [k \in 1..m |-> l + k] /\ Len(n) = m
  <2>1. [k \in 1..m |-> l + k] \in Seq(Nat) /\ Len([k \in 1..m |-> l + k]) = m
    OBVIOUS
  <2> QED BY <2>1
<1>13. PICK j \in Nat : j = l + e
  OBVIOUS
<1>14. PICK H : H = full'[r]
  OBVIOUS
<1>15. Continues(n, l, j, F, H)
  <2>1. {l + k : k \in (m + 1)..e} = (l + m + 1)..j
    <3>1. ASSUME NEW p \in (l + m + 1)..j PROVE p \in {l + k : k \in (m + 1)..e}
      <4>1. p - l \in (m + 1)..e /\ p = l + (p - l)
        BY <1>13
      <4> QED BY <4>1
    <3>2. ASSUME NEW k \in (m + 1)..e PROVE l + k \in (l + m + 1)..j
      BY <1>13
    <3> QED BY <3>1, <3>2
  <2>2. H = F \cup (l + m + 1)..j
    BY <1>2, <1>6, <1>7, <1>9, <1>14, <2>1
  <2>3. l + m <= j
    BY <1>2, <1>7, <1>13
  <2> QED BY <1>12, <2>2, <2>3 DEF Continues
<1>16. Hears(g \o (q \o n), j, b, H)
  BY <1>11, <1>15, NextPositions
<1>17. got'[r] \o queue'[r] = g \o (q \o n)
  BY <1>2, <1>3, <1>4, <1>5, <1>6, <1>12
<1> QED BY <1>3, <1>8, <1>10, <1>13, <1>14, <1>16, <1>17 DEF Hears

\* A publication preserves the invariant.
LEMMA PublicationInv ==
    ASSUME PresentationInv, NEW T, NEW events \in Seq(T), Publish(events),
           UNCHANGED <<tuiPhase, web>>
    PROVE  PresentationInv'
<1> USE DEF PresentationInv
<1>1. /\ \E S : log' \in Seq(S)
      /\ Len(log) \in Nat /\ Len(events) \in Nat
      /\ Len(log') = Len(log) + Len(events)
      /\ \A p \in 1..Len(log) : log'[p] = log[p]
  BY LogGrows
<1>2. /\ got' = got /\ from' = from
      /\ queue' \in [Subscribers -> Seq(Nat) \cup {None}]
      /\ \A r \in Subscribers : queue'[r] # None <=> queue[r] # None
      /\ \A r \in Subscribers : queue'[r] # None => Len(queue'[r]) <= Capacity
  <2>1. got' = got /\ from' = from /\ DOMAIN queue' = Subscribers
        /\ queue' = [r \in Subscribers |-> queue'[r]]
    BY DEF Publish
  <2>2. ASSUME NEW r \in Subscribers
        PROVE  /\ queue'[r] \in Seq(Nat) \cup {None}
               /\ queue'[r] # None <=> queue[r] # None
               /\ queue'[r] # None => Len(queue'[r]) <= Capacity
    <3>1. CASE queue[r] = None
      BY <3>1 DEF Publish
    <3>2. CASE queue[r] # None
      <4>1. queue'[r] \in Seq(Nat) /\ Len(queue'[r]) <= Capacity
        BY <3>2, QueueGrows
      <4> QED BY <3>2, <4>1, PresentationAssumption
    <3> QED BY <3>1, <3>2
  <2> QED BY <2>1, <2>2
<1>3. full' \in [Subscribers -> SUBSET (1..Len(log'))]
  <2> DEFINE dropped(r) == {k \in 1..Len(events) : queue[r] # None /\ Len(queue[r]) + k > Capacity}
  <2>1. full' = [r \in Subscribers |-> full[r] \cup {Len(log) + k : k \in dropped(r)}]
    BY DEF Publish
  <2>2. ASSUME NEW r \in Subscribers
        PROVE  full[r] \cup {Len(log) + k : k \in dropped(r)} \subseteq 1..Len(log')
    <3>1. full[r] \subseteq 1..Len(log)
      BY DEF PresentationTypeOK
    <3>2. \A k \in dropped(r) : Len(log) + k \in 1..Len(log')
      BY <1>1
    <3> HIDE DEF dropped
    <3> QED BY <1>1, <3>1, <3>2
  <2> HIDE DEF dropped
  <2> QED BY <2>1, <2>2
<1>4. from \in [Subscribers -> 0..Len(log')]
  <2>1. 0..Len(log) \subseteq 0..Len(log')
    BY <1>1
  <2> QED BY <2>1 DEF PresentationTypeOK
<1>5. PresentationTypeOK'
  BY <1>1, <1>2, <1>3, <1>4 DEF PresentationTypeOK
<1>6. Subscribed'
  BY <1>2 DEF Subscribed, Subscribers
<1>7. Served("tui")' /\ Served("web")'
  BY PublicationServes DEF Subscribers
<1>8. Forwarded'
  <2> SUFFICES ASSUME queue'["web"] # None
               PROVE  /\ InOrder(web.sent)
                      /\ ToSet(web.sent) = {p \in ToSet(got["web"]) : Passes(log[p])'}
    BY <1>2 DEF Forwarded
  <2>1. queue["web"] # None
    BY <1>2 DEF Subscribers
  <2>2. ToSet(got["web"]) \subseteq 1..Len(log)
    <3>1. got["web"] \in Seq(Nat) /\ queue["web"] \in Seq(Nat)
      BY <2>1 DEF PresentationTypeOK, Subscribers
    <3>2. \A x \in ToSet(got["web"]) : x \in ToSet(got["web"] \o queue["web"])
      BY <3>1, SetOfBoth
    <3> QED BY <2>1, <3>2 DEF Served
  <2>3. \A p \in ToSet(got["web"]) : Passes(log[p])' <=> Passes(log[p])
    <3> SUFFICES ASSUME NEW p \in ToSet(got["web"]) PROVE Passes(log[p])' <=> Passes(log[p])
      OBVIOUS
    <3>1. log'[p] = log[p]
      BY <1>1, <2>2
    <3> QED BY <3>1 DEF Passes
  <2> QED BY <2>1, <2>3 DEF Forwarded
<1> QED BY <1>5, <1>6, <1>7, <1>8

-----------------------------------------------------------------------------
(* Subscriptions, takes and departures. *)

\* What the log and the queues of others have in common when they do not change.
LEMMA ServedIfUnchanged ==
    ASSUME NEW r \in Subscribers, Served(r),
           UNCHANGED <<log, got[r], queue[r], from[r], full[r]>>
    PROVE  Served(r)'
BY DEF Served

\* A subscription starts with nothing heard and nothing missed.
LEMMA SubscriptionServes ==
    ASSUME PresentationTypeOK, NEW r \in Subscribers, NEW x \in Subscribers,
           Subscribe(r), got[r] = <<>>, Served(x)
    PROVE  /\ Served(x)'
           /\ queue' \in [Subscribers -> Seq(Nat) \cup {None}]
           /\ \A s \in Subscribers : queue'[s] # None => Len(queue'[s]) <= Capacity
           /\ from' \in [Subscribers -> 0..Len(log)]
           /\ queue'[r] # None /\ \A s \in Subscribers \ {r} : queue'[s] = queue[s]
<1>1. /\ queue' = [queue EXCEPT ![r] = <<>>] /\ from' = [from EXCEPT ![r] = Len(log)]
      /\ log' = log /\ got' = got /\ full' = full
  BY DEF Subscribe
<1>2. Len(log) \in Nat
  <2>1. PICK S : log \in Seq(S)
    BY DEF PresentationTypeOK
  <2> QED BY <2>1, LenProperties
<1>3. queue' \in [Subscribers -> Seq(Nat) \cup {None}] /\ from' \in [Subscribers -> 0..Len(log)]
  <2>1. <<>> \in Seq(Nat) \cup {None} /\ Len(log) \in 0..Len(log)
    BY <1>2
  <2> QED BY <1>1, <2>1 DEF PresentationTypeOK
<1>4. /\ queue'[r] = <<>> /\ from'[r] = Len(log)
      /\ \A s \in Subscribers \ {r} : queue'[s] = queue[s] /\ from'[s] = from[s]
  BY <1>1 DEF PresentationTypeOK
<1>5. <<>> # None
  <2>1. <<>> \in Seq(Nat)
    OBVIOUS
  <2> QED BY <2>1, PresentationAssumption
<1>6. \A s \in Subscribers : queue'[s] # None => Len(queue'[s]) <= Capacity
  <2>1. Len(<<>>) = 0 /\ 0 <= Capacity
    BY PresentationAssumption
  <2>2. \A s \in Subscribers : queue[s] # None => Len(queue[s]) <= Capacity
    BY DEF PresentationTypeOK
  <2>3. Len(queue'[r]) <= Capacity
    BY <1>4, <2>1
  <2> QED BY <1>4, <2>2, <2>3
<1>7. Served(x)'
  <2>1. CASE x = r
    <3>1. got'[x] \o queue'[x] = <<>>
      BY <1>1, <1>4, <2>1
    <3>2. {p \in 1..Len(log') : p > from'[x] /\ p \notin full'[x]} = {}
      BY <1>1, <1>2, <1>4, <2>1
    <3> QED BY <3>1, <3>2, OrderOfNothing DEF Served
  <2>2. CASE x # r
    BY <1>1, <1>4, <2>2, ServedIfUnchanged
  <2> QED BY <2>1, <2>2
<1> QED BY <1>3, <1>4, <1>5, <1>6, <1>7

\* A subscriber takes the next event: it hears no other than before.
LEMMA TakeServes ==
    ASSUME PresentationTypeOK, NEW r \in Subscribers, NEW x \in Subscribers,
           Take(r), queue[r] # None, queue[r] # <<>>, Served(x)
    PROVE  /\ Served(x)'
           /\ queue' \in [Subscribers -> Seq(Nat) \cup {None}]
           /\ \A s \in Subscribers : queue'[s] # None => Len(queue'[s]) <= Capacity
           /\ got' \in [Subscribers -> Seq(Nat)]
           /\ queue'[r] # None
           /\ \A s \in Subscribers \ {r} : queue'[s] = queue[s] /\ got'[s] = got[s]
<1>1. /\ queue' = [queue EXCEPT ![r] = Tail(@)]
      /\ got' = [got EXCEPT ![r] = Append(@, Head(queue[r]))]
      /\ log' = log /\ full' = full /\ from' = from
  BY DEF Take
<1>2. PICK q \in Seq(Nat) : q = queue[r] /\ q # <<>>
  BY DEF PresentationTypeOK
<1>3. PICK g \in Seq(Nat) : g = got[r]
  BY DEF PresentationTypeOK
<1>4. /\ Head(q) \in Nat /\ Tail(q) \in Seq(Nat) /\ Len(Tail(q)) <= Capacity
      /\ Append(g, Head(q)) \in Seq(Nat)
  <2>1. Head(q) \in Nat /\ Tail(q) \in Seq(Nat) /\ Len(Tail(q)) = Len(q) - 1 /\ Len(q) \in Nat
    BY <1>2
  <2>2. Len(q) <= Capacity
    BY <1>2 DEF PresentationTypeOK
  <2> QED BY <2>1, <2>2, PresentationAssumption
<1>5. queue' \in [Subscribers -> Seq(Nat) \cup {None}] /\ got' \in [Subscribers -> Seq(Nat)]
  BY <1>1, <1>2, <1>3, <1>4 DEF PresentationTypeOK
<1>6. /\ queue'[r] = Tail(q) /\ got'[r] = Append(g, Head(q))
      /\ \A s \in Subscribers \ {r} : queue'[s] = queue[s] /\ got'[s] = got[s]
  BY <1>1, <1>2, <1>3 DEF PresentationTypeOK
<1>7. queue'[r] # None
  BY <1>4, <1>6, PresentationAssumption
<1>8. \A s \in Subscribers : queue'[s] # None => Len(queue'[s]) <= Capacity
  BY <1>4, <1>6 DEF PresentationTypeOK
<1>9. Served(x)'
  <2>1. CASE x = r
    <3>1. got'[x] \o queue'[x] = got[x] \o queue[x]
      BY <1>2, <1>3, <1>6, <2>1, TakeKeepsHeard
    <3> QED BY <1>1, <2>1, <3>1 DEF Served
  <2>2. CASE x # r
    BY <1>1, <1>6, <2>2, ServedIfUnchanged
  <2> QED BY <2>1, <2>2
<1> QED BY <1>5, <1>6, <1>7, <1>8, <1>9

\* A step that changes neither a queue nor what was heard.
LEMMA QuietInv ==
    ASSUME PresentationInv, UNCHANGED channelVars,
           \/ UNCHANGED <<tuiPhase, web>>
           \/ tuiPhase # "listening" /\ tuiPhase' \in TuiPhases \ {"listening"} /\ UNCHANGED web
           \/ /\ web.phase = "away" /\ UNCHANGED tuiPhase
              /\ \E filter \in Sessions \cup {None} :
                    web' = [phase |-> "connecting", session |-> filter, sent |-> <<>>]
    PROVE  PresentationInv'
<1> USE DEF PresentationInv, channelVars
<1>1. /\ web' \in [phase : WebPhases, session : Sessions \cup {None}, sent : Seq(Nat)]
      /\ tuiPhase' \in TuiPhases
  <2>1. <<>> \in Seq(Nat) /\ "connecting" \in WebPhases
    BY DEF WebPhases
  <2>2. tuiPhase \in TuiPhases
        /\ web \in [phase : WebPhases, session : Sessions \cup {None}, sent : Seq(Nat)]
    BY DEF PresentationTypeOK
  <2>3. tuiPhase' \in TuiPhases
    BY <2>2
  <2>4. CASE UNCHANGED web
    BY <2>2, <2>3, <2>4
  <2>5. CASE \E filter \in Sessions \cup {None} :
                web' = [phase |-> "connecting", session |-> filter, sent |-> <<>>]
    BY <2>1, <2>3, <2>5
  <2> QED BY <2>4, <2>5
<1>2. PresentationTypeOK'
  BY <1>1 DEF PresentationTypeOK
<1>3. Subscribed'
  BY DEF Subscribed
<1>4. Served("tui")' /\ Served("web")'
  BY DEF Served
<1>5. Forwarded'
  <2>1. CASE UNCHANGED web
    BY <2>1 DEF Forwarded, Passes
  <2>2. CASE web.phase = "away"
    <3>1. queue'["web"] = None
      BY <2>2 DEF Subscribed
    <3> QED BY <3>1 DEF Forwarded
  <2> QED BY <2>1, <2>2
<1> QED BY <1>2, <1>3, <1>4, <1>5

\* The listener subscribes.
LEMMA TuiSubscribesInv == PresentationInv /\ TuiSubscribes => PresentationInv'
<1> SUFFICES ASSUME PresentationInv, TuiSubscribes PROVE PresentationInv'
  OBVIOUS
<1> USE DEF PresentationInv
<1>1. /\ tuiPhase = "mounted" /\ tuiPhase' = "listening" /\ Subscribe("tui") /\ UNCHANGED web
      /\ log' = log /\ got' = got /\ full' = full
  BY DEF TuiSubscribes, Subscribe
<1>2. got["tui"] = <<>> /\ "tui" \in Subscribers /\ "web" \in Subscribers
  BY <1>1 DEF Subscribed, Subscribers
<1>3. /\ queue' \in [Subscribers -> Seq(Nat) \cup {None}]
      /\ \A s \in Subscribers : queue'[s] # None => Len(queue'[s]) <= Capacity
      /\ from' \in [Subscribers -> 0..Len(log)]
      /\ queue'["tui"] # None /\ queue'["web"] = queue["web"]
  BY <1>1, <1>2, SubscriptionServes
<1>4. Served("tui")' /\ Served("web")'
  BY <1>1, <1>2, SubscriptionServes
<1>5. PresentationTypeOK'
  BY <1>1, <1>3 DEF PresentationTypeOK, TuiPhases
<1>6. Subscribed'
  BY <1>1, <1>3 DEF Subscribed
<1>7. Forwarded'
  BY <1>1, <1>3 DEF Forwarded, Passes
<1> QED BY <1>4, <1>5, <1>6, <1>7

\* The client subscribes.
LEMMA WebSubscribesInv == PresentationInv /\ WebSubscribes => PresentationInv'
<1> SUFFICES ASSUME PresentationInv, WebSubscribes PROVE PresentationInv'
  OBVIOUS
<1> USE DEF PresentationInv
<1>1. /\ web.phase = "connecting" /\ web' = [web EXCEPT !.phase = "subscribed"]
      /\ Subscribe("web") /\ UNCHANGED tuiPhase
      /\ log' = log /\ got' = got /\ full' = full
  BY DEF WebSubscribes, Subscribe
<1>2. /\ web' \in [phase : WebPhases, session : Sessions \cup {None}, sent : Seq(Nat)]
      /\ web'.phase = "subscribed" /\ web'.sent = web.sent
  BY <1>1 DEF PresentationTypeOK, WebPhases
<1>3. got["web"] = <<>> /\ web.sent = <<>> /\ "tui" \in Subscribers /\ "web" \in Subscribers
  BY <1>1 DEF Subscribed, Subscribers
<1>4. /\ queue' \in [Subscribers -> Seq(Nat) \cup {None}]
      /\ \A s \in Subscribers : queue'[s] # None => Len(queue'[s]) <= Capacity
      /\ from' \in [Subscribers -> 0..Len(log)]
      /\ queue'["web"] # None /\ queue'["tui"] = queue["tui"]
  BY <1>1, <1>3, SubscriptionServes
<1>5. Served("tui")' /\ Served("web")'
  BY <1>1, <1>3, SubscriptionServes
<1>6. PresentationTypeOK'
  BY <1>1, <1>2, <1>4 DEF PresentationTypeOK
<1>7. Subscribed'
  BY <1>1, <1>2, <1>4 DEF Subscribed
<1>8. Forwarded'
  BY <1>1, <1>2, <1>3, OrderOfNothing DEF Forwarded
<1> QED BY <1>5, <1>6, <1>7, <1>8

\* The listener handles an event.
LEMMA TuiHandlesInv == PresentationInv /\ TuiHandles => PresentationInv'
<1> SUFFICES ASSUME PresentationInv, TuiHandles PROVE PresentationInv'
  OBVIOUS
<1> USE DEF PresentationInv
<1>1. /\ tuiPhase = "listening" /\ queue["tui"] # <<>> /\ Take("tui") /\ UNCHANGED <<tuiPhase, web>>
      /\ log' = log /\ full' = full /\ from' = from
  BY DEF TuiHandles, Take
<1>2. queue["tui"] # None /\ "tui" \in Subscribers /\ "web" \in Subscribers
  BY <1>1 DEF Subscribed, Subscribers
<1>3. /\ queue' \in [Subscribers -> Seq(Nat) \cup {None}]
      /\ \A s \in Subscribers : queue'[s] # None => Len(queue'[s]) <= Capacity
      /\ got' \in [Subscribers -> Seq(Nat)]
      /\ queue'["tui"] # None /\ queue'["web"] = queue["web"] /\ got'["web"] = got["web"]
  BY <1>1, <1>2, TakeServes
<1>4. Served("tui")' /\ Served("web")'
  BY <1>1, <1>2, TakeServes
<1>5. PresentationTypeOK'
  BY <1>1, <1>3 DEF PresentationTypeOK
<1>6. Subscribed'
  BY <1>1, <1>3 DEF Subscribed
<1>7. Forwarded'
  BY <1>1, <1>3 DEF Forwarded, Passes
<1> QED BY <1>4, <1>5, <1>6, <1>7

\* An event is forwarded to the client, or is not for it.
LEMMA WebForwardsInv == PresentationInv /\ WebForwards => PresentationInv'
<1> SUFFICES ASSUME PresentationInv, WebForwards PROVE PresentationInv'
  OBVIOUS
<1> USE DEF PresentationInv
<1>1. /\ web.phase = "subscribed" /\ queue["web"] # <<>> /\ Take("web") /\ UNCHANGED tuiPhase
      /\ log' = log /\ full' = full /\ from' = from
      /\ got' = [got EXCEPT !["web"] = Append(@, Head(queue["web"]))]
  BY DEF WebForwards, Take
<1>2. queue["web"] # None /\ "tui" \in Subscribers /\ "web" \in Subscribers
  BY <1>1 DEF Subscribed, Subscribers
<1>3. /\ queue' \in [Subscribers -> Seq(Nat) \cup {None}]
      /\ \A s \in Subscribers : queue'[s] # None => Len(queue'[s]) <= Capacity
      /\ got' \in [Subscribers -> Seq(Nat)]
      /\ queue'["web"] # None /\ queue'["tui"] = queue["tui"] /\ got'["tui"] = got["tui"]
  BY <1>1, <1>2, TakeServes
<1>4. Served("tui")' /\ Served("web")'
  BY <1>1, <1>2, TakeServes
<1>5. PICK q \in Seq(Nat) : q = queue["web"] /\ q # <<>>
  BY <1>1, <1>2 DEF PresentationTypeOK
<1>6. PICK g \in Seq(Nat) : g = got["web"]
  BY <1>2 DEF PresentationTypeOK
<1>7. PICK p : p = Head(q)
  OBVIOUS
<1>8. PICK sent \in Seq(Nat) : sent = web.sent
  BY DEF PresentationTypeOK
<1>9. p \in Nat /\ \A x \in ToSet(g) : x < p
  BY <1>2, <1>5, <1>6, <1>7, NextIsNewer DEF Served
<1>10. InOrder(sent) /\ ToSet(sent) = {x \in ToSet(g) : Passes(log[x])}
  BY <1>2, <1>6, <1>8 DEF Forwarded
<1>11. ToSet(Append(g, p)) = ToSet(g) \cup {p} /\ got'["web"] = Append(g, p)
  <2>1. ToSet(Append(g, p)) = ToSet(g) \cup {p}
    BY <1>9, OneMore
  <2> QED BY <1>1, <1>2, <1>5, <1>6, <1>7, <2>1 DEF PresentationTypeOK
<1>12. /\ Append(sent, p) \in Seq(Nat) /\ InOrder(Append(sent, p))
       /\ ToSet(Append(sent, p)) = ToSet(sent) \cup {p}
  <2>1. \A x \in ToSet(sent) : x < p
    BY <1>9, <1>10
  <2> QED BY <1>9, <1>10, <2>1, OneMore
<1>13. web' = [web EXCEPT !.sent = IF Passes(log[p]) THEN Append(sent, p) ELSE sent]
  BY <1>5, <1>7, <1>8 DEF WebForwards
<1>14. /\ web' \in [phase : WebPhases, session : Sessions \cup {None}, sent : Seq(Nat)]
       /\ web'.phase = web.phase /\ web'.session = web.session
       /\ web'.sent = IF Passes(log[p]) THEN Append(sent, p) ELSE sent
  BY <1>8, <1>12, <1>13 DEF PresentationTypeOK
<1>15. PresentationTypeOK'
  BY <1>1, <1>3, <1>14 DEF PresentationTypeOK
<1>16. Subscribed'
  BY <1>1, <1>3, <1>14 DEF Subscribed
<1>17. \A x : Passes(log[x])' <=> Passes(log[x])
  BY <1>1, <1>14 DEF Passes
<1>18. InOrder(web'.sent) /\ ToSet(web'.sent) = {x \in ToSet(got'["web"]) : Passes(log[x])}
  <2>1. CASE Passes(log[p])
    BY <1>10, <1>11, <1>12, <1>14, <2>1
  <2>2. CASE ~Passes(log[p])
    BY <1>10, <1>11, <1>14, <2>2
  <2> QED BY <2>1, <2>2
<1>19. Forwarded'
  BY <1>17, <1>18 DEF Forwarded
<1> QED BY <1>4, <1>15, <1>16, <1>19

\* The client leaves.
LEMMA WebLeavesInv == PresentationInv /\ WebLeaves => PresentationInv'
<1> SUFFICES ASSUME PresentationInv, WebLeaves PROVE PresentationInv'
  OBVIOUS
<1> USE DEF PresentationInv
<1>1. /\ web' = [web EXCEPT !.phase = "gone"] /\ queue' = [queue EXCEPT !["web"] = None]
      /\ UNCHANGED <<log, got, full, from, tuiPhase>>
  BY DEF WebLeaves
<1>2. /\ web' \in [phase : WebPhases, session : Sessions \cup {None}, sent : Seq(Nat)]
      /\ web'.phase = "gone"
  BY <1>1 DEF PresentationTypeOK, WebPhases
<1>3. /\ queue' \in [Subscribers -> Seq(Nat) \cup {None}]
      /\ queue'["web"] = None /\ queue'["tui"] = queue["tui"]
  BY <1>1 DEF PresentationTypeOK, Subscribers
<1>4. PresentationTypeOK'
  BY <1>1, <1>2, <1>3 DEF PresentationTypeOK, Subscribers
<1>5. Subscribed'
  BY <1>1, <1>2, <1>3 DEF Subscribed
<1>6. Served("tui")' /\ Served("web")' /\ Forwarded'
  BY <1>1, <1>3 DEF Served, Forwarded
<1> QED BY <1>4, <1>5, <1>6

-----------------------------------------------------------------------------
(* The theorems. *)

\* Every step preserves the invariant.
LEMMA StepInv == PresentationInv /\ [NextPresentation]_presentationVars => PresentationInv'
<1> SUFFICES ASSUME PresentationInv, [NextPresentation]_presentationVars PROVE PresentationInv'
  OBVIOUS
<1>1. ASSUME NEW s \in Sessions, NEW human \in BOOLEAN,
             \/ RequestInitiated(s, human)
             \/ \E flagged \in BOOLEAN : TurnCompleted(s, human, flagged)
             \/ SessionDisconnected(s)
      PROVE  PresentationInv'
  BY <1>1, HandlersPublish, PublicationInv
<1>2. ASSUME NEW s \in Sessions, SessionDisconnected(s) PROVE PresentationInv'
  BY <1>1, <1>2
<1>3. ASSUME NEW s \in Sessions, TuiSwitches(s) PROVE PresentationInv'
  BY <1>3, QuietInv DEF TuiSwitches
<1>4. CASE TuiStarts
  BY <1>4, QuietInv DEF TuiStarts, TuiPhases
<1>5. ASSUME NEW filter \in Sessions \cup {None}, WebConnects(filter) PROVE PresentationInv'
  BY <1>5, QuietInv DEF WebConnects
<1>6. CASE UNCHANGED presentationVars
  BY <1>6, QuietInv DEF presentationVars
<1> QED
  BY <1>1, <1>2, <1>3, <1>4, <1>5, <1>6, TuiSubscribesInv, TuiHandlesInv, WebSubscribesInv,
     WebForwardsInv, WebLeavesInv DEF NextPresentation

\* The inductive invariant holds in every behaviour of broadcaster, terminal and client.
THEOREM PresentationInvariance == SpecPresentation => []PresentationInv
BY InitPresentationInv, StepInv, PTL DEF SpecPresentation

\* PresentationBroadcaster.publish_nowait, _listen_events and _forward_events: a subscriber gets,
\* in order, what was published since it subscribed, but for what found its own queue full; and a
\* client is sent what of this passes its filter.
THEOREM OnlyTheirOwnIsMissed == SpecPresentation => []SubscribersMissOnlyTheirOwn
<1>1. PresentationInv => SubscribersMissOnlyTheirOwn
  BY PartsAreWhole DEF PresentationInv
<1> QED BY <1>1, PresentationInvariance, PTL

-----------------------------------------------------------------------------
(* The detection. *)

USE DetectionAssumption

\* A set of numbers has a least one, and Min finds it: what the choice among lsof's
\* candidates rests on.
LEMMA SmallestOf ==
    ASSUME NEW S, S \subseteq Nat, S # {}
    PROVE  Min(S) \in S /\ \A x \in S : Min(S) <= x
BY LeastOf, Zenon DEF Min

-----------------------------------------------------------------------------
(* The inductive invariant. *)

\* Times, or none.
Times == Nat \cup {None}

\* Every variable stays in its type.
DetectionTypeOK ==
    /\ now \in Nat
    /\ since \in [Peers -> [Processes -> Times]]
    /\ DOMAIN cache = Peers
    /\ lastUse \in [Ports -> [Processes -> Times]]
    /\ lastIdle \in [Ports -> Nat]
    /\ lastFailure \in [Ports -> Times]

\* What is remembered of the ports is no later than now, and no proxy opens one.
Past ==
    /\ \A q \in Peers, p \in Processes :
        since[q][p] # None => since[q][p] <= now /\ KindOf[p] # "proxy"
    /\ \A q \in Peers : cache[q] # None =>
        cache[q].at \in 0..now /\ cache[q].found \in Processes \cup {None}

\* A port that is used is used now, and one that is not is idle now.
UseIsCurrent ==
    \A n \in Ports :
        /\ \A p \in Users(n) : lastUse[n][p] = now
        /\ Users(n) = {} => lastIdle[n] = now

\* Not before t.
NotBefore(t, at) == t # None /\ t >= at

\* The process in a fresh entry used the port when the entry was made or later; if there was
\* none, the port was idle, or lsof failed, when it was made or later.
EntriesWereRight ==
    \A q \in Peers : Fresh(q) =>
        IF cache[q].found # None
        THEN NotBefore(lastUse[q.port][cache[q].found], cache[q].at)
        ELSE \/ NotBefore(lastIdle[q.port], cache[q].at)
             \/ NotBefore(lastFailure[q.port], cache[q].at)

\* The process is the known agent of a peer since before at, lsof has not failed from then
\* on, and no other known agent used the port number.
Unrivalled(q, p, at) ==
    /\ KindOf[p] \in Agents
    /\ since[q][p] # None /\ since[q][p] < at
    /\ ~NotBefore(lastFailure[q.port], at)
    /\ \A r \in Processes \ {p} :
        KindOf[r] \in Agents => ~NotBefore(lastUse[q.port][r], at)

\* A fresh entry names the known agent that was alone when it was made.
EntriesKnowAgents ==
    \A q \in Peers : Fresh(q) =>
        \A p \in Processes : Unrivalled(q, p, cache[q].at) => cache[q].found = p

\* The inductive invariant.
DetectionInv ==
    /\ DetectionTypeOK /\ Past /\ UseIsCurrent /\ EntriesWereRight /\ EntriesKnowAgents
    /\ LookupsAreRecent /\ KeptConnectionsAreRecognized

\* The invariant holds before the first connection.
LEMMA InitDetectionInv == InitDetection => DetectionInv
<1> SUFFICES ASSUME InitDetection PROVE DetectionInv
  OBVIOUS
<1>1. DetectionTypeOK
  BY DEF InitDetection, Untouched, DetectionTypeOK, Times
<1>2. Past /\ EntriesWereRight /\ EntriesKnowAgents
  BY DEF InitDetection, Untouched, Past, EntriesWereRight, EntriesKnowAgents, Fresh
<1>3. \A n \in Ports : Users(n) = {}
  BY DEF InitDetection, Untouched, Users
<1>4. UseIsCurrent
  BY <1>3 DEF InitDetection, Untouched, UseIsCurrent
<1>5. LookupsAreRecent /\ KeptConnectionsAreRecognized
  BY DEF InitDetection, Untouched, LookupsAreRecent, KeptConnectionsAreRecognized
<1> QED BY <1>1, <1>2, <1>4, <1>5 DEF DetectionInv

-----------------------------------------------------------------------------
(* Lookups. *)

\* The port of a peer is one of the ports.
LEMMA PortOfPeer == \A q \in Peers : q.port \in Ports
BY DEF Ports

\* What lsof answers: a process that uses the port, or none if there is none, and the known
\* agent if exactly one of its users is one.
LEMMA LsofAnswers ==
    ASSUME DetectionInv, NEW n \in Ports
    PROVE  /\ ViaLsof(n) \in Users(n) \cup {None}
           /\ ViaLsof(n) = None => Users(n) = {}
           /\ \A p \in Users(n) :
                KindOf[p] \in Agents /\ (\A r \in Users(n) \ {p} : KindOf[r] \notin Agents)
                    => ViaLsof(n) = p
<1> DEFINE known == {p \in Users(n) : KindOf[p] \in Agents}
<1>1. Users(n) \subseteq Nat /\ (Users(n) \cup Proxies) \ Proxies = Users(n)
  BY DEF DetectionInv, Past, Users, Proxies
<1>2. ViaLsof(n) = IF known # {} THEN Min(known) ELSE FirstOf(Users(n))
  BY <1>1 DEF ViaLsof, Preferred
<1>3. known # {} => Min(known) \in known
  BY <1>1, SmallestOf
<1>4. Users(n) # {} => Min(Users(n)) \in Users(n)
  BY <1>1, SmallestOf
<1>5. FirstOf(Users(n)) = IF Users(n) = {} THEN None ELSE Min(Users(n))
  BY DEF FirstOf
<1>6. \A p \in Users(n) : p # None
  BY <1>1
<1>7. ASSUME NEW p \in Users(n), KindOf[p] \in Agents,
             \A r \in Users(n) \ {p} : KindOf[r] \notin Agents
      PROVE  ViaLsof(n) = p
  <2>1. known = {p}
    BY <1>7
  <2> HIDE DEF known
  <2> QED BY <1>2, <1>3, <2>1
<1> HIDE DEF known
<1>8. known \subseteq Users(n)
  BY DEF known
<1> QED BY <1>2, <1>3, <1>4, <1>5, <1>6, <1>7, <1>8

\* An identification whose process is a known agent names it.
LEMMA AgentIsNamed ==
    ASSUME NEW q, NEW found, NEW header, Identified(q, found, header)
    PROVE  /\ answer'.peer = q /\ answer'.found = found /\ answer'.pid = found
           /\ found # None /\ KindOf[found] \in Agents => answer'.name = KindOf[found]
BY DEF Identified, Identity

\* What a lookup leaves alone.
Still == UNCHANGED <<now, since, lastUse, lastIdle>>

\* A lookup leaves the users of each port alone.
LEMMA StillUsers ==
    ASSUME Still
    PROVE  \A n : Users(n)' = Users(n)
BY DEF Still, Users

\* An answer that would be right if it were cached now is right.
LEMMA RightNow ==
    ASSUME DetectionInv, Still, NEW q \in Peers, NEW found \in Processes \cup {None},
           NEW at \in 0..now,
           lastFailure' \in [Ports -> Times],
           now < at + CacheTTL,
           answer'.peer = q, answer'.found = found, answer'.pid = found,
           found # None /\ KindOf[found] \in Agents => answer'.name = KindOf[found],
           IF found # None
           THEN NotBefore(lastUse[q.port][found], at)
           ELSE NotBefore(lastIdle[q.port], at) \/ NotBefore(lastFailure'[q.port], at),
           \A p \in Processes : Unrivalled(q, p, at)' => found = p
    PROVE  LookupsAreRecent' /\ KeptConnectionsAreRecognized'
<1> USE DEF DetectionInv
<1>1. now \in Nat /\ CacheTTL \in Nat /\ now' = now /\ q.port \in Ports
  BY PortOfPeer DEF DetectionTypeOK, Still
<1>2. \A t \in Times : NotBefore(t, at) => Recently(t)'
  BY <1>1 DEF NotBefore, Recently, Times
<1>3. /\ lastIdle[q.port] \in Times /\ lastFailure'[q.port] \in Times
      /\ \A p \in Processes : lastUse[q.port][p] \in Times /\ since[q][p] \in Times
  BY <1>1 DEF DetectionTypeOK, Times
<1>4. LookupsAreRecent'
  <2>1. CASE found # None
    <3>1. Recently(lastUse[q.port][found])'
      BY <1>2, <1>3, <2>1 DEF Still, Recently
    <3> QED BY <2>1, <3>1 DEF LookupsAreRecent, Still
  <2>2. CASE found = None
    <3>1. Recently(lastIdle[q.port])' \/ Recently(lastFailure[q.port])'
      BY <1>2, <1>3, <2>2 DEF Still, Recently
    <3> QED BY <2>2, <3>1 DEF LookupsAreRecent, Still
  <2> QED BY <2>1, <2>2
<1>5. ASSUME NEW p \in Processes, KindOf[p] \in Agents,
             since'[q][p] # None, since'[q][p] + CacheTTL <= now',
             ~Recently(lastFailure[q.port])',
             \A r \in Processes \ {p} : KindOf[r] \in Agents => ~Recently(lastUse[q.port][r])'
      PROVE  found = p
  <2>1. since'[q][p] < at
    BY <1>1, <1>3, <1>5 DEF Still, Times
  <2>2. ~NotBefore(lastFailure'[q.port], at)
    BY <1>2, <1>3, <1>5 DEF Recently
  <2>3. \A r \in Processes \ {p} : KindOf[r] \in Agents => ~NotBefore(lastUse'[q.port][r], at)
    BY <1>2, <1>3, <1>5 DEF Still, Recently
  <2>4. Unrivalled(q, p, at)'
    BY <1>5, <2>1, <2>2, <2>3 DEF Unrivalled, NotBefore
  <2> QED BY <2>4
<1>6. KeptConnectionsAreRecognized'
  <2> SUFFICES ASSUME NEW p \in Processes, KindOf[p] \in Agents,
                 since'[q][p] # None, since'[q][p] + CacheTTL <= now',
                 ~Recently(lastFailure[q.port])',
                 \A r \in Processes \ {p} : KindOf[r] \in Agents => ~Recently(lastUse[q.port][r])'
               PROVE  answer'.name = KindOf[p] /\ answer'.pid = p
    BY DEF KeptConnectionsAreRecognized, Recently
  <2>1. found = p
    BY <1>5
  <2>2. p # None
    BY DEF Processes
  <2> QED BY <2>1, <2>2
<1> QED BY <1>4, <1>6

\* An answer from the cache is as right as the entry was when it was made.
LEMMA CachedKeepsInv ==
    ASSUME DetectionInv, NEW q \in Peers, NEW header, IdentifyCached(q, header)
    PROVE  DetectionInv'
<1> USE DEF DetectionInv
<1>1. Still /\ UNCHANGED <<cache, lastFailure>> /\ Fresh(q)
      /\ Identified(q, cache[q].found, header)
  BY DEF IdentifyCached, Still
<1>2. DetectionTypeOK' /\ Past'
  BY <1>1 DEF DetectionTypeOK, Past, Still
<1>3. UseIsCurrent'
  BY <1>1, StillUsers DEF UseIsCurrent, Still
<1>4. EntriesWereRight' /\ EntriesKnowAgents'
  BY <1>1 DEF EntriesWereRight, EntriesKnowAgents, Unrivalled, Still, Fresh
<1>5. /\ cache[q].at \in 0..now /\ cache[q].found \in Processes \cup {None}
      /\ now < cache[q].at + CacheTTL
  BY <1>1 DEF Past, Fresh, DetectionTypeOK
<1>6. PICK at \in 0..now, found \in Processes \cup {None} :
        at = cache[q].at /\ found = cache[q].found
  BY <1>5
<1>7. Identified(q, found, header) /\ now < at + CacheTTL
  BY <1>1, <1>5, <1>6
<1>8. \A p \in Processes : Unrivalled(q, p, at)' => found = p
  BY <1>1, <1>6 DEF EntriesKnowAgents, Unrivalled, Still
<1>9. IF found # None
      THEN NotBefore(lastUse[q.port][found], at)
      ELSE NotBefore(lastIdle[q.port], at) \/ NotBefore(lastFailure'[q.port], at)
  BY <1>1, <1>6 DEF EntriesWereRight
<1>10. lastFailure' \in [Ports -> Times]
  BY <1>1 DEF DetectionTypeOK
<1>11. /\ answer'.peer = q /\ answer'.found = found /\ answer'.pid = found
       /\ found # None /\ KindOf[found] \in Agents => answer'.name = KindOf[found]
  BY <1>7, AgentIsNamed
<1>12. LookupsAreRecent' /\ KeptConnectionsAreRecognized'
  BY <1>1, <1>7, <1>8, <1>9, <1>10, <1>11, RightNow
<1> QED BY <1>2, <1>3, <1>4, <1>12

\* A lookup that goes out to the system and caches what it found.
LEMMA LookupKeepsInv ==
    ASSUME DetectionInv, Still, NEW q \in Peers, NEW found \in Users(q.port) \cup {None},
           NEW header,
           Identified(q, found, header),
           cache' = [cache EXCEPT ![q] = [at |-> now, found |-> found]],
           \/ UNCHANGED lastFailure /\ found = ViaLsof(q.port)
           \/ lastFailure' = [lastFailure EXCEPT ![q.port] = now]
    PROVE  DetectionInv'
<1> USE DEF DetectionInv
<1>1. q.port \in Ports /\ now \in Nat /\ CacheTTL \in Nat \ {0} /\ now' = now
  BY PortOfPeer DEF DetectionTypeOK, Still
<1>2. DetectionTypeOK'
  BY <1>1 DEF DetectionTypeOK, Still, Times
<1>3. found \in Processes \cup {None}
  BY DEF Users
<1>4. cache'[q] = [at |-> now, found |-> found]
      /\ \A x \in Peers \ {q} : cache'[x] = cache[x]
  BY DEF DetectionTypeOK
<1>5. Past'
  BY <1>1, <1>3, <1>4 DEF Past, Still
<1>6. UseIsCurrent'
  BY StillUsers DEF UseIsCurrent, Still
<1>7. lastFailure' \in [Ports -> Times]
      /\ \A n \in Ports : lastFailure'[n] = lastFailure[n] \/ lastFailure'[n] = now
  BY <1>2, <1>1 DEF DetectionTypeOK
<1>8. IF found # None
      THEN NotBefore(lastUse[q.port][found], now)
      ELSE NotBefore(lastIdle[q.port], now) \/ NotBefore(lastFailure'[q.port], now)
  <2>1. CASE found # None
    BY <1>1, <2>1 DEF UseIsCurrent, NotBefore
  <2>2. CASE lastFailure' = [lastFailure EXCEPT ![q.port] = now]
    <3>1. lastFailure'[q.port] = now
      BY <1>1, <2>2 DEF DetectionTypeOK
    <3>2. NotBefore(lastFailure'[q.port], now)
      BY <1>1, <3>1 DEF NotBefore
    <3> QED BY <2>1, <3>2
  <2>3. CASE found = None /\ found = ViaLsof(q.port)
    <3>1. lastIdle[q.port] = now
      BY <1>1, <2>3, LsofAnswers DEF UseIsCurrent
    <3>2. NotBefore(lastIdle[q.port], now)
      BY <1>1, <3>1 DEF NotBefore
    <3> QED BY <2>3, <3>2
  <2> QED BY <2>1, <2>2, <2>3
<1>9. \A p \in Processes : Unrivalled(q, p, now)' => found = p
  <2> SUFFICES ASSUME NEW p \in Processes, Unrivalled(q, p, now)' PROVE found = p
    OBVIOUS
  <2>1. CASE lastFailure' = [lastFailure EXCEPT ![q.port] = now]
    <3>1. lastFailure'[q.port] = now
      BY <1>1, <2>1 DEF DetectionTypeOK
    <3>2. NotBefore(lastFailure'[q.port], now')
      BY <1>1, <3>1 DEF NotBefore
    <3> QED BY <1>1, <3>2 DEF Unrivalled, NotBefore
  <2>2. CASE found = ViaLsof(q.port)
    <3>1. p \in Users(q.port) /\ KindOf[p] \in Agents
      BY DEF Unrivalled, Users, Still
    <3>2. ASSUME NEW r \in Users(q.port) \ {p}, KindOf[r] \in Agents PROVE FALSE
      <4>1. r \in Processes /\ lastUse[q.port][r] = now
        BY <1>1 DEF Users, UseIsCurrent
      <4>2. ~NotBefore(lastUse'[q.port][r], now')
        BY <1>1, <3>2, <4>1 DEF Unrivalled, NotBefore
      <4> QED BY <1>1, <4>1, <4>2 DEF NotBefore, Still
    <3> QED BY <1>1, <2>2, <3>1, <3>2, LsofAnswers
  <2> QED BY <2>1, <2>2
<1>10. PICK at \in 0..now : at = now /\ now < at + CacheTTL
  BY <1>1
<1>11. LookupsAreRecent' /\ KeptConnectionsAreRecognized'
  <2>1. \A p \in Processes : Unrivalled(q, p, at)' => found = p
    BY <1>1, <1>9, <1>10 DEF Unrivalled
  <2>2. IF found # None
        THEN NotBefore(lastUse[q.port][found], at)
        ELSE NotBefore(lastIdle[q.port], at) \/ NotBefore(lastFailure'[q.port], at)
    BY <1>8, <1>10
  <2>3. /\ answer'.peer = q /\ answer'.found = found /\ answer'.pid = found
        /\ found # None /\ KindOf[found] \in Agents => answer'.name = KindOf[found]
    BY AgentIsNamed
  <2> QED BY <1>3, <1>7, <1>10, <2>1, <2>2, <2>3, RightNow
<1>12. \A moment \in Nat, n \in Ports :
        moment <= now /\ NotBefore(lastFailure[n], moment) => NotBefore(lastFailure'[n], moment)
  BY <1>1, <1>7 DEF NotBefore
<1>13. \A x \in Peers \ {q} : Fresh(x)' => Fresh(x) /\ cache[x].at \in Nat /\ cache[x].at <= now
  BY <1>1, <1>4 DEF Fresh, Past
<1>14. EntriesWereRight'
  <2> SUFFICES ASSUME NEW x \in Peers, Fresh(x)'
               PROVE  IF cache'[x].found # None
                      THEN NotBefore(lastUse'[x.port][cache'[x].found], cache'[x].at)
                      ELSE \/ NotBefore(lastIdle'[x.port], cache'[x].at)
                           \/ NotBefore(lastFailure'[x.port], cache'[x].at)
    BY DEF EntriesWereRight, NotBefore
  <2>1. CASE x = q
    BY <1>4, <1>8, <2>1 DEF Still
  <2>2. CASE x # q
    BY <1>4, <1>12, <1>13, <2>2, PortOfPeer DEF EntriesWereRight, Still, Times
  <2> QED BY <2>1, <2>2
<1>15. EntriesKnowAgents'
  <2> SUFFICES ASSUME NEW x \in Peers, Fresh(x)', NEW p \in Processes,
                      Unrivalled(x, p, cache[x].at)'
               PROVE  cache'[x].found = p
    BY DEF EntriesKnowAgents
  <2>1. CASE x = q
    <3>1. cache'[x].at = now /\ cache'[x].found = found
      BY <1>4, <2>1
    <3>2. Unrivalled(q, p, now)'
      BY <1>1, <2>1, <3>1 DEF Unrivalled
    <3> QED BY <1>9, <3>1, <3>2
  <2>2. CASE x # q
    <3>1. cache'[x] = cache[x] /\ x.port \in Ports
      BY <1>4, <2>2, PortOfPeer
    <3>2. Fresh(x) /\ cache[x].at \in Nat /\ cache[x].at <= now
      BY <1>13, <2>2
    <3>3. Unrivalled(x, p, cache[x].at)
      BY <1>12, <3>1, <3>2 DEF Unrivalled, Still, NotBefore, Times
    <3> QED BY <3>1, <3>2, <3>3 DEF EntriesKnowAgents
  <2> QED BY <2>1, <2>2
<1> QED BY <1>2, <1>5, <1>6, <1>11, <1>14, <1>15

-----------------------------------------------------------------------------
(* The world outside the proxy. *)

\* A time that is kept, or clipped.
Kept(new, old) == new = old \/ new = Clip(old)

\* A step of the world outside the proxy: each process is as long at a peer as it was, or has
\* just come, or has gone.
Moves ==
    /\ now' \in {now, now + 1}
    /\ UNCHANGED cache
    /\ answer' = None
    /\ since' \in [Peers -> [Processes -> Times]]
    /\ \A q \in Peers, p \in Processes :
        \/ since'[q][p] = None
        \/ since'[q][p] = now /\ now' = now /\ KindOf[p] # "proxy"
        \/ since[q][p] # None /\ Kept(since'[q][p], since[q][p])
    /\ lastFailure' \in [Ports -> Times]
    /\ \A n \in Ports : Kept(lastFailure'[n], lastFailure[n])
    /\ Remember

\* Clipping does not change what is compared with the time of a fresh entry.
LEMMA ClippingIsHarmless ==
    ASSUME now' \in Nat, NEW at \in Nat, now' < at + CacheTTL,
           NEW old \in Times, NEW new, Kept(new, old)
    PROVE  /\ NotBefore(new, at) <=> NotBefore(old, at)
           /\ new # None <=> old # None
           /\ new # None /\ new < at <=> old # None /\ old < at
           /\ new \in Times
BY DEF Kept, Clip, NotBefore, Times

\* A clipped time is a time, and no later than it was.
LEMMA ClippedIsTime ==
    ASSUME now' \in Nat, NEW old \in Times
    PROVE  /\ Clip(old) \in Times
           /\ Clip(old) = None <=> old = None
           /\ old # None => Clip(old) <= old
           /\ old \in Nat => Clip(old) \in Nat
BY DEF Clip, Times

\* Whatever happens to the ports, the entries were right when they were made.
LEMMA MovesKeepsInv ==
    ASSUME DetectionInv, Moves
    PROVE  DetectionInv'
<1> USE DEF DetectionInv
<1> DEFINE After(n) == {p \in Processes : \E q \in Peers : q.port = n /\ since'[q][p] # None}
<1>1. now \in Nat /\ now' \in Nat /\ now <= now' /\ CacheTTL \in Nat
  BY DEF Moves, DetectionTypeOK
<1>2. /\ lastUse' = [n \in Ports |-> [p \in Processes |->
            IF p \in Users(n) \cup After(n) THEN now' ELSE Clip(lastUse[n][p])]]
      /\ lastIdle' = [n \in Ports |-> IF After(n) = {} THEN now' ELSE Clip(lastIdle[n])]
  BY DEF Moves, Remember
<1>3. \A n \in Ports : Users(n)' = After(n)
  BY DEF Users
<1> HIDE DEF After
<1>4. DetectionTypeOK'
  <2>1. \A n \in Ports, p \in Processes : Clip(lastUse[n][p]) \in Times
    BY <1>1, ClippedIsTime DEF DetectionTypeOK
  <2>2. \A n \in Ports : Clip(lastIdle[n]) \in Nat
    BY <1>1, ClippedIsTime DEF DetectionTypeOK, Times
  <2>3. now' \in Times
    BY <1>1 DEF Times
  <2>4. lastUse' \in [Ports -> [Processes -> Times]]
    BY <1>2, <2>1, <2>3
  <2>5. lastIdle' \in [Ports -> Nat]
    BY <1>1, <1>2, <2>2
  <2> QED BY <1>1, <2>4, <2>5 DEF DetectionTypeOK, Moves
<1>5. Past'
  <2>1. ASSUME NEW q \in Peers, NEW p \in Processes, since'[q][p] # None
        PROVE  since'[q][p] <= now' /\ KindOf[p] # "proxy"
    <3>1. CASE since'[q][p] = now /\ KindOf[p] # "proxy"
      BY <1>1, <3>1
    <3>2. CASE since[q][p] # None /\ Kept(since'[q][p], since[q][p])
      <4>1. since[q][p] \in Nat /\ since[q][p] <= now /\ KindOf[p] # "proxy"
        BY <3>2 DEF DetectionTypeOK, Past, Times
      <4>2. Clip(since[q][p]) <= since[q][p] /\ Clip(since[q][p]) \in Nat
        BY <1>1, <3>2, <4>1, ClippedIsTime DEF Times
      <4> QED BY <1>1, <3>2, <4>1, <4>2 DEF Kept
    <3> QED BY <2>1, <3>1, <3>2 DEF Moves
  <2>2. \A q \in Peers : cache'[q] # None =>
            cache'[q].at \in 0..now' /\ cache'[q].found \in Processes \cup {None}
    BY <1>1 DEF Past, Moves
  <2> QED BY <2>1, <2>2 DEF Past
<1>6. UseIsCurrent'
  BY <1>2, <1>3 DEF UseIsCurrent, Users
<1>7. ASSUME NEW q \in Peers, Fresh(q)'
      PROVE  /\ Fresh(q) /\ cache[q].at \in Nat /\ cache[q].at <= now'
             /\ now' < cache[q].at + CacheTTL /\ cache'[q] = cache[q]
             /\ cache[q].found \in Processes \cup {None}
  BY <1>1, <1>7 DEF Fresh, Moves, Past
<1>8. ASSUME NEW n \in Ports, NEW at \in Nat, at <= now', now' < at + CacheTTL
      PROVE  /\ NotBefore(lastFailure'[n], at) <=> NotBefore(lastFailure[n], at)
             /\ NotBefore(lastIdle[n], at) => NotBefore(lastIdle'[n], at)
             /\ \A p \in Processes :
                    NotBefore(lastUse[n][p], at) => NotBefore(lastUse'[n][p], at)
  <2>1. lastFailure[n] \in Times /\ lastIdle[n] \in Times
        /\ \A p \in Processes : lastUse[n][p] \in Times
    BY DEF DetectionTypeOK, Times
  <2>2. NotBefore(now', at)
    BY <1>1, <1>8 DEF NotBefore
  <2>3. NotBefore(lastFailure'[n], at) <=> NotBefore(lastFailure[n], at)
    BY <1>1, <1>8, <2>1, ClippingIsHarmless DEF Moves
  <2>4. \A old \in Times : NotBefore(Clip(old), at) <=> NotBefore(old, at)
    BY <1>1, <1>8, ClippingIsHarmless DEF Kept
  <2>5. NotBefore(lastIdle[n], at) => NotBefore(lastIdle'[n], at)
    BY <1>2, <2>1, <2>2, <2>4
  <2>6. ASSUME NEW p \in Processes, NotBefore(lastUse[n][p], at)
        PROVE  NotBefore(lastUse'[n][p], at)
    BY <1>2, <2>1, <2>2, <2>4, <2>6
  <2> QED BY <2>3, <2>5, <2>6
<1>9. \A q \in Peers, p \in Processes : since[q][p] \in Times
  BY DEF DetectionTypeOK
<1>10. EntriesWereRight'
  <2> SUFFICES ASSUME NEW q \in Peers, Fresh(q)'
               PROVE  IF cache'[q].found # None
                      THEN NotBefore(lastUse'[q.port][cache'[q].found], cache'[q].at)
                      ELSE \/ NotBefore(lastIdle'[q.port], cache'[q].at)
                           \/ NotBefore(lastFailure'[q.port], cache'[q].at)
    BY DEF EntriesWereRight, NotBefore
  <2> QED BY <1>7, <1>8, PortOfPeer DEF EntriesWereRight
<1>11. EntriesKnowAgents'
  <2> SUFFICES ASSUME NEW q \in Peers, Fresh(q)', NEW p \in Processes,
                      Unrivalled(q, p, cache[q].at)'
               PROVE  cache'[q].found = p
    BY DEF EntriesKnowAgents
  <2>1. PICK at \in Nat : at = cache[q].at
    BY <1>7
  <2>2. /\ KindOf[p] \in Agents
        /\ since'[q][p] # None /\ since'[q][p] < at
        /\ ~NotBefore(lastFailure'[q.port], at)
        /\ \A r \in Processes \ {p} :
            KindOf[r] \in Agents => ~NotBefore(lastUse'[q.port][r], at)
    BY <1>7, <2>1 DEF Unrivalled, NotBefore
  <2>3. at <= now' /\ now' < at + CacheTTL /\ q.port \in Ports
    BY <1>7, <2>1, PortOfPeer
  <2>4. since[q][p] # None /\ since[q][p] < at
    <3>1. ~ (since'[q][p] = now /\ now' = now)
      <4>1. at <= now
        BY <1>7, <2>1 DEF Past, Fresh
      <4> QED BY <1>1, <2>2, <4>1
    <3>2. since[q][p] # None /\ Kept(since'[q][p], since[q][p])
      BY <2>2, <3>1 DEF Moves
    <3>3. since[q][p] \in Times
      BY <1>9
    <3> QED BY <1>1, <2>2, <2>3, <3>2, <3>3, ClippingIsHarmless
  <2>5. Unrivalled(q, p, at)
    BY <1>8, <2>2, <2>3, <2>4 DEF Unrivalled
  <2>6. Unrivalled(q, p, cache[q].at)
    BY <2>1, <2>5
  <2> QED BY <1>7, <2>6 DEF EntriesKnowAgents
<1>12. LookupsAreRecent' /\ KeptConnectionsAreRecognized'
  BY DEF Moves, LookupsAreRecent, KeptConnectionsAreRecognized
<1> QED BY <1>4, <1>5, <1>6, <1>10, <1>11, <1>12

\* Every step is a lookup or a move, and keeps the invariant.
LEMMA StepKeepsInv ==
    ASSUME DetectionInv, [NextDetection]_detectionVars
    PROVE  DetectionInv'
<1>0. DetectionTypeOK
  BY DEF DetectionInv
<1>1. ASSUME NEW q \in Peers, NEW header,
             \/ IdentifyCached(q, header) \/ IdentifyByLsof(q, header)
             \/ IdentifyWithoutLsof(q, header)
      PROVE  DetectionInv'
  <2>1. CASE IdentifyCached(q, header)
    BY <2>1, CachedKeepsInv
  <2>2. CASE IdentifyByLsof(q, header)
    <3>1. PICK found \in Users(q.port) \cup {None} : found = ViaLsof(q.port)
      BY LsofAnswers, PortOfPeer
    <3> QED BY <2>2, <3>1, LookupKeepsInv DEF IdentifyByLsof, Still
  <2>3. CASE IdentifyWithoutLsof(q, header)
    BY <2>3, LookupKeepsInv DEF IdentifyWithoutLsof, ViaProcfs, Still
  <2> QED BY <1>1, <2>1, <2>2, <2>3
<1>2. ASSUME NEW c \in Clients, PortOpens(c.peer, c.users)
      PROVE  Moves
  <2>1. c.peer \in Peers /\ \A p \in c.users : KindOf[p] # "proxy"
    OBVIOUS
  <2>2. since' = [since EXCEPT ![c.peer] =
                    [p \in Processes |-> IF p \in c.users THEN now ELSE None]]
    BY <1>2 DEF PortOpens
  <2>3. since' \in [Peers -> [Processes -> Times]]
    BY <1>0, <2>1, <2>2 DEF DetectionTypeOK, Times
  <2>4. \A q \in Peers, p \in Processes :
            since'[q][p] = IF q = c.peer THEN IF p \in c.users THEN now ELSE None ELSE since[q][p]
    BY <1>0, <2>1, <2>2 DEF DetectionTypeOK
  <2>5. /\ UNCHANGED <<now, cache, lastFailure>> /\ answer' = None /\ Remember
    BY <1>2 DEF PortOpens
  <2> QED BY <1>0, <2>1, <2>3, <2>4, <2>5 DEF Moves, Kept, DetectionTypeOK
<1>3. ASSUME NEW q \in Peers, NEW p \in Processes, PortIsLeft(q, p)
      PROVE  Moves
  <2>1. since' = [since EXCEPT ![q][p] = None]
    BY <1>3 DEF PortIsLeft
  <2>2. since' \in [Peers -> [Processes -> Times]]
    BY <1>0, <2>1 DEF DetectionTypeOK, Times
  <2>3. \A x \in Peers, r \in Processes :
            since'[x][r] = IF x = q /\ r = p THEN None ELSE since[x][r]
    BY <1>0, <2>1 DEF DetectionTypeOK
  <2>4. /\ UNCHANGED <<now, cache, lastFailure>> /\ answer' = None /\ Remember
    BY <1>3 DEF PortIsLeft
  <2> QED BY <1>0, <2>2, <2>3, <2>4 DEF Moves, Kept, DetectionTypeOK
<1>4. ASSUME ClockTicks
      PROVE  Moves
  <2>1. /\ now' = now + 1 /\ answer' = None /\ UNCHANGED cache /\ Remember
        /\ since' = [q \in Peers |-> [p \in Processes |-> Clip(since[q][p])]]
        /\ lastFailure' = [n \in Ports |-> Clip(lastFailure[n])]
    BY <1>4 DEF ClockTicks
  <2>2. now' \in Nat
    BY <1>0, <2>1 DEF DetectionTypeOK
  <2>3. \A q \in Peers, p \in Processes :
            /\ Clip(since[q][p]) \in Times
            /\ Clip(since[q][p]) = None <=> since[q][p] = None
    BY <1>0, <2>2, ClippedIsTime DEF DetectionTypeOK
  <2>4. \A n \in Ports : Clip(lastFailure[n]) \in Times
    BY <1>0, <2>2, ClippedIsTime DEF DetectionTypeOK
  <2>5. since' \in [Peers -> [Processes -> Times]]
        /\ \A q \in Peers, p \in Processes : since'[q][p] = Clip(since[q][p])
    BY <2>1, <2>3
  <2>6. lastFailure' \in [Ports -> Times]
        /\ \A n \in Ports : lastFailure'[n] = Clip(lastFailure[n])
    BY <2>1, <2>4
  <2> QED BY <2>1, <2>3, <2>5, <2>6 DEF Moves, Kept
<1>5. ASSUME UNCHANGED detectionVars
      PROVE  DetectionInv'
  <2>1. UNCHANGED <<now, since, cache, answer, lastUse, lastIdle, lastFailure>>
    BY <1>5 DEF detectionVars
  <2>2. /\ DetectionTypeOK' <=> DetectionTypeOK
        /\ Past' <=> Past
        /\ LookupsAreRecent' <=> LookupsAreRecent
        /\ KeptConnectionsAreRecognized' <=> KeptConnectionsAreRecognized
    BY <2>1 DEF DetectionTypeOK, Past, LookupsAreRecent, KeptConnectionsAreRecognized, Recently
  <2>3. UseIsCurrent' <=> UseIsCurrent
    BY <2>1 DEF UseIsCurrent, Users
  <2>4. EntriesWereRight' <=> EntriesWereRight
    BY <2>1 DEF EntriesWereRight, Fresh, NotBefore
  <2>5. EntriesKnowAgents' <=> EntriesKnowAgents
    BY <2>1 DEF EntriesKnowAgents, Fresh, Unrivalled, NotBefore
  <2> QED BY <2>2, <2>3, <2>4, <2>5 DEF DetectionInv
<1> QED
  BY <1>1, <1>2, <1>3, <1>4, <1>5, MovesKeepsInv DEF NextDetection

-----------------------------------------------------------------------------
(* The theorems. *)

\* The inductive invariant holds for every time to live of the cache.
THEOREM DetectionInvariance == SpecDetection => []DetectionInv
  BY InitDetectionInv, StepKeepsInv, PTL DEF SpecDetection

\* lookup_by_port attributes a port to its old process, or to none, for no longer than the time to
\* live of an entry, however often the entry is served.
THEOREM RecentLookups == SpecDetection => []LookupsAreRecent
<1>1. DetectionInv => LookupsAreRecent
  BY DEF DetectionInv
<1> QED BY <1>1, DetectionInvariance, PTL

\* identify_client recognizes a known agent by its process, if it has kept its connection for the
\* cache's time to live and neither lsof nor the port number misleads.
THEOREM AgentsAreRecognized == SpecDetection => []KeptConnectionsAreRecognized
<1>1. DetectionInv => KeptConnectionsAreRecognized
  BY DEF DetectionInv
<1> QED BY <1>1, DetectionInvariance, PTL

-----------------------------------------------------------------------------
(* The parts side by side. *)

PeripheryInv == FramesInv /\ (DetectionInv \/ NoDetection) /\ PresentationInv

LEMMA PeripheryInitInv == PeripheryInit => PeripheryInv
<1>1. InitDecoding \/ NoDecoding => FramesInv
  BY FramesInit DEF NoDecoding, FramesInv
<1>2. InitDetection => DetectionInv
  BY InitDetectionInv
<1>3. InitPresentation \/ NoPresentation => PresentationInv
  BY InitPresentationInv
<1> QED BY <1>1, <1>2, <1>3 DEF PeripheryInit, PeripheryInv

\* Without a proxy nothing is looked up.
LEMMA DetectionRests ==
    ASSUME NoDetection
    PROVE  /\ LookupsAreRecent /\ KeptConnectionsAreRecognized
           /\ [NextDetection]_detectionVars => NoDetection'
<1>1. LookupsAreRecent /\ KeptConnectionsAreRecognized
  BY DEF NoDetection, Untouched, LookupsAreRecent, KeptConnectionsAreRecognized
<1>2. ~Detecting
  BY DEF NoDetection, Detecting
<1>3. ~NextDetection
  BY <1>2 DEF NextDetection, IdentifyCached, IdentifyByLsof, IdentifyWithoutLsof, PortOpens,
                   PortIsLeft, ClockTicks, Detecting
<1>4. UNCHANGED detectionVars => NoDetection'
  BY DEF NoDetection, Untouched, detectionVars
<1> QED BY <1>1, <1>3, <1>4

LEMMA PeripheryStepInv == PeripheryInv /\ [PeripheryNext]_peripheryVars => PeripheryInv'
<1> SUFFICES ASSUME PeripheryInv, [PeripheryNext]_peripheryVars PROVE PeripheryInv'
  OBVIOUS
<1>1. /\ [NextDecoding]_decodingVars
      /\ [NextDetection]_detectionVars
      /\ [NextPresentation]_presentationVars
  BY Zenon DEF PeripheryNext, peripheryVars
<1>2. FramesInv' /\ PresentationInv'
  BY <1>1, FramesStep, StepInv DEF PeripheryInv
<1>3. DetectionInv' \/ NoDetection'
  BY <1>1, StepKeepsInv, DetectionRests DEF PeripheryInv
<1> QED BY <1>2, <1>3 DEF PeripheryInv

\* Whatever is watched, decoders, detection or presentation: frames reach the core whole, ports are
\* attributed to their recent owners, agents that keep a connection are recognized, and a
\* subscriber misses events on its own account only.
THEOREM PeripheryIsRight ==
    PeripherySpec => [](/\ FramesAreWhole
                        /\ LookupsAreRecent /\ KeptConnectionsAreRecognized
                        /\ SubscribersMissOnlyTheirOwn)
<1>1. PeripheryInv => /\ FramesAreWhole
                      /\ LookupsAreRecent /\ KeptConnectionsAreRecognized
                      /\ SubscribersMissOnlyTheirOwn
  BY FramesInvIsWhole, PartsAreWhole, DetectionRests
  DEF PeripheryInv, DetectionInv, PresentationInv
<1> QED BY <1>1, PeripheryInitInv, PeripheryStepInv, PTL DEF PeripherySpec
=============================================================================
