--------------------------- MODULE AnalysisProofs ---------------------------
(***************************************************************************)
(* Theorems about Analysis, for every choice of prompts, tools, providers  *)
(* and thresholds and every length of a session.                           *)
(*                                                                         *)
(* A record of the lineage is a running count; the property reads the      *)
(* history of the session.  Each step is the first of the next turn or a   *)
(* further one of the last, and the invariant says what the history knows  *)
(* of a block, so that either kind of step preserves it.                   *)
(*                                                                         *)
(* The rest follows what is said: from the agent's conversation to a       *)
(* request on the wire, to the blocks of a turn and to what the rules make *)
(* of it.  A conversation brings results of calls made in it, every part   *)
(* of it arrives, every block but a call of an Anthropic stream has        *)
(* content, and what a reply becomes depends on what was said, not on      *)
(* where, so its blocks are those of the history that brings it back.      *)
(***************************************************************************)
EXTENDS Analysis, SequenceLemmas

-----------------------------------------------------------------------------
(* Streaks. *)

LEMMA GreatestOf ==
    ASSUME NEW n \in Nat, NEW G, G \subseteq -1..(n - 1), -1 \in G
    PROVE  LET m == CHOOSE i \in G : \A j \in G : j <= i
           IN  m \in G /\ \A j \in G : j <= m
<1> DEFINE S == {n - 1 - i : i \in G}
<1>1. S \subseteq Nat /\ S # {}
  OBVIOUS
<1>2. PICK l \in S : \A x \in S : l <= x
  <2> HIDE DEF S
  <2> QED BY <1>1, LeastOf
<1>3. PICK i \in G : l = n - 1 - i
  OBVIOUS
<1>4. ASSUME NEW j \in G PROVE j <= i
  <2>1. n - 1 - j \in S
    OBVIOUS
  <2>2. l <= n - 1 - j
    BY <1>2, <2>1
  <2> QED BY <1>3, <2>2
<1>5. \E m \in G : \A j \in G : j <= m
  BY <1>4
<1> QED BY <1>5, Zenon

LEMMA StreakFacts ==
    ASSUME NEW turns, NEW n \in Nat
    PROVE  /\ Streak(turns, n) \in Nat
           /\ (n = 0 \/ n - 1 \notin turns) => Streak(turns, n) = 0
           /\ (n > 0 /\ n - 1 \in turns) => Streak(turns, n) = Streak(turns, n - 1) + 1
<1> DEFINE G(k) == {-1} \cup (0..(k - 1) \ turns)
           m(k) == CHOOSE i \in G(k) : \A j \in G(k) : j <= i
<1>1. \A k : Streak(turns, k) = k - 1 - m(k)
  BY DEF Streak
<1>2. ASSUME NEW k \in Nat PROVE m(k) \in G(k) /\ \A j \in G(k) : j <= m(k)
  <2>1. G(k) \subseteq -1..(k - 1) /\ -1 \in G(k)
    OBVIOUS
  <2> HIDE DEF G
  <2> QED BY <2>1, GreatestOf
<1>3. m(n) \in -1..(n - 1)
  BY <1>2
<1>4. ASSUME n = 0 \/ n - 1 \notin turns PROVE m(n) = n - 1
  <2>1. n - 1 \in G(n)
    BY <1>4
  <2>2. n - 1 <= m(n)
    BY <1>2, <2>1
  <2> HIDE DEF m, G
  <2> QED BY <1>3, <2>2
<1>5. ASSUME n > 0, n - 1 \in turns PROVE m(n) = m(n - 1)
  <2>1. G(n) = G(n - 1)
    BY <1>5
  <2> HIDE DEF G
  <2> QED BY <2>1
<1>6. ASSUME n > 0 PROVE m(n - 1) \in Int
  <2>1. PICK k \in Nat : k = n - 1
    BY <1>6
  <2>2. m(k) \in G(k) /\ G(k) \subseteq Int
    BY <1>2
  <2> HIDE DEF m, G
  <2> QED BY <2>1, <2>2
<1> HIDE DEF m, G
<1>7. Streak(turns, n) = n - 1 - m(n) /\ Streak(turns, n - 1) = n - 1 - 1 - m(n - 1)
  BY <1>1
<1> QED BY <1>3, <1>4, <1>5, <1>6, <1>7

\* Only the turns before count.
LEMMA StreakBefore ==
    ASSUME NEW turns, NEW others, NEW n \in Nat, \A i \in 0..(n - 1) : i \in turns <=> i \in others
    PROVE  Streak(turns, n) = Streak(others, n)
<1>1. 0..(n - 1) \ turns = 0..(n - 1) \ others
  OBVIOUS
<1> QED BY <1>1 DEF Streak

-----------------------------------------------------------------------------
(* The lineage of one history of steps. *)

Shows(t, k) == k \in Keys(AllBlocks(t))

\* ShownIn and CameBackLate, of any steps.
Turns(ss, k) == {ss[i].index : i \in {j \in DOMAIN ss : Shows(ss[j], k)}}
Late(ss, k) ==
    {i \in Turns(ss, k) :
        /\ i - 1 \notin Turns(ss, k) /\ \E h \in Turns(ss, k) : h < i
        /\ \E j \in DOMAIN ss :
            /\ ss[j].index = i /\ \A n \in 1..(j - 1) : ss[n].index # i
            /\ ~Shows(ss[j], k)}
HashOf(t, k) == FirstWith(AllBlocks(t), k).hash
Unchanged(ss, k, hash) == {i \in Turns(ss, k) : HashOf(ss[i + 1], k) = hash}

IsLineage(rec) ==
    rec = [f \in {"hash", "first", "last", "survived", "seen", "hashes"} |-> rec[f]]

RecordFits(rec, ss, k, granularity) ==
    /\ IsLineage(rec)
    /\ rec.seen = Turns(ss, k)
    /\ rec.first \in rec.seen /\ rec.last \in rec.seen
    /\ \A i \in rec.seen : rec.first <= i /\ i <= rec.last
    /\ Late(ss, k) = {} => rec.survived <= Streak(Turns(ss, k), rec.last)
    /\ granularity = "step" => /\ rec.hash = HashOf(ss[rec.last + 1], k)
                   /\ rec.survived = Streak(Unchanged(ss, k, rec.hash), rec.last)
    /\ rec.survived \in Nat

LineageFits(lineage, ss, granularity) ==
    /\ \A k : k \in DOMAIN lineage <=> Turns(ss, k) # {}
    /\ \A k \in DOMAIN lineage : RecordFits(lineage[k], ss, k, granularity)

OneEach(ss, turns) == Len(ss) = turns /\ \A j \in DOMAIN ss : ss[j].index = j - 1

\* Steps of the first turns, up to the one before this; the last of them has a step, and with
\* a turn per exchange each has just one.
History(ss, turns, granularity) ==
    /\ \E S : ss \in Seq(S)
    /\ turns \in Nat
    /\ \A j \in DOMAIN ss : ss[j].index \in 0..(turns - 1)
    /\ turns > 0 => \E j \in DOMAIN ss : ss[j].index = turns - 1
    /\ granularity = "step" => OneEach(ss, turns)

\* A further step.
Then(ss, t) == Append(ss, t)

LEMMA SurviveRecord ==
    ASSUME NEW old, IsLineage(old), NEW b, NEW x
    PROVE  LET rec == Survive(old, b, x)
           IN  /\ IsLineage(rec) /\ rec.hash = b.hash /\ rec.last = x /\ rec.first = old.first
               /\ rec.seen = old.seen \cup {x}
               /\ rec.survived = IF old.last = x - 1 /\ old.hash = b.hash
                                 THEN old.survived + 1 ELSE 0
BY DEF Survive, IsLineage

LEMMA ShownAgainRecord ==
    ASSUME NEW old, IsLineage(old), NEW b, NEW x
    PROVE  LET rec == ShownAgain(old, b, x)
           IN  /\ IsLineage(rec) /\ rec.survived = old.survived /\ rec.last = x
               /\ rec.first = old.first /\ rec.seen = old.seen \cup {x}
BY DEF ShownAgain, IsLineage

LEMMA Appending ==
    ASSUME NEW ss, \E S : ss \in Seq(S), NEW t
    PROVE  /\ \E S : Then(ss, t) \in Seq(S)
           /\ Len(ss) \in Nat /\ DOMAIN ss = 1..Len(ss)
           /\ Len(Then(ss, t)) = Len(ss) + 1 /\ DOMAIN Then(ss, t) = 1..(Len(ss) + 1)
           /\ Then(ss, t)[Len(ss) + 1] = t
           /\ \A i \in 1..Len(ss) : Then(ss, t)[i] = ss[i]
<1>1. PICK S : ss \in Seq(S)
  OBVIOUS
<1>2. ss \in Seq(S \cup {t})
  BY <1>1
<1> QED BY <1>2 DEF Then

\* A step adds its turn to those that show its blocks.
LEMMA TurnsGrow ==
    ASSUME NEW ss, NEW turns, NEW granularity, History(ss, turns, granularity), NEW t, NEW k,
           t.index \in Nat, turns - 1 <= t.index
    PROVE  /\ Turns(ss, k) \subseteq 0..(turns - 1)
           /\ Turns(Then(ss, t), k) = IF Shows(t, k) THEN Turns(ss, k) \cup {t.index}
                                        ELSE Turns(ss, k)
           /\ Late(ss, k) \subseteq Late(Then(ss, t), k)
<1> DEFINE n == Len(ss)
           us == Then(ss, t)
<1>1. /\ n \in Nat /\ DOMAIN ss = 1..n /\ DOMAIN us = 1..(n + 1)
      /\ us[n + 1] = t /\ \A i \in 1..n : us[i] = ss[i]
  BY Appending DEF History
<1> HIDE DEF n, us
<1>2. turns \in Nat /\ \A j \in 1..n : ss[j].index \in 0..(turns - 1)
  BY <1>1 DEF History
<1>3. Turns(ss, k) \subseteq 0..(turns - 1)
  BY <1>1, <1>2 DEF Turns
<1>4. Turns(us, k) = IF Shows(t, k) THEN Turns(ss, k) \cup {t.index} ELSE Turns(ss, k)
  <2>1. ASSUME NEW i \in Turns(us, k)
        PROVE  i \in Turns(ss, k) \/ (Shows(t, k) /\ i = t.index)
    <3>1. PICK j \in 1..(n + 1) : Shows(us[j], k) /\ i = us[j].index
      BY <1>1 DEF Turns
    <3>2. CASE j = n + 1
      BY <1>1, <3>1, <3>2
    <3>3. CASE j \in 1..n
      BY <1>1, <3>1, <3>3 DEF Turns
    <3> QED BY <1>1, <3>2, <3>3
  <2>2. ASSUME NEW i \in Turns(ss, k) PROVE i \in Turns(us, k)
    <3>1. PICK j \in 1..n : Shows(ss[j], k) /\ i = ss[j].index
      BY <1>1 DEF Turns
    <3>2. j \in DOMAIN us /\ us[j] = ss[j]
      BY <1>1
    <3> QED BY <3>1, <3>2 DEF Turns
  <2>3. ASSUME Shows(t, k) PROVE t.index \in Turns(us, k)
    <3>1. n + 1 \in DOMAIN us
      BY <1>1
    <3> QED BY <1>1, <2>3, <3>1 DEF Turns
  <2> QED BY <2>1, <2>2, <2>3
<1>5. ASSUME NEW i \in Late(ss, k) PROVE i \in Late(us, k)
  <2>1. /\ i \in Turns(ss, k) /\ i - 1 \notin Turns(ss, k) /\ \E h \in Turns(ss, k) : h < i
    BY DEF Late
  <2>2. PICK j \in DOMAIN ss : /\ ss[j].index = i /\ \A m \in 1..(j - 1) : ss[m].index # i
                               /\ ~Shows(ss[j], k)
    BY DEF Late
  <2>3. i \in Int /\ i <= turns - 1 /\ i - 1 # t.index
    BY <1>2, <1>3, <2>1
  <2>4. j \in DOMAIN us /\ us[j] = ss[j] /\ \A m \in 1..(j - 1) : us[m] = ss[m]
    BY <1>1
  <2>5. /\ i \in Turns(us, k) /\ i - 1 \notin Turns(us, k) /\ \E h \in Turns(us, k) : h < i
    BY <1>4, <2>1, <2>3
  <2> QED BY <2>2, <2>4, <2>5 DEF Late
<1> QED BY <1>3, <1>4, <1>5 DEF us

LEMMA HistoryGrows ==
    ASSUME NEW ss, NEW turns, NEW granularity, History(ss, turns, granularity), NEW t
    PROVE  /\ t.index = turns => History(Then(ss, t), turns + 1, granularity)
           /\ (turns > 0 /\ t.index = turns - 1 /\ granularity # "step") =>
                History(Then(ss, t), turns, granularity)
<1> DEFINE n == Len(ss)
           us == Then(ss, t)
<1>1. /\ n \in Nat /\ DOMAIN ss = 1..n /\ DOMAIN us = 1..(n + 1) /\ Len(us) = n + 1
      /\ us[n + 1] = t /\ \A i \in 1..n : us[i] = ss[i]
  BY Appending DEF History, OneEach
<1>2. \E S : us \in Seq(S)
  BY Appending DEF History, OneEach
<1>3. /\ turns \in Nat /\ \A j \in 1..n : ss[j].index \in 0..(turns - 1)
      /\ granularity = "step" => n = turns /\ \A j \in 1..n : ss[j].index = j - 1
  BY <1>1 DEF History, OneEach
<1> HIDE DEF n, us
<1>4. n + 1 \in DOMAIN us
  BY <1>1
<1>5. \A j \in DOMAIN us : j = n + 1 \/ j \in 1..n
  BY <1>1
<1>6. ASSUME t.index = turns PROVE History(us, turns + 1, granularity)
  <2> DEFINE m == turns + 1
  <2>1. \A j \in DOMAIN us : us[j].index \in 0..(m - 1)
    BY <1>1, <1>3, <1>5, <1>6
  <2>2. m \in Nat /\ us[n + 1].index = m - 1
    BY <1>1, <1>3, <1>6
  <2>3. granularity = "step" => Len(us) = m /\ \A j \in DOMAIN us : us[j].index = j - 1
    BY <1>1, <1>3, <1>5, <1>6
  <2> HIDE DEF m
  <2>4. \E j \in DOMAIN us : us[j].index = m - 1
    BY <1>4, <2>2
  <2>5. History(us, m, granularity)
    BY <1>2, <2>1, <2>2, <2>3, <2>4 DEF History, OneEach
  <2> QED BY <2>5 DEF m
<1>7. ASSUME turns > 0, t.index = turns - 1, granularity # "step" PROVE History(us, turns, granularity)
  <2>1. \A j \in DOMAIN us : us[j].index \in 0..(turns - 1)
    BY <1>1, <1>3, <1>5, <1>7
  <2>2. us[n + 1].index = turns - 1
    BY <1>1, <1>7
  <2> QED BY <1>2, <1>3, <1>4, <1>7, <2>1, <2>2 DEF History, OneEach
<1> QED BY <1>6, <1>7 DEF us

LEMMA FitsTypes ==
    ASSUME NEW ss, NEW turns, NEW granularity, History(ss, turns, granularity), NEW k,
           NEW rec, RecordFits(rec, ss, k, granularity)
    PROVE  /\ turns \in Nat /\ Turns(ss, k) \subseteq 0..(turns - 1)
           /\ rec.last \in 0..(turns - 1) /\ rec.first \in 0..(turns - 1)
<1>1. turns \in Nat /\ Turns(ss, k) \subseteq 0..(turns - 1)
  BY DEF History, Turns
<1> QED BY <1>1 DEF RecordFits

\* With a turn per exchange, further steps leave the earlier ones, and their hashes.
LEMMA StepsStay ==
    ASSUME NEW ss, NEW turns, NEW granularity, History(ss, turns, granularity), OneEach(ss, turns), NEW t
    PROVE  /\ \A i \in 0..(turns - 1) : Then(ss, t)[i + 1] = ss[i + 1]
           /\ Then(ss, t)[turns + 1] = t
<1> DEFINE n == Len(ss)
           us == Then(ss, t)
<1>1. n \in Nat /\ us[n + 1] = t /\ \A i \in 1..n : us[i] = ss[i]
  BY Appending DEF History
<1>2. n = turns
  BY DEF OneEach
<1> HIDE DEF n, us
<1>3. \A i \in 0..(turns - 1) : us[i + 1] = ss[i + 1]
  BY <1>1, <1>2
<1> QED BY <1>1, <1>2, <1>3 DEF us

LEMMA UnchangedStays ==
    ASSUME NEW ss, NEW turns, NEW granularity, History(ss, turns, granularity), OneEach(ss, turns), NEW t,
           t.index = turns, NEW k, NEW hash, NEW i \in 0..(turns - 1)
    PROVE  i \in Unchanged(Then(ss, t), k, hash) <=> i \in Unchanged(ss, k, hash)
<1> DEFINE us == Then(ss, t)
<1>1. turns \in Nat /\ t.index \in Nat /\ turns - 1 <= t.index
  BY DEF History
<1>2. /\ Turns(ss, k) \subseteq 0..(turns - 1)
      /\ Turns(us, k) = IF Shows(t, k) THEN Turns(ss, k) \cup {t.index} ELSE Turns(ss, k)
  BY <1>1, TurnsGrow
<1>3. us[i + 1] = ss[i + 1]
  BY StepsStay
<1> HIDE DEF us
<1>4. i # t.index
  BY <1>1
<1>5. i \in Turns(us, k) <=> i \in Turns(ss, k)
  BY <1>2, <1>4
<1>6. i \in Unchanged(us, k, hash) <=> i \in Unchanged(ss, k, hash)
  BY <1>3, <1>5 DEF Unchanged
<1> QED BY <1>6 DEF us

\* A block that a step does not show keeps its record.
LEMMA UnshownFits ==
    ASSUME NEW ss, NEW turns, NEW granularity, History(ss, turns, granularity), NEW t, NEW k,
           t.index = turns \/ (t.index = turns - 1 /\ turns > 0 /\ granularity # "step"),
           ~Shows(t, k), NEW rec, RecordFits(rec, ss, k, granularity)
    PROVE  RecordFits(rec, Then(ss, t), k, granularity)
<1> DEFINE us == Then(ss, t)
<1>1. turns \in Nat /\ rec.last \in 0..(turns - 1)
  BY FitsTypes
<1>2. t.index \in Nat /\ turns - 1 <= t.index
  BY <1>1
<1>3. Turns(us, k) = Turns(ss, k) /\ Late(ss, k) \subseteq Late(us, k)
  BY <1>2, TurnsGrow
<1>4. ASSUME granularity = "step"
      PROVE  /\ us[rec.last + 1] = ss[rec.last + 1]
             /\ \A i \in 0..(rec.last - 1) :
                    i \in Unchanged(us, k, rec.hash) <=> i \in Unchanged(ss, k, rec.hash)
  <2>1. t.index = turns /\ OneEach(ss, turns)
    BY <1>4 DEF History
  <2>2. /\ \A i \in 0..(turns - 1) : us[i + 1] = ss[i + 1]
        /\ \A i \in 0..(turns - 1) :
                i \in Unchanged(us, k, rec.hash) <=> i \in Unchanged(ss, k, rec.hash)
    BY <2>1, StepsStay, UnchangedStays
  <2> HIDE DEF us
  <2> QED BY <1>1, <2>2
<1>5. granularity = "step" => Streak(Unchanged(us, k, rec.hash), rec.last)
                    = Streak(Unchanged(ss, k, rec.hash), rec.last)
  <2>1. rec.last \in Nat
    BY <1>1
  <2> HIDE DEF us
  <2> QED BY <1>4, <2>1, StreakBefore
<1> HIDE DEF us
<1>6. RecordFits(rec, us, k, granularity)
  BY <1>3, <1>4, <1>5 DEF RecordFits
<1> QED BY <1>6 DEF us

\* A block that is shown for the first time.
LEMMA NewFits ==
    ASSUME NEW ss, NEW turns, NEW granularity, History(ss, turns, granularity), NEW t, NEW k,
           t.index = turns \/ (t.index = turns - 1 /\ turns > 0 /\ granularity # "step"),
           Shows(t, k), Turns(ss, k) = {}
    PROVE  RecordFits(Lineage(FirstWith(AllBlocks(t), k), t.index), Then(ss, t), k, granularity)
<1> DEFINE us == Then(ss, t)
           x == t.index
           rec == Lineage(FirstWith(AllBlocks(t), k), x)
<1>1. turns \in Nat /\ x \in Nat /\ turns - 1 <= x
  BY DEF History
<1>2. Turns(us, k) = {x}
  BY <1>1, TurnsGrow
<1>3. /\ rec.hash = HashOf(t, k) /\ rec.first = x /\ rec.last = x /\ rec.survived = 0
      /\ rec.seen = {x} /\ IsLineage(rec)
  BY DEF Lineage, IsLineage, HashOf
<1>4. ASSUME granularity = "step" PROVE us[x + 1] = t
  <2>1. t.index = turns /\ OneEach(ss, turns)
    BY <1>4 DEF History
  <2> QED BY <2>1, StepsStay
<1> HIDE DEF us, rec, x
<1>5. Streak({x}, x) \in Nat /\ Streak(Unchanged(us, k, rec.hash), x) = 0
  <2>1. x - 1 \notin Unchanged(us, k, rec.hash)
    BY <1>1, <1>2 DEF Unchanged
  <2> QED BY <1>1, <2>1, StreakFacts
<1>6. RecordFits(rec, us, k, granularity)
  BY <1>1, <1>2, <1>3, <1>4, <1>5 DEF RecordFits
<1> QED BY <1>6 DEF us, rec, x

\* A block that the first step of a turn shows, and an earlier turn had shown.
LEMMA SurviveFits ==
    ASSUME NEW ss, NEW turns, NEW granularity, History(ss, turns, granularity), NEW t, NEW k,
           t.index = turns, Shows(t, k), NEW old, RecordFits(old, ss, k, granularity)
    PROVE  RecordFits(Survive(old, FirstWith(AllBlocks(t), k), t.index), Then(ss, t), k, granularity)
<1> DEFINE us == Then(ss, t)
           x == t.index
           b == FirstWith(AllBlocks(t), k)
           rec == Survive(old, b, x)
<1>1. /\ turns \in Nat /\ x = turns /\ x \in Nat /\ Turns(ss, k) \subseteq 0..(x - 1)
      /\ old.last \in 0..(x - 1) /\ old.first \in 0..(x - 1)
  BY FitsTypes
<1>2. /\ IsLineage(old) /\ old.seen = Turns(ss, k) /\ old.first \in old.seen
      /\ old.last \in old.seen /\ \A i \in old.seen : old.first <= i /\ i <= old.last
      /\ Late(ss, k) = {} => old.survived <= Streak(Turns(ss, k), old.last)
      /\ granularity = "step" => /\ old.hash = HashOf(ss[old.last + 1], k)
                     /\ old.survived = Streak(Unchanged(ss, k, old.hash), old.last)
      /\ old.survived \in Nat
  BY DEF RecordFits
<1>3. Turns(us, k) = Turns(ss, k) \cup {x} /\ Late(ss, k) \subseteq Late(us, k)
  BY <1>1, TurnsGrow
<1>4. b.hash = HashOf(t, k)
  BY DEF HashOf
<1> HIDE DEF us, b, x
<1>5. /\ IsLineage(rec) /\ rec.hash = b.hash /\ rec.last = x /\ rec.first = old.first
      /\ rec.seen = old.seen \cup {x}
      /\ rec.survived = IF old.last = x - 1 /\ old.hash = b.hash THEN old.survived + 1 ELSE 0
  BY <1>2, SurviveRecord
<1> HIDE DEF rec
<1>6. Streak(Turns(us, k), x) \in Nat /\ rec.survived \in Nat
  BY <1>1, <1>2, <1>5, StreakFacts
<1>7. ASSUME Late(us, k) = {} PROVE rec.survived <= Streak(Turns(us, k), x)
  <2>1. CASE old.last = x - 1 /\ old.hash = b.hash
    <3>1. x > 0 /\ x - 1 \in Turns(us, k) /\ x - 1 \in Nat
      BY <1>1, <1>2, <1>3, <2>1
    <3>2. Streak(Turns(us, k), x) = Streak(Turns(us, k), x - 1) + 1
      BY <1>1, <3>1, StreakFacts
    <3>3. Streak(Turns(us, k), x - 1) = Streak(Turns(ss, k), x - 1)
      <4>1. \A i \in 0..(x - 1 - 1) : i \in Turns(us, k) <=> i \in Turns(ss, k)
        BY <1>1, <1>3
      <4> QED BY <3>1, <4>1, StreakBefore
    <3>4. old.survived <= Streak(Turns(ss, k), x - 1)
      <4>1. Late(ss, k) = {}
        BY <1>3, <1>7
      <4> QED BY <1>2, <2>1, <4>1
    <3>5. rec.survived = old.survived + 1 /\ Streak(Turns(ss, k), x - 1) \in Nat
      BY <1>5, <2>1, <3>1, StreakFacts
    <3> QED BY <1>2, <3>2, <3>3, <3>4, <3>5
  <2>2. CASE ~(old.last = x - 1 /\ old.hash = b.hash)
    BY <1>5, <1>6, <2>2
  <2> QED BY <2>1, <2>2
<1>8. ASSUME granularity = "step"
      PROVE  /\ rec.hash = HashOf(us[x + 1], k)
             /\ rec.survived = Streak(Unchanged(us, k, rec.hash), x)
  <2>2. /\ \A i \in 0..(x - 1) : us[i + 1] = ss[i + 1]
        /\ us[x + 1] = t
        /\ \A i \in 0..(x - 1) :
                i \in Unchanged(us, k, b.hash) <=> i \in Unchanged(ss, k, b.hash)
    <3>0. OneEach(ss, turns)
      BY <1>8 DEF History
    <3> DEFINE hash == b.hash
    <3> HIDE DEF hash
    <3>1. /\ \A i \in 0..(turns - 1) : us[i + 1] = ss[i + 1]
          /\ us[turns + 1] = t
          /\ \A i \in 0..(turns - 1) :
                i \in Unchanged(us, k, hash) <=> i \in Unchanged(ss, k, hash)
      BY <1>1, <3>0, StepsStay, UnchangedStays DEF us
    <3> QED BY <1>1, <3>1 DEF hash
  <2>3. rec.hash = HashOf(us[x + 1], k)
    BY <1>4, <1>5, <2>2
  <2> DEFINE U == Unchanged(us, k, b.hash)
             V == Unchanged(ss, k, b.hash)
  <2>4. \A i \in 0..(x - 1) : i \in U <=> i \in Turns(ss, k) /\ HashOf(ss[i + 1], k) = b.hash
    BY <2>2 DEF Unchanged
  <2>5. CASE old.last = x - 1 /\ old.hash = b.hash
    <3>1. x > 0 /\ x - 1 \in Nat /\ x - 1 \in 0..(x - 1)
      BY <1>1, <2>5
    <3>2. x - 1 \in U
      <4>1. x - 1 \in Turns(ss, k) /\ HashOf(ss[(x - 1) + 1], k) = b.hash
        BY <1>2, <1>8, <2>5
      <4> HIDE DEF U
      <4> QED BY <2>4, <3>1, <4>1
    <3>3. Streak(U, x) = Streak(U, x - 1) + 1
      BY <1>1, <3>1, <3>2, StreakFacts
    <3>4. Streak(U, x - 1) = Streak(V, x - 1)
      <4>1. \A i \in 0..(x - 1 - 1) : i \in U <=> i \in V
        BY <1>1, <2>2
      <4> HIDE DEF U, V
      <4> QED BY <3>1, <4>1, StreakBefore
    <3>5. old.survived = Streak(V, x - 1)
      BY <1>2, <1>8, <2>5
    <3>6. rec.survived = Streak(U, x)
      BY <1>5, <2>5, <3>3, <3>4, <3>5
    <3> QED BY <1>5, <2>3, <3>6
  <2>6. CASE ~(old.last = x - 1 /\ old.hash = b.hash)
    <3>1. x = 0 \/ x - 1 \notin U
      <4>1. CASE old.last = x - 1
        <5>1. HashOf(ss[(x - 1) + 1], k) = old.hash /\ old.hash # b.hash
          BY <1>2, <1>8, <2>6, <4>1
        <5>2. x = 0 \/ x - 1 \in 0..(x - 1)
          BY <1>1
        <5> HIDE DEF U
        <5> QED BY <2>4, <5>1, <5>2
      <4>2. CASE old.last # x - 1
        <5>1. x - 1 \notin Turns(ss, k)
          BY <1>1, <1>2, <4>2
        <5>2. x = 0 \/ x - 1 \in 0..(x - 1)
          BY <1>1
        <5> HIDE DEF U
        <5> QED BY <2>4, <5>1, <5>2
      <4> QED BY <4>1, <4>2
    <3>2. Streak(U, x) = 0
      BY <1>1, <3>1, StreakFacts
    <3> QED BY <1>5, <2>3, <2>6, <3>2
  <2> QED BY <2>5, <2>6
<1>9. /\ rec.seen = Turns(us, k) /\ rec.first \in rec.seen /\ rec.last \in rec.seen
      /\ \A i \in rec.seen : rec.first <= i /\ i <= rec.last
  BY <1>1, <1>2, <1>3, <1>5
<1>10. RecordFits(rec, us, k, granularity)
  BY <1>5, <1>6, <1>7, <1>8, <1>9 DEF RecordFits
<1> QED BY <1>10 DEF rec, us, b, x

\* A block that a further step of a turn shows, and an earlier step had shown.
LEMMA ShownAgainFits ==
    ASSUME NEW ss, NEW turns, NEW granularity, granularity # "step", History(ss, turns, granularity), NEW t, NEW k,
           turns > 0, t.index = turns - 1, Shows(t, k), NEW old, RecordFits(old, ss, k, granularity)
    PROVE  RecordFits(ShownAgain(old, FirstWith(AllBlocks(t), k), t.index), Then(ss, t), k, granularity)
<1> DEFINE us == Then(ss, t)
           x == t.index
           rec == ShownAgain(old, FirstWith(AllBlocks(t), k), x)
<1>1. /\ turns \in Nat /\ x = turns - 1 /\ x \in Nat /\ Turns(ss, k) \subseteq 0..x
      /\ old.last \in 0..x /\ old.first \in 0..x
  <2>1. /\ turns \in Nat /\ Turns(ss, k) \subseteq 0..(turns - 1)
        /\ old.last \in 0..(turns - 1) /\ old.first \in 0..(turns - 1)
    BY FitsTypes
  <2> QED BY <2>1
<1>2. /\ IsLineage(old) /\ old.seen = Turns(ss, k) /\ old.first \in old.seen
      /\ old.last \in old.seen /\ \A i \in old.seen : old.first <= i /\ i <= old.last
      /\ Late(ss, k) = {} => old.survived <= Streak(Turns(ss, k), old.last)
      /\ old.survived \in Nat
  BY DEF RecordFits
<1>3. Turns(us, k) = Turns(ss, k) \cup {x} /\ Late(ss, k) \subseteq Late(us, k)
  BY <1>1, TurnsGrow
<1>4. \E j \in DOMAIN ss : ss[j].index = x
  BY <1>1 DEF History
<1>5. /\ Len(ss) \in Nat /\ DOMAIN ss = 1..Len(ss) /\ DOMAIN us = 1..(Len(ss) + 1)
      /\ \A i \in 1..Len(ss) : us[i] = ss[i]
  BY Appending DEF History
<1> HIDE DEF us, x
<1>6. /\ IsLineage(rec) /\ rec.survived = old.survived /\ rec.last = x /\ rec.first = old.first
      /\ rec.seen = old.seen \cup {x}
  BY <1>2, ShownAgainRecord
<1> HIDE DEF rec
<1>7. ASSUME Late(us, k) = {} PROVE old.survived <= Streak(Turns(us, k), x)
  <2>1. old.survived <= Streak(Turns(ss, k), old.last)
    BY <1>2, <1>3, <1>7
  <2>2. CASE old.last = x
    <3>1. Turns(us, k) = Turns(ss, k)
      BY <1>2, <1>3, <2>2
    <3> QED BY <2>1, <2>2, <3>1
  <2>3. CASE old.last # x
    <3>1. x \notin Turns(ss, k)
      BY <1>1, <1>2, <2>3
    <3>2. old.last = x - 1
      <4>1. SUFFICES ASSUME old.last # x - 1 PROVE x \in Late(us, k)
        BY <1>7
      <4>2. x - 1 \notin Turns(us, k) /\ old.last < x
        BY <1>1, <1>2, <1>3, <2>3, <4>1
      <4> DEFINE J == {j \in DOMAIN ss : ss[j].index = x}
      <4>3. J \subseteq Nat /\ J # {}
        BY <1>4, <1>5
      <4>4. PICK j \in J : \A m \in J : j <= m
        <5> HIDE DEF J
        <5> QED BY <4>3, LeastOf
      <4>5. j \in 1..Len(ss) /\ ss[j].index = x /\ us[j] = ss[j] /\ j \in DOMAIN us
        BY <1>5, <4>4
      <4>6. \A m \in 1..(j - 1) : us[m].index # x
        <5> SUFFICES ASSUME NEW m \in 1..(j - 1), us[m].index = x PROVE FALSE
          OBVIOUS
        <5>1. m \in J /\ ~(j <= m)
          BY <1>5, <4>5
        <5> QED BY <4>4, <5>1
      <4>7. ~Shows(us[j], k)
        <5> SUFFICES ASSUME Shows(ss[j], k) PROVE x \in Turns(ss, k)
          BY <3>1, <4>5
        <5> QED BY <1>5, <4>5 DEF Turns
      <4>8. x \in Turns(us, k) /\ \E h \in Turns(us, k) : h < x
        BY <1>2, <1>3, <4>2
      <4> QED BY <4>2, <4>5, <4>6, <4>7, <4>8 DEF Late
    <3>3. x > 0 /\ x - 1 \in Turns(us, k) /\ x - 1 \in Nat
      BY <1>1, <1>2, <1>3, <3>2
    <3>4. Streak(Turns(us, k), x) = Streak(Turns(us, k), x - 1) + 1
      BY <1>1, <3>3, StreakFacts
    <3>5. Streak(Turns(us, k), x - 1) = Streak(Turns(ss, k), x - 1)
      <4>1. \A i \in 0..(x - 1 - 1) : i \in Turns(us, k) <=> i \in Turns(ss, k)
        BY <1>1, <1>3
      <4> QED BY <3>3, <4>1, StreakBefore
    <3>6. Streak(Turns(ss, k), x - 1) \in Nat
      BY <3>3, StreakFacts
    <3> QED BY <1>2, <2>1, <3>2, <3>4, <3>5, <3>6
  <2> QED BY <2>2, <2>3
<1>8. /\ rec.seen = Turns(us, k) /\ rec.first \in rec.seen /\ rec.last \in rec.seen
      /\ \A i \in rec.seen : rec.first <= i /\ i <= rec.last
  BY <1>1, <1>2, <1>3, <1>6
<1>9. RecordFits(rec, us, k, granularity)
  BY <1>2, <1>6, <1>7, <1>8 DEF RecordFits
<1> QED BY <1>9 DEF rec, us, x

LEMMA TracedByFirst ==
    ASSUME NEW lineage, NEW t
    PROVE  LET new == Traced(lineage, t, Survive)
           IN  /\ DOMAIN new = DOMAIN lineage \cup Keys(AllBlocks(t))
               /\ \A k \in DOMAIN new :
                    /\ ~Shows(t, k) => new[k] = lineage[k]
                    /\ (Shows(t, k) /\ k \notin DOMAIN lineage) =>
                            new[k] = Lineage(FirstWith(AllBlocks(t), k), t.index)
                    /\ (Shows(t, k) /\ k \in DOMAIN lineage) =>
                            new[k] = Survive(lineage[k], FirstWith(AllBlocks(t), k), t.index)
BY DEF Traced, Shows

LEMMA TracedByLater ==
    ASSUME NEW lineage, NEW t
    PROVE  LET new == Traced(lineage, t, ShownAgain)
           IN  /\ DOMAIN new = DOMAIN lineage \cup Keys(AllBlocks(t))
               /\ \A k \in DOMAIN new :
                    /\ ~Shows(t, k) => new[k] = lineage[k]
                    /\ (Shows(t, k) /\ k \notin DOMAIN lineage) =>
                            new[k] = Lineage(FirstWith(AllBlocks(t), k), t.index)
                    /\ (Shows(t, k) /\ k \in DOMAIN lineage) =>
                            new[k] = ShownAgain(lineage[k], FirstWith(AllBlocks(t), k), t.index)
BY DEF Traced, Shows

LEMMA FirstStepKeeps ==
    ASSUME NEW ss, NEW turns, NEW granularity, History(ss, turns, granularity), NEW t,
           t.index = turns, NEW lineage, LineageFits(lineage, ss, granularity)
    PROVE  LineageFits(Traced(lineage, t, Survive), Then(ss, t), granularity)
<1> DEFINE new == Traced(lineage, t, Survive)
<1>1. turns \in Nat /\ t.index \in Nat /\ turns - 1 <= t.index
  BY DEF History
<1>2. \A k : k \in DOMAIN lineage <=> Turns(ss, k) # {}
  BY DEF LineageFits
<1>3. \A k \in DOMAIN lineage : RecordFits(lineage[k], ss, k, granularity)
  BY DEF LineageFits
<1>4. /\ \A k : k \in DOMAIN new <=> k \in DOMAIN lineage \/ Shows(t, k)
      /\ \A k \in DOMAIN new :
            /\ ~Shows(t, k) => new[k] = lineage[k]
            /\ (Shows(t, k) /\ k \notin DOMAIN lineage) =>
                    new[k] = Lineage(FirstWith(AllBlocks(t), k), t.index)
            /\ (Shows(t, k) /\ k \in DOMAIN lineage) =>
                    new[k] = Survive(lineage[k], FirstWith(AllBlocks(t), k), t.index)
  BY TracedByFirst DEF Shows
<1> HIDE DEF new
<1>5. ASSUME NEW k PROVE k \in DOMAIN new <=> Turns(Then(ss, t), k) # {}
  <2>1. Turns(Then(ss, t), k) = IF Shows(t, k) THEN Turns(ss, k) \cup {t.index} ELSE Turns(ss, k)
    BY <1>1, TurnsGrow
  <2> QED BY <1>2, <1>4, <2>1
<1>6. ASSUME NEW k \in DOMAIN new PROVE RecordFits(new[k], Then(ss, t), k, granularity)
  <2>1. CASE ~Shows(t, k)
    <3>1. k \in DOMAIN lineage /\ new[k] = lineage[k] /\ RecordFits(lineage[k], ss, k, granularity)
      BY <1>3, <1>4, <2>1
    <3> QED BY <2>1, <3>1, UnshownFits
  <2>2. CASE Shows(t, k) /\ k \notin DOMAIN lineage
    <3>1. Turns(ss, k) = {} /\ new[k] = Lineage(FirstWith(AllBlocks(t), k), t.index)
      BY <1>2, <1>4, <2>2
    <3> QED BY <2>2, <3>1, NewFits
  <2>3. CASE Shows(t, k) /\ k \in DOMAIN lineage
    <3>1. /\ RecordFits(lineage[k], ss, k, granularity)
          /\ new[k] = Survive(lineage[k], FirstWith(AllBlocks(t), k), t.index)
      BY <1>3, <1>4, <2>3
    <3> QED BY <2>3, <3>1, SurviveFits
  <2> QED BY <2>1, <2>2, <2>3
<1>7. LineageFits(new, Then(ss, t), granularity)
  BY <1>5, <1>6 DEF LineageFits
<1> QED BY <1>7 DEF new

LEMMA LaterStepKeeps ==
    ASSUME NEW ss, NEW turns, NEW granularity, History(ss, turns, granularity), NEW t,
           turns > 0, t.index = turns - 1, granularity # "step",
           NEW lineage, LineageFits(lineage, ss, granularity)
    PROVE  LineageFits(Traced(lineage, t, ShownAgain), Then(ss, t), granularity)
<1> DEFINE new == Traced(lineage, t, ShownAgain)
<1>1. turns \in Nat /\ t.index \in Nat /\ turns - 1 <= t.index
  BY DEF History
<1>2. \A k : k \in DOMAIN lineage <=> Turns(ss, k) # {}
  BY DEF LineageFits
<1>3. \A k \in DOMAIN lineage : RecordFits(lineage[k], ss, k, granularity)
  BY DEF LineageFits
<1>4. /\ \A k : k \in DOMAIN new <=> k \in DOMAIN lineage \/ Shows(t, k)
      /\ \A k \in DOMAIN new :
            /\ ~Shows(t, k) => new[k] = lineage[k]
            /\ (Shows(t, k) /\ k \notin DOMAIN lineage) =>
                    new[k] = Lineage(FirstWith(AllBlocks(t), k), t.index)
            /\ (Shows(t, k) /\ k \in DOMAIN lineage) =>
                    new[k] = ShownAgain(lineage[k], FirstWith(AllBlocks(t), k), t.index)
  BY TracedByLater DEF Shows
<1> HIDE DEF new
<1>5. ASSUME NEW k PROVE k \in DOMAIN new <=> Turns(Then(ss, t), k) # {}
  <2>1. Turns(Then(ss, t), k) = IF Shows(t, k) THEN Turns(ss, k) \cup {t.index} ELSE Turns(ss, k)
    BY <1>1, TurnsGrow
  <2> QED BY <1>2, <1>4, <2>1
<1>6. ASSUME NEW k \in DOMAIN new PROVE RecordFits(new[k], Then(ss, t), k, granularity)
  <2>1. CASE ~Shows(t, k)
    <3>1. k \in DOMAIN lineage /\ new[k] = lineage[k] /\ RecordFits(lineage[k], ss, k, granularity)
      BY <1>3, <1>4, <2>1
    <3> QED BY <2>1, <3>1, UnshownFits
  <2>2. CASE Shows(t, k) /\ k \notin DOMAIN lineage
    <3>1. Turns(ss, k) = {} /\ new[k] = Lineage(FirstWith(AllBlocks(t), k), t.index)
      BY <1>2, <1>4, <2>2
    <3> QED BY <2>2, <3>1, NewFits
  <2>3. CASE Shows(t, k) /\ k \in DOMAIN lineage
    <3>1. /\ RecordFits(lineage[k], ss, k, granularity)
          /\ new[k] = ShownAgain(lineage[k], FirstWith(AllBlocks(t), k), t.index)
      BY <1>3, <1>4, <2>3
    <3> QED BY <2>3, <3>1, ShownAgainFits
  <2> QED BY <2>1, <2>2, <2>3
<1>7. LineageFits(new, Then(ss, t), granularity)
  BY <1>5, <1>6 DEF LineageFits
<1> QED BY <1>7 DEF new
-----------------------------------------------------------------------------
(* The lineage of a session. *)

LineageInv ==
    /\ History(steps, Len(graph.turns), mode.granularity)
    /\ LineageFits(graph.lineage, steps, mode.granularity)
    /\ graph = [f \in {"turns", "deltas", "lineage"} |-> graph[f]]
    /\ \E S : graph.turns \in Seq(S)

LEMMA LineageInit == Init => LineageInv
<1> SUFFICES ASSUME Init PROVE LineageInv
  OBVIOUS
<1>1. graph = EmptyGraph /\ steps = <<>>
  BY DEF Init
<1>2. /\ graph.turns = <<>> /\ DOMAIN graph.lineage = {}
      /\ graph = [f \in {"turns", "deltas", "lineage"} |-> graph[f]]
  BY <1>1 DEF EmptyGraph
<1>3. Len(graph.turns) = 0 /\ Len(steps) = 0 /\ DOMAIN steps = {}
  BY <1>1, <1>2
<1>4. graph.turns \in Seq({}) /\ steps \in Seq({})
  BY <1>1, <1>2
<1>5. History(steps, Len(graph.turns), mode.granularity)
  BY <1>3, <1>4 DEF History, OneEach
<1>6. \A k : Turns(steps, k) = {}
  BY <1>3 DEF Turns
<1> QED BY <1>2, <1>4, <1>5, <1>6 DEF LineageInv, LineageFits

\* What an exchange does to the graph: its step is the first of the next turn, or a further one
\* of the last.
LEMMA ExchangeEffect ==
    ASSUME LineageInv, Exchange
    PROVE  /\ mode' = mode
           /\ \E t : /\ steps' = Append(steps, t)
                     /\ \/ t.index = Len(graph.turns) /\ graph' = AddTurn(graph, t)
                        \/ /\ mode.granularity # "step" /\ graph.turns # <<>>
                           /\ t.index = Len(graph.turns) - 1
                           /\ \E n : graph' = UpdateTurn(graph, [t EXCEPT !.input = n])
                     /\ t = [f \in {"index", "provider", "system", "tools", "history", "results",
                                    "reply", "input"} |-> t[f]]
<1>1. PICK prompt \in Prompted, next \in Scenes, reply \in Replies :
        LET req   == [system |-> next.system, tools |-> next.tools, messages |-> prompt[1]]
            index == IF Opens(req) THEN Len(graph.turns) ELSE LastIndex
            raw   == Normalize(mode.provider, req, reply[1], mode.streamed, 0, index)
            turn  == [raw EXCEPT !.input = ReportedInput(raw)]
            odd   == Cardinality({e \in {"prompt", "scene", "reply"} :
                        CASE e = "prompt" -> prompt[2]
                          [] e = "scene" -> next \notin {scene, FirstScene}
                          [] e = "reply" -> reply[2]})
        IN  /\ oddities + odd <= MaxOddities
            /\ OpenTurn(req, turn) \/ ContinueTurn(req, turn)
            /\ scene' = next
            /\ messages' = Append(prompt[1], [role |-> "assistant", parts |-> reply[1]])
            /\ steps' = Append(steps, turn)
            /\ oddities' = oddities + odd
            /\ UNCHANGED mode
  BY Zenon DEF Exchange
<1> DEFINE req   == [system |-> next.system, tools |-> next.tools, messages |-> prompt[1]]
           index == IF Opens(req) THEN Len(graph.turns) ELSE LastIndex
           raw   == Normalize(mode.provider, req, reply[1], mode.streamed, 0, index)
           turn  == [raw EXCEPT !.input = ReportedInput(raw)]
<1>2. /\ OpenTurn(req, turn) \/ ContinueTurn(req, turn)
      /\ steps' = Append(steps, turn) /\ mode' = mode
  BY <1>1, Zenon
<1>3. /\ raw.index = index
      /\ raw = [f \in {"index", "provider", "system", "tools", "history", "results",
                       "reply", "input"} |-> raw[f]]
  <2> DEFINE messagesOf == WireMessages(mode.provider, req)
             request == CASE mode.provider = "anthropic" -> AnthropicRequest(req, messagesOf)
                          [] mode.provider = "openai" -> OpenAIRequest(req, messagesOf)
                          [] mode.provider = "gemini" -> GeminiRequest(req, messagesOf)
             answer == CASE mode.provider = "anthropic" -> AnthropicReply(reply[1], mode.streamed)
                         [] mode.provider = "openai" -> OpenAIReply(reply[1], mode.streamed)
                         [] mode.provider = "gemini" -> GeminiReply(reply[1], mode.streamed)
             tools == [i \in DOMAIN req.tools |-> ToolDef(req.tools[i])]
             system == request.system
             history == request.history
             results == request.results
  <2>1. raw = [index |-> index, provider |-> mode.provider, system |-> system, tools |-> tools,
               history |-> history, results |-> results, reply |-> answer, input |-> 0]
    BY Zenon DEF Normalize
  <2> HIDE DEF raw, index, request, answer, tools, system, history, results
  <2> QED BY <2>1
<1>4. Opens(req) \/ (mode.granularity # "step" /\ graph.turns # <<>>)
  BY DEF Opens
<1> HIDE DEF req, raw
<1>5. /\ turn.index = index
      /\ turn = [f \in {"index", "provider", "system", "tools", "history", "results",
                        "reply", "input"} |-> turn[f]]
  BY <1>3
<1> HIDE DEF turn
<1>6. CASE OpenTurn(req, turn)
  <2>1. graph' = AddTurn(graph, turn) /\ turn.index = Len(graph.turns)
    BY <1>5, <1>6 DEF OpenTurn, Analyzed
  <2> QED BY <1>2, <1>5, <2>1
<1>7. CASE ContinueTurn(req, turn)
  <2>1. /\ graph' = UpdateTurn(graph, [turn EXCEPT !.input = @ + Last(graph.turns).input])
        /\ turn.index = Len(graph.turns) - 1 /\ mode.granularity # "step" /\ graph.turns # <<>>
    BY <1>4, <1>5, <1>7 DEF ContinueTurn, Analyzed, LastIndex
  <2> DEFINE m == turn.input + Last(graph.turns).input
  <2>2. graph' = UpdateTurn(graph, [turn EXCEPT !.input = m])
    BY <2>1
  <2> HIDE DEF m
  <2> QED BY <1>2, <1>5, <2>1, <2>2
<1> QED BY <1>2, <1>6, <1>7

LEMMA Replaced ==
    ASSUME NEW S, NEW seq \in Seq(S), NEW e \in S, NEW i \in 1..Len(seq)
    PROVE  [seq EXCEPT ![i] = e] \in Seq(S) /\ Len([seq EXCEPT ![i] = e]) = Len(seq)
  OBVIOUS

LEMMA LineageStep == LineageInv /\ [Next]_vars => LineageInv'
<1> SUFFICES ASSUME LineageInv, [Next]_vars PROVE LineageInv'
  OBVIOUS
<1>1. CASE UNCHANGED vars
  BY <1>1 DEF vars, LineageInv
<1>2. CASE Exchange
  <2>1. mode' = mode
    BY <1>2, ExchangeEffect
  <2>2. PICK t : /\ steps' = Append(steps, t)
                 /\ \/ t.index = Len(graph.turns) /\ graph' = AddTurn(graph, t)
                    \/ /\ mode.granularity # "step" /\ graph.turns # <<>>
                       /\ t.index = Len(graph.turns) - 1
                       /\ \E n : graph' = UpdateTurn(graph, [t EXCEPT !.input = n])
                 /\ t = [f \in {"index", "provider", "system", "tools", "history", "results",
                                "reply", "input"} |-> t[f]]
    BY <1>2, ExchangeEffect
  <2> DEFINE T == Len(graph.turns)
             g == mode.granularity
  <2>3. /\ History(steps, T, g) /\ LineageFits(graph.lineage, steps, g)
        /\ graph = [f \in {"turns", "deltas", "lineage"} |-> graph[f]]
    BY DEF LineageInv
  <2>4. PICK S : graph.turns \in Seq(S)
    BY DEF LineageInv
  <2>5. steps' = Then(steps, t) /\ g' = g
    BY <2>1, <2>2 DEF Then
  <2>6. T \in Nat /\ (graph.turns # <<>> => T > 0)
    BY <2>4
  <2>7. CASE t.index = T /\ graph' = AddTurn(graph, t)
    <3> DEFINE dated == [t EXCEPT !.system = Dated(@, Traced(graph.lineage, t, Survive)),
                                  !.tools = Dated(@, Traced(graph.lineage, t, Survive)),
                                  !.history = Dated(@, Traced(graph.lineage, t, Survive)),
                                  !.results = Dated(@, Traced(graph.lineage, t, Survive)),
                                  !.reply = Dated(@, Traced(graph.lineage, t, Survive))]
               delta == ComputeDelta(LastTurn(graph), t)
    <3>1. graph' = [turns   |-> Append(graph.turns, dated),
                    deltas  |-> Append(graph.deltas, delta),
                    lineage |-> Traced(graph.lineage, t, Survive)]
      BY <2>7 DEF AddTurn
    <3> HIDE DEF dated, delta
    <3>2. /\ graph' = [f \in {"turns", "deltas", "lineage"} |-> graph'[f]]
          /\ graph'.turns = Append(graph.turns, dated)
          /\ graph'.lineage = Traced(graph.lineage, t, Survive)
      BY <3>1
    <3>3. Append(graph.turns, dated) \in Seq(S \cup {dated}) /\ Len(Append(graph.turns, dated)) = T + 1
      BY <2>4
    <3>4. History(Then(steps, t), T + 1, g)
      BY <2>3, <2>7, HistoryGrows
    <3>5. LineageFits(Traced(graph.lineage, t, Survive), Then(steps, t), g)
      BY <2>3, <2>7, FirstStepKeeps
    <3> QED BY <2>5, <3>2, <3>3, <3>4, <3>5 DEF LineageInv
  <2>8. CASE /\ g # "step" /\ graph.turns # <<>> /\ t.index = T - 1
             /\ \E n : graph' = UpdateTurn(graph, [t EXCEPT !.input = n])
    <3>1. PICK n : graph' = UpdateTurn(graph, [t EXCEPT !.input = n])
      BY <2>8
    <3> DEFINE u == [t EXCEPT !.input = n]
    <3>2. u.index = t.index /\ AllBlocks(u) = AllBlocks(t)
      BY <2>2 DEF AllBlocks
    <3> HIDE DEF u
    <3>3. Traced(graph.lineage, u, ShownAgain) = Traced(graph.lineage, t, ShownAgain)
      BY <3>2 DEF Traced
    <3>4. graph' = [graph EXCEPT !.turns[u.index + 1] = u,
                                 !.lineage = Traced(@, u, ShownAgain)]
      BY <3>1 DEF UpdateTurn, u
    <3>5. /\ graph' = [f \in {"turns", "deltas", "lineage"} |-> graph'[f]]
          /\ graph'.turns = [graph.turns EXCEPT ![u.index + 1] = u]
          /\ graph'.lineage = Traced(graph.lineage, t, ShownAgain)
      BY <2>3, <3>3, <3>4
    <3>6. [graph.turns EXCEPT ![u.index + 1] = u] \in Seq(S \cup {u})
          /\ Len([graph.turns EXCEPT ![u.index + 1] = u]) = T
      <4>1. u.index + 1 = T
        BY <2>6, <2>8, <3>2
      <4>2. graph.turns \in Seq(S \cup {u}) /\ u \in S \cup {u}
        BY <2>4
      <4>3. u.index + 1 \in 1..Len(graph.turns)
        BY <2>6, <2>8, <4>1
      <4> QED BY <4>2, <4>3, Replaced
    <3>7. T > 0
      BY <2>6, <2>8
    <3>8. History(Then(steps, t), T, g)
      BY <2>3, <2>8, <3>7, HistoryGrows
    <3>9. LineageFits(Traced(graph.lineage, t, ShownAgain), Then(steps, t), g)
      BY <2>3, <2>8, <3>7, LaterStepKeeps
    <3> QED BY <2>5, <3>5, <3>6, <3>8, <3>9 DEF LineageInv
  <2> QED BY <2>2, <2>7, <2>8
<1> QED BY <1>1, <1>2 DEF Next

LEMMA LineageInvFits == LineageInv => LineageIsSurvival
<1> SUFFICES ASSUME LineageInv, NEW k \in DOMAIN graph.lineage
             PROVE  LET rec == graph.lineage[k]
                        HashIn(i) == FirstWith(AllBlocks(steps[i + 1]), k).hash
                    IN  /\ rec.seen = ShownIn(k)
                        /\ {rec.first, rec.last} \subseteq rec.seen
                        /\ \A i \in rec.seen : rec.first <= i /\ i <= rec.last
                        /\ CameBackLate(k) = {} => rec.survived <= Streak(ShownIn(k), rec.last)
                        /\ mode.granularity = "step" =>
                            /\ rec.hash = HashIn(rec.last)
                            /\ rec.survived
                                = Streak({i \in ShownIn(k) : HashIn(i) = rec.hash}, rec.last)
  BY DEF LineageIsSurvival
<1>1. RecordFits(graph.lineage[k], steps, k, mode.granularity)
  BY DEF LineageInv, LineageFits
<1>2. ShownIn(k) = Turns(steps, k)
  BY DEF ShownIn, Turns, Shows
<1>3. CameBackLate(k) = Late(steps, k)
  BY <1>2 DEF CameBackLate, Late, Shows
<1>4. \A i : FirstWith(AllBlocks(steps[i + 1]), k).hash = HashOf(steps[i + 1], k)
  BY DEF HashOf
<1>5. {i \in ShownIn(k) : FirstWith(AllBlocks(steps[i + 1]), k).hash = graph.lineage[k].hash}
        = Unchanged(steps, k, graph.lineage[k].hash)
  BY <1>2, <1>4 DEF Unchanged
<1> QED BY <1>1, <1>2, <1>3, <1>4, <1>5 DEF RecordFits

\* For any prompts, tools, provider and session length: the lineage of every block is the history of
\* the steps that showed it, and its survival never counts a turn that did not, but for a block
\* that comes back in the middle of a turn; with a turn per exchange it counts just the turns
\* that showed the block unchanged.
THEOREM LineageHolds == Spec => []LineageIsSurvival
<1>1. Init => LineageInv
  BY LineageInit
<1>2. LineageInv /\ [Next]_vars => LineageInv'
  BY LineageStep
<1>3. LineageInv => LineageIsSurvival
  BY LineageInvFits
<1> QED BY <1>1, <1>2, <1>3, PTL DEF Spec
-----------------------------------------------------------------------------
(* The conversation: what the agent sends is well formed, and brings       *)
(* results of calls that were made in it.                                  *)

\* A part of a message: only a call has no text, and calls and results have an id.
IsPart(p) ==
    /\ p = [f \in {"kind", "text", "call", "tool", "error"} |-> p[f]]
    /\ p.kind \in {"text", "thought", "call", "result"}
    /\ IsSeq(p.text) /\ (p.kind = "call" <=> p.text = <<>>)
    /\ p.kind \in {"call", "result"} => p.call # ""

\* What a role may say.
PartsOf(role) == IF role = "user" THEN {"text", "result"} ELSE {"text", "thought", "call"}

IsMessage(m) ==
    /\ m = [f \in {"role", "parts"} |-> m[f]]
    /\ m.role \in {"user", "assistant"}
    /\ IsSeq(m.parts) /\ m.parts # <<>>
    /\ \A p \in ToSet(m.parts) : IsPart(p) /\ p.kind \in PartsOf(m.role)

\* A call of this id was made in these messages.
IsCalled(ms, id) == \E m \in ToSet(ms) : \E q \in ToSet(m.parts) : q.kind = "call" /\ q.call = id

\* A conversation: what it brings results of was called in it.
Conversation(ms) ==
    /\ IsSeq(ms) /\ \A m \in ToSet(ms) : IsMessage(m)
    /\ \A m \in ToSet(ms) : \A p \in ToSet(m.parts) : p.kind = "result" => IsCalled(ms, p.call)

\* A message of the user that goes with a conversation.
Speaks(ms, u) ==
    /\ IsMessage(u) /\ u.role = "user"
    /\ \A p \in ToSet(u.parts) : p.kind = "result" => IsCalled(ms, p.call)

\* Those keeps just the elements that are in the set.
LEMMA ThoseFacts ==
    ASSUME NEW s, IsSeq(s), NEW S
    PROVE  IsSeq(Those(s, S)) /\ ToSet(Those(s, S)) = ToSet(s) \cap S
<1> DEFINE each == [i \in DOMAIN s |-> IF s[i] \in S THEN <<s[i]>> ELSE <<>>]
<1>1. Len(s) \in Nat /\ DOMAIN s = 1..Len(s) /\ \A x : x \in ToSet(s) <=> \E i \in 1..Len(s) : s[i] = x
  BY SeqFacts
<1>2. /\ each = [i \in 1..Len(s) |-> each[i]]
      /\ \A i \in 1..Len(s) : each[i] = IF s[i] \in S THEN <<s[i]>> ELSE <<>>
  BY <1>1
<1>3. Those(s, S) = FlattenSeq(each)
  BY DEF Those
<1> HIDE DEF each
<1>4. IsSeq(each) /\ Len(each) = Len(s)
  BY <1>1, <1>2, FunctionIsSeq
<1>5. ASSUME NEW i \in 1..Len(s)
      PROVE  IsSeq(each[i]) /\ \A x : x \in ToSet(each[i]) <=> x = s[i] /\ x \in S
  <2>1. CASE s[i] \in S
    <3>1. each[i] = <<s[i]>>
      BY <1>2, <2>1
    <3>2. IsSeq(<<s[i]>>) /\ ToSet(<<s[i]>>) = {s[i]}
      BY SetOfOne
    <3> QED BY <2>1, <3>1, <3>2
  <2>2. CASE s[i] \notin S
    <3>1. each[i] = <<>>
      BY <1>2, <2>2
    <3> QED BY <2>2, <3>1, SetOfNone
  <2> QED BY <2>1, <2>2
<1>6. /\ IsSeq(FlattenSeq(each))
      /\ \A x : x \in ToSet(FlattenSeq(each)) <=> \E i \in 1..Len(each) : x \in ToSet(each[i])
  <2>1. \A i \in 1..Len(each) : IsSeq(each[i])
    BY <1>4, <1>5
  <2> QED BY <1>4, <2>1, SetOfFlat
<1>7. \A x : x \in ToSet(FlattenSeq(each)) <=> x \in ToSet(s) /\ x \in S
  BY <1>1, <1>4, <1>5, <1>6, Zenon
<1> QED BY <1>3, <1>6, <1>7

LEMMA KindFacts ==
    ASSUME NEW parts, IsSeq(parts), NEW kind
    PROVE  /\ IsSeq(Kind(parts, kind))
           /\ \A p : p \in ToSet(Kind(parts, kind)) <=> p \in ToSet(parts) /\ p.kind = kind
           /\ Kind(parts, kind) # <<>> <=> \E p \in ToSet(parts) : p.kind = kind
<1> DEFINE S == {p \in ToSet(parts) : p.kind = kind}
<1>1. Kind(parts, kind) = Those(parts, S)
  BY DEF Kind
<1>2. \A p : p \in S <=> p \in ToSet(parts) /\ p.kind = kind
  OBVIOUS
<1> HIDE DEF S
<1>3. IsSeq(Those(parts, S)) /\ ToSet(Those(parts, S)) = ToSet(parts) \cap S
  BY ThoseFacts
<1>4. Those(parts, S) = <<>> <=> ToSet(Those(parts, S)) = {}
  BY <1>3, SeqFacts
<1> QED BY <1>1, <1>2, <1>3, <1>4

LEMMA TextIsPart ==
    ASSUME NEW text, IsSeq(text), text # <<>>
    PROVE  /\ IsPart(Text(text)) /\ Text(text).kind = "text" /\ Text(text).text = text
           /\ IsPart(Thought(text)) /\ Thought(text).kind = "thought"
BY Zenon DEF IsPart, Text, Thought

LEMMA CallIsPart ==
    ASSUME NEW id, id # "", NEW tool
    PROVE  IsPart(Call(id, tool)) /\ Call(id, tool).kind = "call"
<1>1. IsSeq(<<>>)
  BY SetOfNone
<1> QED BY <1>1, Zenon DEF IsPart, Text, Call

LEMMA TextIsSeq ==
    /\ \A a, b : IsSeq(Plain(a, b)) /\ Plain(a, b) # <<>>
    /\ \A a, b : IsSeq(<<a, b>>) /\ <<a, b>> # <<>>
<1>1. \A x : IsSeq(<<x>>) /\ <<x>> # <<>>
  BY SetOfOne
<1>2. ASSUME NEW a, NEW b PROVE IsSeq(<<a, b>>) /\ <<a, b>> # <<>>
  <2>1. <<a, b>> = Append(<<a>>, b)
    OBVIOUS
  <2>2. IsSeq(<<a>>) /\ IsSeq(Append(<<a>>, b))
    BY SetOfOne, SetOfAppend
  <2> QED BY <2>1, <2>2
<1> QED BY <1>1, <1>2, Zenon DEF Plain

LEMMA FirstOfTwo ==
    ASSUME NEW x, NEW a, NEW b, x = <<a, b>>
    PROVE  x[1] = a
OBVIOUS

\* A message with a further part is one.
LEMMA MessageGrows ==
    ASSUME NEW role \in {"user", "assistant"}, NEW parts, IsSeq(parts),
           \A p \in ToSet(parts) : IsPart(p) /\ p.kind \in PartsOf(role),
           NEW p, IsPart(p), p.kind \in PartsOf(role)
    PROVE  /\ IsMessage([role |-> role, parts |-> Append(parts, p)])
           /\ IsSeq(Append(parts, p)) /\ ToSet(Append(parts, p)) = ToSet(parts) \cup {p}
<1> DEFINE ps == Append(parts, p)
<1>1. IsSeq(ps) /\ ToSet(ps) = ToSet(parts) \cup {p}
  BY SetOfAppend
<1> HIDE DEF ps
<1>2. ps # <<>>
  BY <1>1, SeqFacts
<1> DEFINE m == [role |-> role, parts |-> ps]
<1>3. m = [f \in {"role", "parts"} |-> m[f]] /\ m.role = role /\ m.parts = ps
  OBVIOUS
<1> HIDE DEF m
<1>4. IsMessage(m)
  BY <1>1, <1>2, <1>3 DEF IsMessage
<1> QED BY <1>1, <1>4 DEF m, ps

\* The results of the open calls are parts, of calls made in the conversation.
LEMMA ResultsFit ==
    ASSUME Conversation(messages), messages # <<>> => Last(messages).role = "assistant",
           NEW body, NEW error, NEW rs, rs = Results(body, error)
    PROVE  /\ IsSeq(rs) /\ (rs = <<>> <=> OpenCalls = <<>>)
           /\ \A p \in ToSet(rs) : IsPart(p) /\ p.kind = "result" /\ IsCalled(messages, p.call)
<1> DEFINE calls == OpenCalls
<1>1. IsSeq(calls) /\ \A c \in ToSet(calls) : IsPart(c) /\ c.kind = "call" /\ IsCalled(messages, c.call)
  <2>1. CASE messages = <<>>
    BY <2>1, SetOfNone DEF OpenCalls
  <2>2. CASE messages # <<>>
    <3> DEFINE m == Last(messages)
    <3>1. m \in ToSet(messages)
      <4>1. IsSeq(messages)
        BY DEF Conversation
      <4>2. Len(messages) \in 1..Len(messages)
        BY <2>2, <4>1, SeqFacts
      <4> QED BY <4>1, <4>2, SeqFacts DEF Last
    <3>2. IsMessage(m)
      BY <3>1 DEF Conversation
    <3>3. calls = Kind(m.parts, "call")
      BY <2>2 DEF OpenCalls
    <3> HIDE DEF m, calls
    <3>4. IsSeq(m.parts) /\ \A p \in ToSet(m.parts) : IsPart(p)
      BY <3>2 DEF IsMessage
    <3>5. IsSeq(calls) /\ \A c : c \in ToSet(calls) <=> c \in ToSet(m.parts) /\ c.kind = "call"
      BY <3>3, <3>4, KindFacts
    <3> QED BY <3>1, <3>4, <3>5 DEF IsCalled
  <2> QED BY <2>1, <2>2
<1>2. rs = [i \in DOMAIN calls |-> Result(calls[i].call, calls[i].tool, Plain("", body), error)]
  BY DEF Results
<1>3. (rs = <<>> <=> calls = <<>>) /\ IsSeq(rs) /\ Len(rs) = Len(calls)
      /\ \A i \in 1..Len(calls) : rs[i] = Result(calls[i].call, calls[i].tool, Plain("", body), error)
  <2> DEFINE R(i) == Result(calls[i].call, calls[i].tool, Plain("", body), error)
  <2> HIDE DEF calls, R
  <2>1. Len(calls) \in Nat /\ DOMAIN calls = 1..Len(calls) /\ (calls = <<>> <=> Len(calls) = 0)
    BY <1>1, SeqFacts
  <2>2. rs = [i \in DOMAIN calls |-> R(i)]
    BY <1>2 DEF R
  <2>3. rs = [i \in 1..Len(calls) |-> rs[i]] /\ \A i \in 1..Len(calls) : rs[i] = R(i)
    BY <2>1, <2>2
  <2>4. IsSeq(rs) /\ Len(rs) = Len(calls)
    BY <2>1, <2>3, FunctionIsSeq
  <2>5. rs = <<>> <=> calls = <<>>
    BY <2>1, <2>4, SeqFacts
  <2> QED BY <2>3, <2>4, <2>5 DEF R
<1> HIDE DEF calls
<1>4. ASSUME NEW p \in ToSet(rs) PROVE IsPart(p) /\ p.kind = "result" /\ IsCalled(messages, p.call)
  <2>1. PICK i \in 1..Len(calls) : p = rs[i]
    BY <1>3, SeqFacts
  <2> DEFINE id == calls[i].call
             tool == calls[i].tool
             text == Plain("", body)
  <2>2. calls[i] \in ToSet(calls)
    BY <1>1, SeqFacts
  <2>3. id # "" /\ IsCalled(messages, id)
    BY <1>1, <2>2, Zenon DEF IsPart
  <2>4. IsSeq(text) /\ text # <<>>
    BY TextIsSeq
  <2>5. p = Result(id, tool, text, error)
    BY <1>3, <2>1
  <2> HIDE DEF id, tool, text
  <2>6. IsPart(p) /\ p.kind = "result" /\ p.call = id
    BY <2>3, <2>4, <2>5, Zenon DEF IsPart, Result
  <2> QED BY <2>3, <2>6
<1> QED BY <1>1, <1>3, <1>4 DEF calls

\* What Prompted makes of a conversation is a message that goes with it, added to it or alone.
LEMMA PromptedFits ==
    ASSUME Conversation(messages), messages # <<>> => Last(messages).role = "assistant",
           NEW prompt \in Prompted
    PROVE  \E u : /\ Speaks(messages, u)
                  /\ \/ prompt[1] = Append(messages, u)
                     \/ prompt[1] = <<u>> /\ \A p \in ToSet(u.parts) : p.kind = "text"
<1> DEFINE User(parts) == [role |-> "user", parts |-> parts]
           go == <<Text(Plain("", "go"))>>
           file == <<Text(<<<<"", "", "go">>, <<"context", "file", "open">>>>)>>
           summary == <<Text(Plain("", "summary"))>>
           dump == Results("dump", FALSE)
           failed == Results("failed", TRUE)
           stopText == Text(Plain("", "stop"))
           stopped == Append(dump, stopText)
<1>0. "user" \in {"user", "assistant"} /\ "text" \in PartsOf("user") /\ "result" \in PartsOf("user")
  BY DEF PartsOf
<1>1. ASSUME NEW text, IsSeq(text), text # <<>>
      PROVE  /\ Speaks(messages, User(<<Text(text)>>))
             /\ \A p \in ToSet(User(<<Text(text)>>).parts) : p.kind = "text"
  <2> DEFINE t == Text(text)
  <2>1. IsPart(t) /\ t.kind = "text"
    BY <1>1, TextIsPart
  <2> HIDE DEF t
  <2>2. IsSeq(<<>>) /\ ToSet(<<>>) = {} /\ Append(<<>>, t) = <<t>> /\ ToSet(<<t>>) = {t}
    <3>1. Append(<<>>, t) = <<t>>
      OBVIOUS
    <3> QED BY <3>1, SetOfNone, SetOfOne
  <2>3. IsMessage([role |-> "user", parts |-> Append(<<>>, t)])
    BY <1>0, <2>1, <2>2, MessageGrows
  <2>4. IsMessage(User(<<t>>)) /\ User(<<t>>).role = "user" /\ User(<<t>>).parts = <<t>>
    BY <2>2, <2>3
  <2> HIDE DEF User
  <2>5. Speaks(messages, User(<<t>>)) /\ \A p \in ToSet(User(<<t>>).parts) : p.kind = "text"
    BY <2>1, <2>2, <2>4 DEF Speaks
  <2> QED BY <2>5 DEF t
<1>2. /\ Speaks(messages, User(go)) /\ Speaks(messages, User(file)) /\ Speaks(messages, User(summary))
      /\ \A p \in ToSet(User(summary).parts) : p.kind = "text"
  <2> HIDE DEF User
  <2>1. \A a, b : IsSeq(Plain(a, b)) /\ Plain(a, b) # <<>>
    BY TextIsSeq
  <2>2. \A a, b : IsSeq(<<a, b>>) /\ <<a, b>> # <<>>
    BY TextIsSeq
  <2>3. Speaks(messages, User(go))
    BY <1>1, <2>1, Zenon
  <2>4. Speaks(messages, User(file))
    BY <1>1, <2>2, Zenon
  <2>5. Speaks(messages, User(summary)) /\ \A p \in ToSet(User(summary).parts) : p.kind = "text"
    BY <1>1, <2>1, Zenon
  <2> QED BY <2>3, <2>4, <2>5
<1>3. ASSUME NEW rs, IsSeq(rs), rs # <<>>,
             \A p \in ToSet(rs) : IsPart(p) /\ p.kind = "result" /\ IsCalled(messages, p.call)
      PROVE  Speaks(messages, User(rs))
  <2>1. User(rs) = [f \in {"role", "parts"} |-> User(rs)[f]]
        /\ User(rs).role = "user" /\ User(rs).parts = rs
    OBVIOUS
  <2> HIDE DEF User
  <2>2. IsMessage(User(rs))
    BY <1>0, <1>3, <2>1 DEF IsMessage
  <2> QED BY <1>3, <2>1, <2>2 DEF Speaks
<1>4. CASE OpenCalls = <<>>
  <2>1. \/ prompt = <<Append(messages, User(go)), FALSE>>
        \/ prompt = <<Append(messages, User(file)), TRUE>>
        \/ prompt = <<<<User(summary)>>, TRUE>>
    <3>1. prompt \in {<<Append(messages, User(go)), FALSE>>, <<Append(messages, User(file)), TRUE>>}
            \cup (IF messages = <<>> THEN {} ELSE {<<<<User(summary)>>, TRUE>>})
      BY <1>4, Zenon DEF Prompted, UserSays
    <3> HIDE DEF User, go, file, summary
    <3> QED BY <3>1
  <2> HIDE DEF User, go, file, summary
  <2>2. \/ prompt[1] = Append(messages, User(go))
        \/ prompt[1] = Append(messages, User(file))
        \/ prompt[1] = <<User(summary)>>
    BY <2>1, FirstOfTwo, Zenon
  <2> QED BY <1>2, <2>2, Zenon
<1>5. CASE OpenCalls # <<>>
  <2>1. \/ prompt = <<Append(messages, User(dump)), FALSE>>
        \/ prompt = <<Append(messages, User(failed)), FALSE>>
        \/ prompt = <<Append(messages, User(stopped)), TRUE>>
    <3>1. prompt \in {<<Append(messages, User(dump)), FALSE>>,
                      <<Append(messages, User(failed)), FALSE>>,
                      <<Append(messages, User(stopped)), TRUE>>}
      BY <1>5, Zenon DEF Prompted, UserSays
    <3> HIDE DEF User, dump, failed, stopped
    <3> QED BY <3>1
  <2>2. /\ IsSeq(dump) /\ dump # <<>>
        /\ \A p \in ToSet(dump) : IsPart(p) /\ p.kind = "result" /\ IsCalled(messages, p.call)
    BY <1>5, ResultsFit
  <2>3. /\ IsSeq(failed) /\ failed # <<>>
        /\ \A p \in ToSet(failed) : IsPart(p) /\ p.kind = "result" /\ IsCalled(messages, p.call)
    BY <1>5, ResultsFit
  <2>4. IsPart(stopText) /\ stopText.kind = "text"
    <3>1. IsSeq(Plain("", "stop")) /\ Plain("", "stop") # <<>>
      BY TextIsSeq
    <3> QED BY <3>1, TextIsPart
  <2> HIDE DEF dump, failed, stopText
  <2>5. Speaks(messages, User(dump)) /\ Speaks(messages, User(failed))
    <3> HIDE DEF User
    <3> QED BY <1>3, <2>2, <2>3
  <2>6. Speaks(messages, User(stopped))
    <3>1. IsMessage([role |-> "user", parts |-> stopped]) /\ ToSet(stopped) = ToSet(dump) \cup {stopText}
      BY <1>0, <2>2, <2>4, MessageGrows
    <3>2. User(stopped).role = "user" /\ User(stopped).parts = stopped /\ IsMessage(User(stopped))
      BY <3>1
    <3> HIDE DEF User, stopped
    <3> QED BY <2>2, <2>4, <3>1, <3>2 DEF Speaks
  <2> HIDE DEF User, stopped
  <2>7. \/ prompt[1] = Append(messages, User(dump))
        \/ prompt[1] = Append(messages, User(failed))
        \/ prompt[1] = Append(messages, User(stopped))
    BY <2>1, FirstOfTwo, Zenon
  <2> QED BY <2>5, <2>6, <2>7, Zenon
<1> QED BY <1>4, <1>5

\* A reply is a message.
LEMMA RepliesFit ==
    ASSUME Exchanges \in Nat, Exchanges < MaxExchanges, NEW reply \in Replies
    PROVE  IsMessage([role |-> "assistant", parts |-> reply[1]])
<1> DEFINE n == Exchanges + 1
           id == CallIds[2 * n - 1]
           body == CallIds[2 * n]
           S == STRING \ {""}
<1>1. id # "" /\ body # ""
  <2>1. CallIds \in Seq(S) /\ Len(CallIds) >= 2 * MaxExchanges /\ MaxExchanges \in Nat
    BY AnalysisAssumption
  <2>2. \A x \in S : x # ""
    OBVIOUS
  <2> HIDE DEF S
  <2>3. Len(CallIds) \in Nat /\ \A i \in 1..Len(CallIds) : CallIds[i] \in S
    BY <2>1, ElementsOf
  <2>4. \A e, m, l \in Nat : e < m /\ l >= 2 * m => /\ 2 * (e + 1) - 1 \in 1..l
                                                    /\ 2 * (e + 1) \in 1..l
    OBVIOUS
  <2>5. 2 * n - 1 \in 1..Len(CallIds) /\ 2 * n \in 1..Len(CallIds)
    BY <2>1, <2>3, <2>4, Zenon
  <2> QED BY <2>2, <2>3, <2>5, Zenon
<1> DEFINE text == Text(Plain("", body))
           call == Call(id, "read")
           plan == Thought(Plain("", "plan"))
           mixed == Text(<<<<"thinking", "", "plan">>, <<"", CallIds[1], body>>>>)
           other == Call(body, "read")
           m(parts) == [role |-> "assistant", parts |-> parts]
<1>2. IsPart(text) /\ text.kind = "text"
  <2>1. IsSeq(Plain("", body)) /\ Plain("", body) # <<>>
    BY TextIsSeq
  <2> QED BY <2>1, TextIsPart
<1>3. IsPart(plan) /\ plan.kind = "thought"
  <2>1. IsSeq(Plain("", "plan")) /\ Plain("", "plan") # <<>>
    BY TextIsSeq
  <2> QED BY <2>1, TextIsPart
<1>4. IsPart(mixed) /\ mixed.kind = "text"
  <2> DEFINE said == <<<<"thinking", "", "plan">>, <<"", CallIds[1], body>>>>
  <2>1. IsSeq(said) /\ said # <<>>
    BY TextIsSeq
  <2> HIDE DEF said
  <2>2. IsPart(Text(said)) /\ Text(said).kind = "text"
    BY <2>1, TextIsPart
  <2> QED BY <2>2 DEF said
<1>5. IsPart(call) /\ call.kind = "call" /\ IsPart(other) /\ other.kind = "call"
  <2> HIDE DEF id, body
  <2> QED BY <1>1, CallIsPart
<1>6. \/ reply = <<<<text>>, FALSE>> \/ reply = <<<<call>>, FALSE>>
      \/ reply = <<<<plan, text, call>>, TRUE>> \/ reply = <<<<mixed>>, TRUE>>
      \/ reply = <<<<call, other>>, TRUE>>
  <2>1. reply \in {<<<<text>>, FALSE>>, <<<<call>>, FALSE>>, <<<<plan, text, call>>, TRUE>>,
                   <<<<mixed>>, TRUE>>, <<<<call, other>>, TRUE>>}
    BY Zenon DEF Replies
  <2> HIDE DEF text, call, plan, mixed, other
  <2> QED BY <2>1
<1> HIDE DEF text, call, plan, mixed, other, id, body, n
<1>7. \/ reply[1] = <<text>> \/ reply[1] = <<call>> \/ reply[1] = <<plan, text, call>>
      \/ reply[1] = <<mixed>> \/ reply[1] = <<call, other>>
  <2>1. \A a, b : reply = <<a, b>> => reply[1] = a
    BY FirstOfTwo
  <2> QED BY <1>6, <2>1, Zenon
<1>8. {"text", "thought", "call"} \subseteq PartsOf("assistant")
  BY DEF PartsOf
<1>9. "assistant" \in {"user", "assistant"}
  OBVIOUS
<1>10. ASSUME NEW p, IsPart(p), p.kind \in PartsOf("assistant")
       PROVE  IsMessage(m(<<p>>)) /\ IsSeq(<<p>>) /\ ToSet(<<p>>) = {p}
  <2>1. Append(<<>>, p) = <<p>>
    OBVIOUS
  <2>2. IsSeq(<<>>) /\ \A q \in ToSet(<<>>) : IsPart(q) /\ q.kind \in PartsOf("assistant")
    BY SetOfNone
  <2>3. IsMessage(m(Append(<<>>, p)))
    BY <1>9, <1>10, <2>2, MessageGrows
  <2> QED BY <2>1, <2>3, SetOfOne
<1>11. ASSUME NEW p, NEW q, IsPart(p), p.kind \in PartsOf("assistant"),
              IsPart(q), q.kind \in PartsOf("assistant")
       PROVE  IsMessage(m(<<p, q>>)) /\ IsSeq(<<p, q>>) /\ ToSet(<<p, q>>) = {p, q}
  <2>1. IsSeq(<<p>>) /\ ToSet(<<p>>) = {p}
    BY SetOfOne
  <2>2. /\ IsMessage(m(Append(<<p>>, q))) /\ IsSeq(Append(<<p>>, q))
        /\ ToSet(Append(<<p>>, q)) = ToSet(<<p>>) \cup {q}
    <3>1. \A x \in ToSet(<<p>>) : IsPart(x) /\ x.kind \in PartsOf("assistant")
      BY <1>11, <2>1
    <3> QED BY <1>9, <1>11, <2>1, <3>1, MessageGrows
  <2>3. Append(<<p>>, q) = <<p, q>>
    BY AppendTwo
  <2> QED BY <2>1, <2>2, <2>3
<1>12. IsMessage(m(<<plan, text, call>>))
  <2> DEFINE two == <<plan, text>>
  <2>1. IsSeq(two) /\ ToSet(two) = {plan, text}
    BY <1>2, <1>3, <1>8, <1>11
  <2>2. Append(two, call) = <<plan, text, call>>
    BY AppendTwo
  <2> HIDE DEF two
  <2>3. \A x \in ToSet(two) : IsPart(x) /\ x.kind \in PartsOf("assistant")
    BY <1>2, <1>3, <1>8, <2>1
  <2>4. IsMessage(m(Append(two, call)))
    BY <1>5, <1>8, <1>9, <2>1, <2>3, MessageGrows
  <2> QED BY <2>2, <2>4
<1> HIDE DEF m
<1>13. IsMessage(m(<<text>>)) /\ IsMessage(m(<<call>>)) /\ IsMessage(m(<<mixed>>))
  BY <1>2, <1>4, <1>5, <1>8, <1>10
<1>14. IsMessage(m(<<call, other>>))
  BY <1>5, <1>8, <1>11
<1>15. IsMessage(m(reply[1]))
  BY <1>7, <1>12, <1>13, <1>14, Zenon
<1> QED BY <1>15 DEF m

\* A conversation that goes on, or starts again without results, is one.
LEMMA PromptIsConversation ==
    ASSUME NEW ms, Conversation(ms), NEW u, Speaks(ms, u), NEW next,
           \/ next = Append(ms, u)
           \/ next = <<u>> /\ \A p \in ToSet(u.parts) : p.kind = "text"
    PROVE  /\ Conversation(next) /\ next # <<>> /\ Len(next) \in Nat /\ Len(next) # 0
           /\ next[Len(next)] = u /\ u \in ToSet(next)
           /\ next = Append(ms, u) => ToSet(ms) \subseteq ToSet(next) /\ Len(next) = Len(ms) + 1
<1>1. IsMessage(u)
  BY DEF Speaks
<1>2. CASE next = Append(ms, u)
  <2>1. IsSeq(ms)
    BY DEF Conversation
  <2>2. /\ IsSeq(next) /\ ToSet(next) = ToSet(ms) \cup {u}
        /\ Len(ms) \in Nat /\ Len(next) = Len(ms) + 1 /\ next[Len(ms) + 1] = u
    <3>1. IsSeq(next) /\ ToSet(next) = ToSet(ms) \cup {u}
      BY <1>2, <2>1, SetOfAppend
    <3>2. Len(ms) \in Nat /\ Len(next) = Len(ms) + 1
      BY <1>2, <2>1, SetOfAppend
    <3>3. next[Len(ms) + 1] = u
      BY <1>2, <2>1, SetOfAppend
    <3> QED BY <3>1, <3>2, <3>3
  <2>3. \A id : IsCalled(ms, id) => IsCalled(next, id)
    BY <2>2 DEF IsCalled
  <2>4. Conversation(next)
    BY <1>1, <2>2, <2>3 DEF Conversation, Speaks
  <2>5. Len(next) \in Nat /\ Len(next) # 0 /\ next # <<>>
    BY <2>2, SeqFacts
  <2> QED BY <2>2, <2>4, <2>5
<1>3. CASE next = <<u>> /\ \A p \in ToSet(u.parts) : p.kind = "text"
  <2>1. IsSeq(next) /\ ToSet(next) = {u}
    BY <1>3, SetOfOne
  <2>2. Len(next) = 1 /\ next[1] = u
    BY <1>3
  <2>3. Conversation(next)
    BY <1>1, <1>3, <2>1 DEF Conversation
  <2>4. next # <<>>
    BY <2>1, SeqFacts
  <2>5. next = Append(ms, u) => ToSet(ms) \subseteq ToSet(next) /\ Len(next) = Len(ms) + 1
    <3> SUFFICES ASSUME next = Append(ms, u)
                 PROVE  ToSet(ms) \subseteq ToSet(next) /\ Len(next) = Len(ms) + 1
      OBVIOUS
    <3>1. IsSeq(ms)
      BY DEF Conversation
    <3>2. ToSet(next) = ToSet(ms) \cup {u}
      BY <3>1, SetOfAppend
    <3>3. Len(next) = Len(ms) + 1
      BY <3>1, SetOfAppend
    <3> QED BY <3>2, <3>3
  <2> QED BY <2>1, <2>2, <2>3, <2>4, <2>5
<1> QED BY <1>2, <1>3

\* So is one with a reply.
LEMMA ReplyIsConversation ==
    ASSUME NEW ms, Conversation(ms), NEW m, IsMessage(m), m.role = "assistant",
           NEW next, next = Append(ms, m)
    PROVE  /\ Conversation(next) /\ Last(next) = m /\ IsSeq(next) /\ Len(ms) \in Nat
           /\ Len(next) = Len(ms) + 1 /\ \A i \in 1..Len(ms) : next[i] = ms[i]
<1>1. IsSeq(ms)
  BY DEF Conversation
<1>2. IsSeq(next) /\ ToSet(next) = ToSet(ms) \cup {m}
  BY <1>1, SetOfAppend
<1>3. Len(ms) \in Nat /\ Len(next) = Len(ms) + 1
  BY <1>1, SetOfAppend
<1>4. next[Len(ms) + 1] = m
  BY <1>1, SetOfAppend
<1>5. \A i \in 1..Len(ms) : next[i] = ms[i]
  BY <1>1, SetOfAppend
<1>6. \A id : IsCalled(ms, id) => IsCalled(next, id)
  BY <1>2 DEF IsCalled
<1>7. \A p \in ToSet(m.parts) : p.kind # "result"
  BY DEF IsMessage, PartsOf
<1>8. Conversation(next)
  BY <1>2, <1>6, <1>7 DEF Conversation
<1>9. Last(next) = m
  BY <1>3, <1>4 DEF Last
<1> QED BY <1>2, <1>3, <1>5, <1>8, <1>9
-----------------------------------------------------------------------------
(* The wire: however a client lays a conversation out, its parts arrive. *)

\* A part as a Gemini client sends it.
Nameless(q) == [q EXCEPT !.call = ""]
Sent(provider, q) == IF provider = "gemini" THEN Nameless(q) ELSE q

\* The part p of the wire message w is the part q of the message m.
Lays(provider, m, q, w, p) ==
    /\ p = Sent(provider, q)
    /\ w.role = IF provider = "openai" /\ q.kind = "result" THEN "tool" ELSE m.role

\* Every part on the wire is one of the conversation, but for OpenAI's system prompts, and every
\* part of the conversation is on the wire.
WireFits(provider, ms, wire) ==
    /\ IsSeq(wire) /\ \A w \in ToSet(wire) : IsSeq(w.parts)
    /\ \A w \in ToSet(wire) : \A p \in ToSet(w.parts) :
        \/ provider = "openai" /\ w.role = "system"
        \/ \E m \in ToSet(ms) : \E q \in ToSet(m.parts) : Lays(provider, m, q, w, p)
    /\ \A m \in ToSet(ms) : \A q \in ToSet(m.parts) :
        \E w \in ToSet(wire) : \E p \in ToSet(w.parts) : Lays(provider, m, q, w, p)

\* The parts of WireMessages.
AllNameless(m) == [m EXCEPT !.parts = [i \in DOMAIN @ |-> Nameless(@[i])]]
ResultMessages(results) == [i \in DOMAIN results |-> [role |-> "tool", parts |-> <<results[i]>>]]
TextMessages(texts) == IF texts = <<>> THEN <<>> ELSE <<[role |-> "user", parts |-> texts]>>
SplitUp(m) == ResultMessages(Kind(m.parts, "result")) \o TextMessages(Kind(m.parts, "text"))
SystemMessages(texts) ==
    [i \in DOMAIN texts |-> [role |-> "system", parts |-> <<Text(texts[i])>>]]

LEMMA WireAnthropic ==
    ASSUME NEW req, Conversation(req.messages)
    PROVE  WireFits("anthropic", req.messages, WireMessages("anthropic", req))
<1> DEFINE ms == req.messages
<1>1. WireMessages("anthropic", req) = ms
  BY Zenon DEF WireMessages
<1>2. IsSeq(ms) /\ \A m \in ToSet(ms) : IsSeq(m.parts)
  BY DEF Conversation, IsMessage
<1>3. \A m, q : Lays("anthropic", m, q, m, q)
  BY DEF Lays, Sent
<1> HIDE DEF ms
<1>4. WireFits("anthropic", ms, ms)
  BY <1>2, <1>3, Zenon DEF WireFits
<1> QED BY <1>1, <1>4 DEF ms

LEMMA AnonymousFacts ==
    ASSUME NEW m, IsMessage(m), NEW w, w = AllNameless(m)
    PROVE  /\ w.role = m.role /\ IsSeq(w.parts)
           /\ \A p : p \in ToSet(w.parts) <=> \E q \in ToSet(m.parts) : p = Nameless(q)
<1> DEFINE s == m.parts
           n == Len(s)
           f == w.parts
<1>1. IsSeq(s) /\ m = [x \in {"role", "parts"} |-> m[x]]
  BY DEF IsMessage
<1>2. n \in Nat /\ DOMAIN s = 1..n /\ \A q : q \in ToSet(s) <=> \E i \in 1..n : s[i] = q
  BY <1>1, SeqFacts
<1>3. w.role = m.role /\ f = [i \in DOMAIN s |-> Nameless(s[i])]
  BY <1>1 DEF AllNameless
<1> HIDE DEF s, n, f
<1>4. f = [i \in 1..n |-> f[i]] /\ \A i \in 1..n : f[i] = Nameless(s[i])
  BY <1>2, <1>3
<1>5. IsSeq(f) /\ Len(f) = n
  BY <1>2, <1>4, FunctionIsSeq
<1>6. \A p : p \in ToSet(f) <=> \E i \in 1..n : f[i] = p
  BY <1>5, SeqFacts
<1>7. \A p : p \in ToSet(f) <=> \E q \in ToSet(s) : p = Nameless(q)
  BY <1>2, <1>4, <1>6
<1> QED BY <1>3, <1>5, <1>7 DEF s, f

LEMMA WireGemini ==
    ASSUME NEW req, Conversation(req.messages)
    PROVE  WireFits("gemini", req.messages, WireMessages("gemini", req))
<1> DEFINE ms == req.messages
           n == Len(ms)
           wire == WireMessages("gemini", req)
<1>1. wire = [i \in DOMAIN ms |-> AllNameless(ms[i])]
  BY Zenon DEF WireMessages, Nameless, AllNameless
<1>2. IsSeq(ms) /\ \A m \in ToSet(ms) : IsMessage(m)
  BY DEF Conversation
<1> HIDE DEF wire, ms
<1>3. n \in Nat /\ DOMAIN ms = 1..n /\ \A m : m \in ToSet(ms) <=> \E i \in 1..n : ms[i] = m
  BY <1>2, SeqFacts
<1> HIDE DEF n
<1>4. wire = [i \in 1..n |-> wire[i]] /\ \A i \in 1..n : wire[i] = AllNameless(ms[i])
  BY <1>1, <1>3
<1>5. IsSeq(wire) /\ Len(wire) = n
  BY <1>3, <1>4, FunctionIsSeq
<1>6. \A w : w \in ToSet(wire) <=> \E m \in ToSet(ms) : w = AllNameless(m)
  <2>1. \A w : w \in ToSet(wire) <=> \E i \in 1..n : wire[i] = w
    BY <1>5, SeqFacts
  <2> QED BY <1>3, <1>4, <2>1
<1>7. ASSUME NEW m \in ToSet(ms), NEW w, w = AllNameless(m)
      PROVE  /\ w.role = m.role /\ IsSeq(w.parts)
             /\ \A p : p \in ToSet(w.parts) <=> \E q \in ToSet(m.parts) : p = Nameless(q)
  <2>1. IsMessage(m)
    BY <1>2
  <2> QED BY <1>7, <2>1, AnonymousFacts
<1>8. \A m, q, w : w.role = m.role => Lays("gemini", m, q, w, Nameless(q))
  BY DEF Lays, Sent
<1>9. \A w \in ToSet(wire) : IsSeq(w.parts)
  BY <1>6, <1>7
<1>10. ASSUME NEW w \in ToSet(wire), NEW p \in ToSet(w.parts)
       PROVE  \E m \in ToSet(ms) : \E q \in ToSet(m.parts) : Lays("gemini", m, q, w, p)
  <2>1. PICK m \in ToSet(ms) : w = AllNameless(m)
    BY <1>6
  <2>2. w.role = m.role
    BY <1>7, <2>1
  <2>3. \E q \in ToSet(m.parts) : p = Nameless(q)
    <3>1. \A x : x \in ToSet(w.parts) <=> \E q \in ToSet(m.parts) : x = Nameless(q)
      <4>1. IsMessage(m)
        BY <1>2
      <4> QED BY <2>1, <4>1, AnonymousFacts
    <3> QED BY <3>1, Zenon
  <2> QED BY <1>8, <2>2, <2>3
<1>11. ASSUME NEW m \in ToSet(ms), NEW q \in ToSet(m.parts)
       PROVE  \E w \in ToSet(wire) : \E p \in ToSet(w.parts) : Lays("gemini", m, q, w, p)
  <2>1. PICK w \in ToSet(wire) : w = AllNameless(m)
    BY <1>6
  <2>2. w.role = m.role /\ Nameless(q) \in ToSet(w.parts)
    BY <1>7, <2>1
  <2> QED BY <1>8, <2>2
<1>12. WireFits("gemini", ms, wire)
  BY <1>5, <1>9, <1>10, <1>11, Zenon DEF WireFits
<1> QED BY <1>12 DEF ms, wire

LEMMA SplitFacts ==
    ASSUME NEW m, IsMessage(m), m.role = "user"
    PROVE  /\ IsSeq(SplitUp(m)) /\ \A w \in ToSet(SplitUp(m)) : IsSeq(w.parts)
           /\ \A w \in ToSet(SplitUp(m)) : \A p \in ToSet(w.parts) :
                p \in ToSet(m.parts) /\ Lays("openai", m, p, w, p)
           /\ \A q \in ToSet(m.parts) :
                \E w \in ToSet(SplitUp(m)) : \E p \in ToSet(w.parts) : Lays("openai", m, q, w, p)
<1> DEFINE results == Kind(m.parts, "result")
           texts == Kind(m.parts, "text")
           One(p) == [role |-> "tool", parts |-> <<p>>]
           All == [role |-> "user", parts |-> texts]
           rs == ResultMessages(results)
           ts == TextMessages(texts)
<1>1. IsSeq(m.parts) /\ \A p \in ToSet(m.parts) : p.kind \in {"text", "result"}
  BY DEF IsMessage, PartsOf
<1>2. /\ IsSeq(results) /\ \A p : p \in ToSet(results) <=> p \in ToSet(m.parts) /\ p.kind = "result"
      /\ IsSeq(texts) /\ \A p : p \in ToSet(texts) <=> p \in ToSet(m.parts) /\ p.kind = "text"
  BY <1>1, KindFacts
<1>3. SplitUp(m) = rs \o ts
  BY DEF SplitUp
<1>4. rs = [i \in DOMAIN results |-> One(results[i])] /\ ts = IF texts = <<>> THEN <<>> ELSE <<All>>
  BY DEF ResultMessages, TextMessages
<1>5. \A p : One(p).role = "tool" /\ One(p).parts = <<p>>
  OBVIOUS
<1>6. All.role = "user" /\ All.parts = texts
  OBVIOUS
<1> HIDE DEF results, texts, One, All, rs, ts
<1>7. IsSeq(rs) /\ \A w : w \in ToSet(rs) <=> \E p \in ToSet(results) : w = One(p)
  <2>1. Len(results) \in Nat /\ DOMAIN results = 1..Len(results)
        /\ \A p : p \in ToSet(results) <=> \E i \in 1..Len(results) : results[i] = p
    BY <1>2, SeqFacts
  <2>2. rs = [i \in 1..Len(results) |-> rs[i]] /\ \A i \in 1..Len(results) : rs[i] = One(results[i])
    BY <1>4, <2>1
  <2>3. IsSeq(rs) /\ Len(rs) = Len(results)
    BY <2>1, <2>2, FunctionIsSeq
  <2>4. \A w : w \in ToSet(rs) <=> \E i \in 1..Len(results) : rs[i] = w
    BY <2>3, SeqFacts
  <2>5. \A w : w \in ToSet(rs) <=> \E p \in ToSet(results) : w = One(p)
    BY <2>1, <2>2, <2>4
  <2> QED BY <2>3, <2>5
<1>8. IsSeq(ts) /\ \A w : w \in ToSet(ts) <=> texts # <<>> /\ w = All
  <2>1. CASE texts = <<>>
    <3>1. ts = <<>>
      BY <1>4, <2>1
    <3> QED BY <2>1, <3>1, SetOfNone
  <2>2. CASE texts # <<>>
    <3>1. ts = <<All>>
      BY <1>4, <2>2
    <3>2. IsSeq(<<All>>) /\ ToSet(<<All>>) = {All}
      BY SetOfOne
    <3> QED BY <2>2, <3>1, <3>2
  <2> QED BY <2>1, <2>2
<1>9. IsSeq(rs \o ts) /\ ToSet(rs \o ts) = ToSet(rs) \cup ToSet(ts)
  BY <1>7, <1>8, SetOfConcat
<1>10. \A p : IsSeq(<<p>>) /\ ToSet(<<p>>) = {p}
  BY SetOfOne
<1>11. \A p \in ToSet(results) : Lays("openai", m, p, One(p), p)
  BY <1>2, <1>5 DEF Lays, Sent
<1>12. \A p \in ToSet(texts) : Lays("openai", m, p, All, p)
  BY <1>2, <1>6 DEF Lays, Sent
<1>13. ASSUME NEW w \in ToSet(rs \o ts)
       PROVE  IsSeq(w.parts) /\ \A p \in ToSet(w.parts) : p \in ToSet(m.parts) /\ Lays("openai", m, p, w, p)
  <2>1. CASE w \in ToSet(rs)
    <3>1. PICK p \in ToSet(results) : w = One(p)
      BY <1>7, <2>1
    <3>2. w.parts = <<p>>
      BY <1>5, <3>1
    <3> QED BY <1>2, <1>10, <1>11, <3>1, <3>2
  <2>2. CASE w \in ToSet(ts)
    <3>1. w = All
      BY <1>8, <2>2
    <3> QED BY <1>2, <1>6, <1>12, <3>1
  <2> QED BY <1>9, <2>1, <2>2
<1>14. ASSUME NEW q \in ToSet(m.parts)
       PROVE  \E w \in ToSet(rs \o ts) : \E p \in ToSet(w.parts) : Lays("openai", m, q, w, p)
  <2>1. CASE q.kind = "result"
    <3>1. q \in ToSet(results)
      BY <1>2, <2>1
    <3>2. One(q) \in ToSet(rs) /\ One(q).parts = <<q>>
      BY <1>5, <1>7, <3>1
    <3>3. q \in ToSet(One(q).parts) /\ One(q) \in ToSet(rs \o ts)
      BY <1>9, <1>10, <3>2
    <3> QED BY <1>11, <3>1, <3>3
  <2>2. CASE q.kind = "text"
    <3>1. q \in ToSet(texts)
      BY <1>2, <2>2
    <3>2. texts # <<>>
      BY <1>2, <3>1, SeqFacts
    <3>3. All \in ToSet(rs \o ts) /\ q \in ToSet(All.parts)
      BY <1>6, <1>8, <1>9, <3>1, <3>2
    <3> QED BY <1>12, <3>1, <3>3
  <2> QED BY <1>1, <2>1, <2>2
<1> QED BY <1>3, <1>9, <1>13, <1>14

LEMMA SystemFacts ==
    ASSUME NEW texts, IsSeq(texts)
    PROVE  /\ IsSeq(SystemMessages(texts))
           /\ \A w \in ToSet(SystemMessages(texts)) : w.role = "system" /\ IsSeq(w.parts)
<1> DEFINE f == SystemMessages(texts)
           n == Len(texts)
<1>1. n \in Nat /\ DOMAIN texts = 1..n
  BY SeqFacts
<1>2. f = [i \in 1..n |-> f[i]] /\ \A i \in 1..n : f[i].role = "system" /\ f[i].parts = <<Text(texts[i])>>
  BY <1>1 DEF SystemMessages
<1> HIDE DEF f, n
<1>3. IsSeq(f) /\ Len(f) = n
  BY <1>1, <1>2, FunctionIsSeq
<1>4. \A i \in 1..n : f[i].role = "system" /\ IsSeq(f[i].parts)
  BY <1>2, SetOfOne
<1>5. \A w \in ToSet(f) : \E i \in 1..n : f[i] = w
  BY <1>3, SeqFacts
<1> QED BY <1>3, <1>4, <1>5 DEF f

LEMMA WireOpenAI ==
    ASSUME NEW req, Conversation(req.messages), IsSeq(req.system)
    PROVE  WireFits("openai", req.messages, WireMessages("openai", req))
<1> DEFINE ms == req.messages
           n == Len(ms)
           wire == WireMessages("openai", req)
           sys == SystemMessages(req.system)
           Row(m) == IF m.role = "user" THEN SplitUp(m) ELSE <<m>>
           rows == [i \in DOMAIN ms |-> Row(ms[i])]
           said == FlattenSeq(rows)
<1>1. wire = sys \o said
  BY Zenon DEF WireMessages, SplitUp, ResultMessages, TextMessages, SystemMessages
<1>2. IsSeq(ms) /\ \A m \in ToSet(ms) : IsMessage(m)
  BY DEF Conversation
<1>3. IsSeq(sys) /\ \A w \in ToSet(sys) : w.role = "system" /\ IsSeq(w.parts)
  BY SystemFacts
<1>4. ASSUME NEW m, IsMessage(m)
      PROVE  /\ IsSeq(Row(m)) /\ \A w \in ToSet(Row(m)) : IsSeq(w.parts)
             /\ \A w \in ToSet(Row(m)) : \A p \in ToSet(w.parts) :
                    p \in ToSet(m.parts) /\ Lays("openai", m, p, w, p)
             /\ \A q \in ToSet(m.parts) :
                    \E w \in ToSet(Row(m)) : \E p \in ToSet(w.parts) : Lays("openai", m, q, w, p)
  <2>1. CASE m.role = "user"
    <3>1. Row(m) = SplitUp(m)
      BY <2>1
    <3> HIDE DEF Row
    <3> QED BY <1>4, <2>1, <3>1, SplitFacts
  <2>2. CASE m.role # "user"
    <3>1. Row(m) = <<m>>
      BY <2>2
    <3> HIDE DEF Row
    <3>2. IsSeq(Row(m)) /\ ToSet(Row(m)) = {m}
      BY <3>1, SetOfOne
    <3>3. IsSeq(m.parts) /\ \A q \in ToSet(m.parts) : q.kind # "result"
      BY <1>4, <2>2 DEF IsMessage, PartsOf
    <3>4. \A q \in ToSet(m.parts) : Lays("openai", m, q, m, q)
      BY <3>3 DEF Lays, Sent
    <3> QED BY <3>2, <3>3, <3>4
  <2> QED BY <2>1, <2>2
<1> HIDE DEF wire, ms, sys, Row, said
<1>5. n \in Nat /\ DOMAIN ms = 1..n /\ \A m : m \in ToSet(ms) <=> \E i \in 1..n : ms[i] = m
  BY <1>2, SeqFacts
<1> HIDE DEF n
<1>6. rows = [i \in 1..n |-> rows[i]] /\ \A i \in 1..n : rows[i] = Row(ms[i])
  BY <1>5
<1>7. said = FlattenSeq(rows)
  BY DEF said
<1> HIDE DEF rows
<1>8. IsSeq(rows) /\ Len(rows) = n
  BY <1>5, <1>6, FunctionIsSeq
<1>9. \A i \in 1..n : IsSeq(rows[i])
  BY <1>2, <1>4, <1>5, <1>6
<1>10. IsSeq(said) /\ \A w : w \in ToSet(said) <=> \E i \in 1..n : w \in ToSet(rows[i])
  BY <1>7, <1>8, <1>9, SetOfFlat
<1>11. \A w : w \in ToSet(said) <=> \E m \in ToSet(ms) : w \in ToSet(Row(m))
  BY <1>5, <1>6, <1>10
<1>12. IsSeq(wire) /\ ToSet(wire) = ToSet(sys) \cup ToSet(said)
  BY <1>1, <1>3, <1>10, SetOfConcat
<1>13. \A w \in ToSet(wire) : IsSeq(w.parts)
  BY <1>2, <1>3, <1>4, <1>11, <1>12
<1>14. ASSUME NEW w \in ToSet(wire), NEW p \in ToSet(w.parts)
       PROVE  \/ w.role = "system"
              \/ \E m \in ToSet(ms) : \E q \in ToSet(m.parts) : Lays("openai", m, q, w, p)
  <2>1. CASE w \in ToSet(sys)
    BY <1>3, <2>1
  <2>2. CASE w \in ToSet(said)
    <3>1. PICK m \in ToSet(ms) : w \in ToSet(Row(m))
      BY <1>11, <2>2
    <3>2. p \in ToSet(m.parts) /\ Lays("openai", m, p, w, p)
      BY <1>2, <1>4, <3>1
    <3> QED BY <3>2
  <2> QED BY <1>12, <2>1, <2>2
<1>15. ASSUME NEW m \in ToSet(ms), NEW q \in ToSet(m.parts)
       PROVE  \E w \in ToSet(wire) : \E p \in ToSet(w.parts) : Lays("openai", m, q, w, p)
  <2>1. PICK w \in ToSet(Row(m)) : \E p \in ToSet(w.parts) : Lays("openai", m, q, w, p)
    BY <1>2, <1>4
  <2>2. w \in ToSet(wire)
    BY <1>11, <1>12
  <2> QED BY <2>1, <2>2
<1>16. WireFits("openai", ms, wire)
  BY <1>12, <1>13, <1>14, <1>15, Zenon DEF WireFits
<1> QED BY <1>16 DEF ms, wire
-----------------------------------------------------------------------------
(* The blocks that normalizers make, and their identities. *)

\* The identities of some blocks.
KeysIn(blocks) == {Key(b) : b \in ToSet(blocks)}
\* The fields that the rules read.
IsBlock(b) == {"type", "hash", "key", "call"} \subseteq DOMAIN b
\* Blocks with content.
Filled(blocks) == \A b \in ToSet(blocks) : IsBlock(b) /\ b.hash # <<>>
\* A block with an identity of its own.
Keyed(id, type, text, key) == [Block(id, type, text) EXCEPT !.key = key]
\* The identities of what a model says, as it is sent back.
TextKeys(provider, text) ==
    IF provider = "anthropic" THEN {<<"assistant_msg", <<>>, text>>}
    ELSE KeysIn(DecomposeReply(text, <<>>))

LEMMA KeysAre ==
    ASSUME NEW blocks, IsSeq(blocks)
    PROVE  Keys(blocks) = KeysIn(blocks)
<1>1. DOMAIN blocks = 1..Len(blocks) /\ \A x : x \in ToSet(blocks) <=> \E i \in 1..Len(blocks) : blocks[i] = x
  BY SeqFacts
<1> QED BY <1>1 DEF Keys, KeysIn

LEMMA FilledJoins ==
    ASSUME NEW blocks, IsSeq(blocks)
    PROVE  Filled(blocks) => Joins(blocks)
<1>1. DOMAIN blocks = 1..Len(blocks) /\ \A x : x \in ToSet(blocks) <=> \E i \in 1..Len(blocks) : blocks[i] = x
  BY SeqFacts
<1> QED BY <1>1 DEF Filled, Joins

LEMMA OneBlock ==
    ASSUME NEW b, IsBlock(b), b.hash # <<>>
    PROVE  IsSeq(<<b>>) /\ Filled(<<b>>) /\ KeysIn(<<b>>) = {Key(b)}
<1>1. IsSeq(<<b>>) /\ ToSet(<<b>>) = {b}
  BY SetOfOne
<1> QED BY <1>1 DEF Filled, KeysIn

LEMMA NoBlock == IsSeq(<<>>) /\ Filled(<<>>) /\ KeysIn(<<>>) = {}
BY SetOfNone DEF Filled, KeysIn

LEMMA BlockFields ==
    ASSUME NEW id, NEW type, NEW text
    PROVE  /\ Block(id, type, text).type = type /\ Block(id, type, text).hash = text
           /\ Block(id, type, text).key = <<>>
BY Zenon DEF Block

LEMMA BlockIsBlock ==
    ASSUME NEW id, NEW type, NEW text
    PROVE  IsBlock(Block(id, type, text))
BY Zenon DEF Block, IsBlock

LEMMA BlockKey ==
    ASSUME NEW id, NEW type, NEW text
    PROVE  /\ Key(Block(id, type, text)) = <<type, <<>>, text>>
           /\ Block(id, type, text).hash = text /\ IsBlock(Block(id, type, text))
BY BlockFields, BlockIsBlock DEF Key

LEMMA KeyedFields ==
    ASSUME NEW id, NEW type, NEW text, NEW key
    PROVE  /\ Keyed(id, type, text, key).type = type /\ Keyed(id, type, text, key).hash = text
           /\ Keyed(id, type, text, key).key = key
BY Zenon DEF Block, Keyed

LEMMA KeyedIsBlock ==
    ASSUME NEW id, NEW type, NEW text, NEW key
    PROVE  IsBlock(Keyed(id, type, text, key))
BY Zenon DEF Block, Keyed, IsBlock

LEMMA CallFields ==
    ASSUME NEW id, NEW part, NEW b, b = CallBlock(id, part)
    PROVE  /\ b.type = "assistant_msg" /\ b.hash = CallText(part) /\ b.key = <<>>
           /\ CallText(part) # <<>>
           /\ Key(b) = <<"assistant_msg", <<>>, CallText(part)>>
           /\ IsBlock(b)
<1>1. IsBlock(b)
  BY Zenon DEF Block, CallBlock, IsBlock
<1>2. b.type = "assistant_msg" /\ b.hash = CallText(part) /\ b.key = <<>>
  BY Zenon DEF Block, CallBlock
<1>3. CallText(part) # <<>>
  <2>1. \A x : <<x>> # <<>>
    OBVIOUS
  <2> QED BY <2>1, Zenon DEF CallText
<1>4. Key(b) = <<"assistant_msg", <<>>, CallText(part)>>
  BY <1>2 DEF Key
<1> QED BY <1>1, <1>2, <1>3, <1>4

\* A decomposition has content, and its identities do not depend on the prefix of its ids.
LEMMA DecomposeFacts ==
    ASSUME NEW text, IsSeq(text), NEW default, NEW base
    PROVE  /\ IsSeq(Decompose(text, default, base)) /\ Filled(Decompose(text, default, base))
           /\ KeysIn(Decompose(text, default, base)) = KeysIn(Decompose(text, default, <<>>))
<1> DEFINE Index(i) == Cardinality({j \in 1..(i - 1) : text[j][1] # ""})
           Id(b, i) == IF Len(text) > 1 THEN Append(b, i - 1)
                       ELSE IF Len(b) > 1 THEN b ELSE Append(b, 0)
           said(i) == <<<<"", text[i][2], text[i][3]>>>>
           type(i) == TagType(text[i][1], default)
           key(i) == TagKey(text[i], Index(i))
           Of(b, i) == [Block(Id(b, i), type(i), said(i)) EXCEPT !.key = key(i)]
           n == Len(text)
           K(i) == <<type(i), key(i), IF key(i) = <<>> THEN said(i) ELSE <<>>>>
<1>1. \A b : Decompose(text, default, b) = [i \in DOMAIN text |-> Of(b, i)]
  BY Zenon DEF Decompose
<1>2. \A i : said(i) # <<>>
  <2>1. \A x : <<x>> # <<>>
    OBVIOUS
  <2> QED BY <2>1, Zenon
<1>3. ASSUME NEW b, NEW i PROVE IsBlock(Of(b, i)) /\ Of(b, i).hash # <<>> /\ Key(Of(b, i)) = K(i)
  <2> DEFINE x == Of(b, i)
             id == Id(b, i)
             ty == type(i)
             s == said(i)
             k == key(i)
  <2>1. x = Keyed(id, ty, s, k)
    BY Zenon DEF Keyed
  <2>2. s # <<>>
    BY <1>2
  <2>3. K(i) = <<ty, k, IF k = <<>> THEN s ELSE <<>>>>
    OBVIOUS
  <2> HIDE DEF x, id, ty, s, k, K, Of
  <2>4. x.type = ty /\ x.hash = s /\ x.key = k /\ IsBlock(x)
    BY <2>1, KeyedFields, KeyedIsBlock
  <2>5. Key(x) = K(i)
    BY <2>3, <2>4 DEF Key
  <2> QED BY <2>2, <2>4, <2>5 DEF x
<1> HIDE DEF Of, K, Index, Id, said, type, key, n
<1>4. n \in Nat /\ DOMAIN text = 1..n
  BY SeqFacts DEF n
<1>5. ASSUME NEW b
      PROVE  /\ IsSeq(Decompose(text, default, b)) /\ Filled(Decompose(text, default, b))
             /\ KeysIn(Decompose(text, default, b)) = {K(i) : i \in 1..n}
  <2> DEFINE d == Decompose(text, default, b)
  <2>1. d = [i \in 1..n |-> d[i]] /\ \A i \in 1..n : d[i] = Of(b, i)
    BY <1>1, <1>4
  <2> HIDE DEF d
  <2>2. IsSeq(d) /\ Len(d) = n
    BY <1>4, <2>1, FunctionIsSeq
  <2>3. \A x : x \in ToSet(d) <=> \E i \in 1..n : d[i] = x
    BY <2>2, SeqFacts
  <2>4. Filled(d)
    BY <1>3, <2>1, <2>3 DEF Filled
  <2>5. KeysIn(d) = {K(i) : i \in 1..n}
    <3>1. ASSUME NEW x \in ToSet(d) PROVE \E i \in 1..n : Key(x) = K(i)
      BY <1>3, <2>1, <2>3
    <3>2. ASSUME NEW i \in 1..n PROVE d[i] \in ToSet(d) /\ Key(d[i]) = K(i)
      BY <1>3, <2>1, <2>3
    <3>3. \A y \in KeysIn(d) : y \in {K(i) : i \in 1..n}
      BY <3>1 DEF KeysIn
    <3>4. \A y \in {K(i) : i \in 1..n} : y \in KeysIn(d)
      BY <3>2 DEF KeysIn
    <3> QED BY <3>3, <3>4
  <2> QED BY <2>2, <2>4, <2>5 DEF d
<1> QED BY <1>5

\* Nor do those of a reply.
LEMMA DecomposeReplyFacts ==
    ASSUME NEW text, IsSeq(text), text # <<>>, NEW base
    PROVE  /\ IsSeq(DecomposeReply(text, base)) /\ Filled(DecomposeReply(text, base))
           /\ KeysIn(DecomposeReply(text, base)) = KeysIn(DecomposeReply(text, <<>>))
<1>1. CASE HasThinking(text)
  <2>1. \A b : DecomposeReply(text, b) = Decompose(text, "assistant_msg", b)
    BY <1>1, Zenon DEF DecomposeReply
  <2> DEFINE a == "assistant_msg"
  <2> HIDE DEF a
  <2>2. /\ IsSeq(Decompose(text, a, base)) /\ Filled(Decompose(text, a, base))
        /\ KeysIn(Decompose(text, a, base)) = KeysIn(Decompose(text, a, <<>>))
    BY DecomposeFacts
  <2> QED BY <2>1, <2>2 DEF a
<1>2. CASE ~HasThinking(text)
  <2>1. \A b : DecomposeReply(text, b) = <<Block(b, "assistant_msg", text)>>
    BY <1>2, Zenon DEF DecomposeReply
  <2>2. ASSUME NEW b
        PROVE  /\ IsSeq(DecomposeReply(text, b)) /\ Filled(DecomposeReply(text, b))
               /\ KeysIn(DecomposeReply(text, b)) = {<<"assistant_msg", <<>>, text>>}
    <3> DEFINE x == Block(b, "assistant_msg", text)
    <3>1. Key(x) = <<"assistant_msg", <<>>, text>> /\ x.hash = text /\ IsBlock(x)
      BY BlockKey
    <3>2. DecomposeReply(text, b) = <<x>>
      BY <2>1
    <3> HIDE DEF x
    <3>3. IsSeq(<<x>>) /\ Filled(<<x>>) /\ KeysIn(<<x>>) = {Key(x)}
      BY <3>1, OneBlock
    <3> QED BY <3>1, <3>2, <3>3
  <2> QED BY <2>2
<1> QED BY <1>1, <1>2
-----------------------------------------------------------------------------
(* What becomes of one part of a message in a history. *)

\* A part on the wire, as the requests find it.
WirePart(provider, w, p) ==
    /\ IsSeq(p.text) /\ (p.kind = "call" <=> p.text = <<>>)
    /\ \/ w.role = "tool" /\ provider = "openai" /\ p.kind = "result"
       \/ w.role = "user" /\ (p.kind = "text" \/ (p.kind = "result" /\ provider # "openai"))
       \/ w.role = "assistant" /\ p.kind \in {"text", "thought", "call"}

\* The id of no call.
NoCall == ""

\* The identities of what a part of a reply becomes in a history.
SaidKeys(provider, p) ==
    IF p.kind = "call" THEN {<<"assistant_msg", <<>>, CallText(p)>>} ELSE TextKeys(provider, p.text)

\* What a part becomes has content, and the identities of what the model said.
Tells(provider, w, p, blocks) ==
    /\ IsSeq(blocks) /\ Filled(blocks)
    /\ (w.role = "assistant" /\ p.kind \in {"text", "call"}) =>
            SaidKeys(provider, p) \subseteq KeysIn(blocks)

LEMMA NamelessFields ==
    ASSUME NEW x, IsPart(x)
    PROVE  /\ Nameless(x).kind = x.kind /\ Nameless(x).text = x.text /\ Nameless(x).tool = x.tool
           /\ Nameless(x).call = NoCall
BY Zenon DEF IsPart, Nameless, NoCall

LEMMA LaysKind ==
    ASSUME NEW provider, NEW m, IsMessage(m), NEW q \in ToSet(m.parts), NEW w, NEW p,
           Lays(provider, m, q, w, p)
    PROVE  p.kind = q.kind
<1>1. IsPart(q)
  BY DEF IsMessage
<1>2. Nameless(q).kind = q.kind
  BY <1>1, NamelessFields
<1> QED BY <1>2 DEF Lays, Sent

LEMMA LaysText ==
    ASSUME NEW provider, NEW m, IsMessage(m), NEW q \in ToSet(m.parts), NEW w, NEW p,
           Lays(provider, m, q, w, p)
    PROVE  p.text = q.text
<1>1. IsPart(q)
  BY DEF IsMessage
<1>2. Nameless(q).text = q.text
  BY <1>1, NamelessFields
<1> QED BY <1>2 DEF Lays, Sent

LEMMA LaysCall ==
    ASSUME NEW provider, NEW m, IsMessage(m), NEW q \in ToSet(m.parts), NEW w, NEW p,
           Lays(provider, m, q, w, p)
    PROVE  p.call = IF provider = "gemini" THEN NoCall ELSE q.call
<1>1. IsPart(q)
  BY DEF IsMessage
<1>2. Nameless(q).call = NoCall
  BY <1>1, NamelessFields
<1> QED BY <1>2 DEF Lays, Sent

\* What Lays says of the part and of its message.
LEMMA LaysFacts ==
    ASSUME NEW provider, NEW m, IsMessage(m), NEW q \in ToSet(m.parts), NEW w, NEW p,
           Lays(provider, m, q, w, p)
    PROVE  WirePart(provider, w, p)
<1>1. p.kind = q.kind
  BY LaysKind
<1>2. p.text = q.text
  BY LaysText
<1>3. IsPart(q) /\ q.kind \in PartsOf(m.role) /\ m.role \in {"user", "assistant"}
  BY DEF IsMessage
<1>4. IsSeq(p.text) /\ (p.kind = "call" <=> p.text = <<>>)
  BY <1>1, <1>2, <1>3, Zenon DEF IsPart
<1>5. w.role = IF provider = "openai" /\ q.kind = "result" THEN "tool" ELSE m.role
  BY DEF Lays
<1>6. CASE m.role = "assistant"
  <2>1. p.kind \in {"text", "thought", "call"}
    BY <1>1, <1>3, <1>6 DEF PartsOf
  <2>2. w.role = "assistant"
    BY <1>1, <1>5, <1>6, <2>1
  <2> QED BY <1>4, <2>1, <2>2 DEF WirePart
<1>7. CASE m.role = "user"
  <2>1. p.kind \in {"text", "result"}
    BY <1>1, <1>3, <1>7 DEF PartsOf
  <2>2. CASE p.kind = "text"
    <3>1. w.role = "user"
      BY <1>1, <1>5, <1>7, <2>2
    <3> QED BY <1>4, <2>2, <3>1 DEF WirePart
  <2>3. CASE p.kind = "result" /\ provider = "openai"
    <3>1. w.role = "tool"
      BY <1>1, <1>5, <2>3
    <3> QED BY <1>4, <2>3, <3>1 DEF WirePart
  <2>4. CASE p.kind = "result" /\ provider # "openai"
    <3>1. w.role = "user"
      BY <1>1, <1>5, <1>7, <2>4
    <3> QED BY <1>4, <2>4, <3>1 DEF WirePart
  <2> QED BY <2>1, <2>2, <2>3, <2>4
<1> QED BY <1>3, <1>6, <1>7

LEMMA CallTells ==
    ASSUME NEW provider, NEW w, NEW p, p.kind = "call", NEW id
    PROVE  Tells(provider, w, p, <<CallBlock(id, p)>>)
<1> DEFINE b == CallBlock(id, p)
<1>1. IsBlock(b) /\ b.hash # <<>> /\ Key(b) = <<"assistant_msg", <<>>, CallText(p)>>
  <2>1. b = CallBlock(id, p)
    OBVIOUS
  <2> HIDE DEF b
  <2>2. IsBlock(b) /\ b.hash = CallText(p) /\ CallText(p) # <<>>
        /\ Key(b) = <<"assistant_msg", <<>>, CallText(p)>>
    BY <2>1, CallFields
  <2> QED BY <2>2
<1> HIDE DEF b
<1>2. IsSeq(<<b>>) /\ Filled(<<b>>) /\ KeysIn(<<b>>) = {Key(b)}
  BY <1>1, OneBlock
<1>3. SaidKeys(provider, p) = {Key(b)}
  BY <1>1 DEF SaidKeys
<1>4. Tells(provider, w, p, <<b>>)
  BY <1>2, <1>3 DEF Tells
<1> QED BY <1>4 DEF b

LEMMA ThoughtTells ==
    ASSUME NEW provider, NEW w, NEW p, p.kind = "thought", p.text # <<>>, NEW id, NEW key
    PROVE  /\ Tells(provider, w, p, <<ThoughtBlock(id, key, p)>>)
           /\ ThoughtBlock(id, key, p).type = "thought" /\ ThoughtBlock(id, key, p).hash = p.text
           /\ IsBlock(ThoughtBlock(id, key, p))
<1> DEFINE b == ThoughtBlock(id, key, p)
           k == <<"thinking", "">> \o key
           text == p.text
<1>1. b = Keyed(id, "thought", text, k)
  BY DEF ThoughtBlock, Keyed
<1> HIDE DEF b, k
<1>2. IsBlock(b) /\ b.type = "thought" /\ b.hash = text
  BY <1>1, KeyedIsBlock, KeyedFields
<1>3. IsSeq(<<b>>) /\ Filled(<<b>>)
  BY <1>2, OneBlock
<1>4. Tells(provider, w, p, <<b>>)
  BY <1>3 DEF Tells
<1> QED BY <1>2, <1>4 DEF b

LEMMA TextTells ==
    ASSUME NEW p, p.kind = "text", p.text # <<>>, NEW w, NEW id
    PROVE  Tells("anthropic", w, p, <<TextBlock(id, w.role, p)>>)
<1> DEFINE type == IF w.role = "user" THEN "user_msg" ELSE "assistant_msg"
           text == p.text
           b == Block(id, type, text)
<1>1. TextBlock(id, w.role, p) = b
  BY DEF TextBlock
<1>2. Key(b) = <<type, <<>>, text>> /\ b.hash = text /\ IsBlock(b)
  <2> HIDE DEF type, text
  <2> QED BY BlockKey
<1> HIDE DEF b
<1>3. IsSeq(<<b>>) /\ Filled(<<b>>) /\ KeysIn(<<b>>) = {Key(b)}
  BY <1>2, OneBlock
<1>4. ASSUME w.role = "assistant" PROVE SaidKeys("anthropic", p) = {Key(b)}
  BY <1>2, <1>4 DEF SaidKeys, TextKeys
<1>5. Tells("anthropic", w, p, <<b>>)
  BY <1>3, <1>4 DEF Tells
<1> QED BY <1>1, <1>5

LEMMA QuestionTells ==
    ASSUME NEW provider, NEW p, IsSeq(p.text), NEW w, w.role # "assistant", NEW type, NEW base
    PROVE  Tells(provider, w, p, Decompose(p.text, type, base))
<1> DEFINE text == p.text
<1>1. IsSeq(text)
  OBVIOUS
<1> HIDE DEF text
<1>2. IsSeq(Decompose(text, type, base)) /\ Filled(Decompose(text, type, base))
  BY <1>1, DecomposeFacts
<1> QED BY <1>2 DEF Tells, text

LEMMA AnswerTells ==
    ASSUME NEW provider, provider # "anthropic", NEW p, p.kind = "text", IsSeq(p.text),
           p.text # <<>>, NEW w, NEW base
    PROVE  Tells(provider, w, p, DecomposeReply(p.text, base))
<1> DEFINE text == p.text
<1>1. IsSeq(text) /\ text # <<>> /\ SaidKeys(provider, p) = KeysIn(DecomposeReply(text, <<>>))
  BY DEF SaidKeys, TextKeys
<1> HIDE DEF text
<1>2. /\ IsSeq(DecomposeReply(text, base)) /\ Filled(DecomposeReply(text, base))
      /\ KeysIn(DecomposeReply(text, base)) = KeysIn(DecomposeReply(text, <<>>))
  BY <1>1, DecomposeReplyFacts
<1> QED BY <1>1, <1>2 DEF Tells, text

LEMMA NothingTells ==
    ASSUME NEW provider, NEW p, NEW w, w.role # "assistant"
    PROVE  Tells(provider, w, p, <<>>)
BY NoBlock DEF Tells

\* Each provider's history tells each part of the wire.
LEMMA CellAnthropic ==
    ASSUME NEW w, NEW p, WirePart("anthropic", w, p), NEW i, NEW j
    PROVE  Tells("anthropic", w, p, AnthropicHistory(i, j, p, w))
<1> DEFINE out == AnthropicHistory(i, j, p, w)
           provider == "anthropic"
<1>0. /\ IsSeq(p.text) /\ (p.kind = "call" <=> p.text = <<>>)
      /\ p.kind \in {"text", "thought", "call", "result"}
      /\ p.kind = "result" => w.role # "assistant"
  BY DEF WirePart
<1>1. CASE p.kind = "text"
  <2> DEFINE id == IF Len(w.parts) = 1 THEN <<"hist", i>> ELSE <<"hist", i, j>>
  <2>1. out = <<TextBlock(id, w.role, p)>>
    BY <1>1, Zenon DEF AnthropicHistory
  <2>2. p.text # <<>>
    BY <1>0, <1>1
  <2> HIDE DEF out, id
  <2>3. Tells("anthropic", w, p, out)
    BY <1>1, <2>1, <2>2, TextTells
  <2> QED BY <2>3 DEF out
<1>2. CASE p.kind = "thought"
  <2> DEFINE id == <<"hist", i, j>>
             key == <<i, j>>
  <2>1. out = <<ThoughtBlock(id, key, p)>>
    BY <1>2, Zenon DEF AnthropicHistory
  <2>2. p.text # <<>>
    BY <1>0, <1>2
  <2> HIDE DEF out, id, key, provider
  <2>3. Tells(provider, w, p, out)
    BY <1>2, <2>1, <2>2, ThoughtTells
  <2> QED BY <2>3 DEF out, provider
<1>3. CASE p.kind = "call"
  <2> DEFINE id == <<"hist", i, j>>
  <2>1. out = <<CallBlock(id, p)>>
    BY <1>3, Zenon DEF AnthropicHistory
  <2> HIDE DEF out, id, provider
  <2>3. Tells(provider, w, p, out)
    BY <1>3, <2>1, CallTells
  <2> QED BY <2>3 DEF out, provider
<1>4. CASE p.kind = "result"
  <2>1. out = <<>>
    BY <1>4, Zenon DEF AnthropicHistory
  <2> HIDE DEF out, provider
  <2>3. Tells(provider, w, p, out)
    BY <1>0, <1>4, <2>1, NothingTells
  <2> QED BY <2>3 DEF out, provider
<1> QED BY <1>0, <1>1, <1>2, <1>3, <1>4

LEMMA CellOpenAI ==
    ASSUME NEW w, NEW p, WirePart("openai", w, p), NEW i, NEW j
    PROVE  Tells("openai", w, p, OpenAIHistory(i, j, p, w))
<1> DEFINE out == OpenAIHistory(i, j, p, w)
           provider == "openai"
<1>0. /\ IsSeq(p.text) /\ (p.kind = "call" <=> p.text = <<>>)
      /\ w.role \in {"tool", "user", "assistant"}
      /\ w.role = "assistant" => p.kind \in {"text", "thought", "call"}
  BY DEF WirePart
<1>5. provider # "anthropic"
  OBVIOUS
<1>1. CASE w.role = "tool"
  <2>1. out = <<>>
    BY <1>1, Zenon DEF OpenAIHistory
  <2>2. w.role # "assistant"
    BY <1>1
  <2> HIDE DEF out, provider
  <2>3. Tells(provider, w, p, out)
    BY <2>1, <2>2, NothingTells
  <2> QED BY <2>3 DEF out, provider
<1>2. CASE w.role = "user"
  <2> DEFINE base == IF Len(w.parts) = 1 THEN <<"hist", i>> ELSE <<"hist", i, j>>
             type == "user_msg"
  <2>0. w.role \notin {"system", "tool"} /\ w.role # "assistant"
    BY <1>2
  <2>1. out = Decompose(p.text, type, base)
    BY <1>2, <2>0, Zenon DEF OpenAIHistory
  <2> HIDE DEF out, provider, base, type
  <2>3. Tells(provider, w, p, out)
    BY <1>0, <2>0, <2>1, QuestionTells
  <2> QED BY <2>3 DEF out, provider
<1>3. CASE w.role = "assistant" /\ p.kind = "thought"
  <2> DEFINE id == <<"hist_thought", i>>
             key == <<i>>
  <2>1. out = <<ThoughtBlock(id, key, p)>>
    BY <1>3, Zenon DEF OpenAIHistory
  <2>2. p.text # <<>>
    BY <1>0, <1>3
  <2> HIDE DEF out, id, key, provider
  <2>3. Tells(provider, w, p, out)
    BY <1>3, <2>1, <2>2, ThoughtTells
  <2> QED BY <2>3 DEF out, provider
<1>4. CASE w.role = "assistant" /\ p.kind = "text"
  <2> DEFINE base == <<"hist", i>>
  <2>1. out = DecomposeReply(p.text, base)
    BY <1>4, Zenon DEF OpenAIHistory
  <2>2. p.text # <<>>
    BY <1>0, <1>4
  <2> HIDE DEF out, base, provider
  <2>3. Tells(provider, w, p, out)
    BY <1>0, <1>4, <1>5, <2>1, <2>2, AnswerTells
  <2> QED BY <2>3 DEF out, provider
<1>6. CASE w.role = "assistant" /\ p.kind = "call"
  <2> DEFINE id == <<"hist_call", i, p.call>>
  <2>1. out = <<CallBlock(id, p)>>
    BY <1>6, Zenon DEF OpenAIHistory
  <2> HIDE DEF out, id, provider
  <2>3. Tells(provider, w, p, out)
    BY <1>6, <2>1, CallTells
  <2> QED BY <2>3 DEF out, provider
<1> QED BY <1>0, <1>1, <1>2, <1>3, <1>4, <1>6

LEMMA CellGemini ==
    ASSUME NEW w, NEW p, WirePart("gemini", w, p), NEW i, NEW j
    PROVE  Tells("gemini", w, p, GeminiHistory(i, j, p, w))
<1> DEFINE out == GeminiHistory(i, j, p, w)
           provider == "gemini"
<1>0. /\ IsSeq(p.text) /\ (p.kind = "call" <=> p.text = <<>>)
      /\ p.kind \in {"text", "thought", "call", "result"}
      /\ p.kind = "result" => w.role # "assistant"
      /\ p.kind = "text" => w.role \in {"user", "assistant"}
  BY DEF WirePart
<1>5. provider # "anthropic"
  OBVIOUS
<1>1. CASE p.kind = "text" /\ w.role = "user"
  <2> DEFINE base == <<"hist", i, j>>
             type == "user_msg"
  <2>1. out = Decompose(p.text, type, base)
    BY <1>1, Zenon DEF GeminiHistory
  <2>2. w.role # "assistant"
    BY <1>1
  <2> HIDE DEF out, provider, base, type
  <2>3. Tells(provider, w, p, out)
    BY <1>0, <2>1, <2>2, QuestionTells
  <2> QED BY <2>3 DEF out, provider
<1>2. CASE p.kind = "text" /\ w.role = "assistant"
  <2> DEFINE base == <<"hist", i, j>>
  <2>1. out = DecomposeReply(p.text, base)
    BY <1>2, Zenon DEF GeminiHistory
  <2>2. p.text # <<>>
    BY <1>0, <1>2
  <2> HIDE DEF out, base, provider
  <2>3. Tells(provider, w, p, out)
    BY <1>0, <1>2, <1>5, <2>1, <2>2, AnswerTells
  <2> QED BY <2>3 DEF out, provider
<1>3. CASE p.kind = "thought"
  <2> DEFINE id == <<"hist", i, j>>
             key == <<i, j>>
  <2>1. out = <<ThoughtBlock(id, key, p)>>
    BY <1>3, Zenon DEF GeminiHistory
  <2>2. p.text # <<>>
    BY <1>0, <1>3
  <2> HIDE DEF out, id, key, provider
  <2>3. Tells(provider, w, p, out)
    BY <1>3, <2>1, <2>2, ThoughtTells
  <2> QED BY <2>3 DEF out, provider
<1>4. CASE p.kind = "call"
  <2> DEFINE id == <<"hist", i, j>>
  <2>1. out = <<CallBlock(id, p)>>
    BY <1>4, Zenon DEF GeminiHistory
  <2> HIDE DEF out, id, provider
  <2>3. Tells(provider, w, p, out)
    BY <1>4, <2>1, CallTells
  <2> QED BY <2>3 DEF out, provider
<1>6. CASE p.kind = "result"
  <2>1. out = <<>>
    BY <1>6, Zenon DEF GeminiHistory
  <2> HIDE DEF out, provider
  <2>3. Tells(provider, w, p, out)
    BY <1>0, <1>6, <2>1, NothingTells
  <2> QED BY <2>3 DEF out, provider
<1> QED BY <1>0, <1>1, <1>2, <1>3, <1>4, <1>6
-----------------------------------------------------------------------------
(* The requests: from the parts of messages to a history and results. *)

\* What PartBlocks flattens: a row of blocks for every part of every message.
IsGrid(wire, rows) ==
    /\ rows = [m \in DOMAIN wire |-> rows[m]]
    /\ \A m \in DOMAIN wire : rows[m] = [p \in DOMAIN wire[m].parts |-> rows[m][p]]
\* The rows end to end.
Flat(wire, rows) == FlattenSeq([m \in DOMAIN wire |-> FlattenSeq(rows[m])])

\* A block is in the rows end to end just when it is in one of them.
LEMMA GridFacts ==
    ASSUME NEW wire, IsSeq(wire), \A w \in ToSet(wire) : IsSeq(w.parts),
           NEW rows, IsGrid(wire, rows),
           \A m \in 1..Len(wire) : \A p \in 1..Len(wire[m].parts) : IsSeq(rows[m][p]),
           NEW out, out = Flat(wire, rows)
    PROVE  /\ IsSeq(out)
           /\ \A x : x \in ToSet(out) <=>
                \E m \in 1..Len(wire) : \E p \in 1..Len(wire[m].parts) : x \in ToSet(rows[m][p])
<1> DEFINE n == Len(wire)
           flat == [m \in DOMAIN wire |-> FlattenSeq(rows[m])]
<1>1. n \in Nat /\ DOMAIN wire = 1..n /\ \A i \in 1..n : wire[i] \in ToSet(wire)
  BY SeqFacts
<1>2. out = FlattenSeq(flat)
  BY DEF Flat
<1>3. flat = [m \in 1..n |-> flat[m]] /\ \A m \in 1..n : flat[m] = FlattenSeq(rows[m])
  BY <1>1
<1> HIDE DEF flat
<1>4. IsSeq(flat) /\ Len(flat) = n
  BY <1>1, <1>3, FunctionIsSeq
<1>5. ASSUME NEW m \in 1..n
      PROVE  /\ IsSeq(flat[m])
             /\ \A x : x \in ToSet(flat[m]) <=> \E p \in 1..Len(wire[m].parts) : x \in ToSet(rows[m][p])
  <2> DEFINE r == rows[m]
             ps == wire[m].parts
  <2>1. IsSeq(ps)
    BY <1>1
  <2>2. r = [p \in DOMAIN ps |-> r[p]]
    BY <1>1 DEF IsGrid
  <2>3. \A p \in 1..Len(ps) : IsSeq(r[p])
    OBVIOUS
  <2>4. flat[m] = FlattenSeq(r)
    BY <1>3
  <2> HIDE DEF r, ps
  <2>5. Len(ps) \in Nat /\ DOMAIN ps = 1..Len(ps)
    BY <2>1, SeqFacts
  <2>6. r = [p \in 1..Len(ps) |-> r[p]]
    BY <2>2, <2>5
  <2>7. IsSeq(r) /\ Len(r) = Len(ps)
    BY <2>5, <2>6, FunctionIsSeq
  <2>8. IsSeq(FlattenSeq(r)) /\ \A x : x \in ToSet(FlattenSeq(r)) <=> \E p \in 1..Len(r) : x \in ToSet(r[p])
    BY <2>3, <2>7, SetOfFlat
  <2> QED BY <2>4, <2>7, <2>8 DEF r, ps
<1>6. IsSeq(FlattenSeq(flat)) /\ \A x : x \in ToSet(FlattenSeq(flat)) <=> \E m \in 1..n : x \in ToSet(flat[m])
  <2>1. \A m \in 1..Len(flat) : IsSeq(flat[m])
    BY <1>4, <1>5
  <2> QED BY <1>4, <2>1, SetOfFlat
<1>7. ASSUME NEW x
      PROVE  x \in ToSet(out) <=>
                \E m \in 1..n : \E p \in 1..Len(wire[m].parts) : x \in ToSet(rows[m][p])
  <2>1. x \in ToSet(out) <=> \E m \in 1..n : x \in ToSet(flat[m])
    BY <1>2, <1>6
  <2>2. \A m \in 1..n : x \in ToSet(flat[m]) <=> \E p \in 1..Len(wire[m].parts) : x \in ToSet(rows[m][p])
    BY <1>5
  <2> QED BY <2>1, <2>2, Zenon
<1> QED BY <1>2, <1>6, <1>7

\* A history of the conversation: it has content, and the identities of all that the model said.
HistoryFits(provider, ms, out) ==
    /\ IsSeq(out) /\ Filled(out)
    /\ \A m \in ToSet(ms) : \A q \in ToSet(m.parts) :
        (m.role = "assistant" /\ q.kind \in {"text", "call"}) =>
            SaidKeys(provider, Sent(provider, q)) \subseteq KeysIn(out)

\* A history made of what every part tells is one of the conversation.
LEMMA HistoryOfCells ==
    ASSUME NEW provider, NEW ms, \A m \in ToSet(ms) : IsMessage(m),
           NEW wire, WireFits(provider, ms, wire), NEW rows, IsGrid(wire, rows),
           \A m \in 1..Len(wire) : \A p \in 1..Len(wire[m].parts) :
                /\ WirePart(provider, wire[m], wire[m].parts[p]) =>
                        Tells(provider, wire[m], wire[m].parts[p], rows[m][p])
                /\ (provider = "openai" /\ wire[m].role = "system") => rows[m][p] = <<>>,
           NEW out, out = Flat(wire, rows)
    PROVE  HistoryFits(provider, ms, out)
<1>1. IsSeq(wire) /\ \A w \in ToSet(wire) : IsSeq(w.parts)
  BY DEF WireFits
<1>2. \A w : w \in ToSet(wire) <=> \E i \in 1..Len(wire) : wire[i] = w
  BY <1>1, SeqFacts
<1>3. ASSUME NEW i \in 1..Len(wire)
      PROVE  \A p : p \in ToSet(wire[i].parts) <=> \E j \in 1..Len(wire[i].parts) : wire[i].parts[j] = p
  <2> DEFINE ps == wire[i].parts
  <2>1. IsSeq(ps)
    BY <1>1, <1>2
  <2> HIDE DEF ps
  <2>2. \A p : p \in ToSet(ps) <=> \E j \in 1..Len(ps) : ps[j] = p
    BY <2>1, SeqFacts
  <2> QED BY <2>2 DEF ps
<1>4. ASSUME NEW i \in 1..Len(wire), NEW j \in 1..Len(wire[i].parts)
      PROVE  \/ provider = "openai" /\ wire[i].role = "system"
             \/ WirePart(provider, wire[i], wire[i].parts[j])
  <2> DEFINE w == wire[i]
             p == w.parts[j]
  <2>1. w \in ToSet(wire) /\ p \in ToSet(w.parts)
    BY <1>2, <1>3
  <2> HIDE DEF w, p
  <2>2. CASE \E m \in ToSet(ms) : \E q \in ToSet(m.parts) : Lays(provider, m, q, w, p)
    <3>1. PICK m \in ToSet(ms) : \E q \in ToSet(m.parts) : Lays(provider, m, q, w, p)
      BY <2>2
    <3>2. PICK q \in ToSet(m.parts) : Lays(provider, m, q, w, p)
      BY <3>1
    <3>3. IsMessage(m)
      OBVIOUS
    <3>4. WirePart(provider, w, p)
      BY <3>2, <3>3, LaysFacts
    <3> QED BY <3>4 DEF w, p
  <2>3. CASE provider = "openai" /\ w.role = "system"
    BY <2>3 DEF w
  <2> QED BY <2>1, <2>2, <2>3, Zenon DEF WireFits
<1>5. ASSUME NEW i \in 1..Len(wire), NEW j \in 1..Len(wire[i].parts)
      PROVE  IsSeq(rows[i][j]) /\ Filled(rows[i][j])
  <2>1. CASE provider = "openai" /\ wire[i].role = "system"
    <3>1. rows[i][j] = <<>>
      BY <2>1
    <3> QED BY <3>1, NoBlock
  <2>2. CASE WirePart(provider, wire[i], wire[i].parts[j])
    <3>1. Tells(provider, wire[i], wire[i].parts[j], rows[i][j])
      BY <2>2
    <3> QED BY <3>1 DEF Tells
  <2> QED BY <1>4, <2>1, <2>2
<1>6. /\ IsSeq(out)
      /\ \A x : x \in ToSet(out) <=>
           \E m \in 1..Len(wire) : \E p \in 1..Len(wire[m].parts) : x \in ToSet(rows[m][p])
  <2>1. \A m \in 1..Len(wire) : \A p \in 1..Len(wire[m].parts) : IsSeq(rows[m][p])
    BY <1>5
  <2> QED BY <1>1, <2>1, GridFacts
<1>7. Filled(out)
  <2> SUFFICES ASSUME NEW b \in ToSet(out) PROVE IsBlock(b) /\ b.hash # <<>>
    BY DEF Filled
  <2>1. PICK i \in 1..Len(wire) : \E j \in 1..Len(wire[i].parts) : b \in ToSet(rows[i][j])
    BY <1>6
  <2>2. PICK j \in 1..Len(wire[i].parts) : b \in ToSet(rows[i][j])
    BY <2>1
  <2>3. Filled(rows[i][j])
    BY <1>5
  <2> QED BY <2>2, <2>3 DEF Filled
<1>8. ASSUME NEW m \in ToSet(ms), NEW q \in ToSet(m.parts), m.role = "assistant",
             q.kind \in {"text", "call"}
      PROVE  SaidKeys(provider, Sent(provider, q)) \subseteq KeysIn(out)
  <2>1. \E w \in ToSet(wire) : \E p \in ToSet(w.parts) : Lays(provider, m, q, w, p)
    BY DEF WireFits
  <2>2. PICK w \in ToSet(wire) : \E p \in ToSet(w.parts) : Lays(provider, m, q, w, p)
    BY <2>1
  <2>3. PICK p \in ToSet(w.parts) : Lays(provider, m, q, w, p)
    BY <2>2
  <2>4. IsMessage(m)
    OBVIOUS
  <2>5. WirePart(provider, w, p)
    BY <2>3, <2>4, LaysFacts
  <2>6. p.kind = q.kind
    BY <2>3, <2>4, LaysKind
  <2>7. w.role = "assistant" /\ p = Sent(provider, q)
    BY <1>8, <2>3 DEF Lays
  <2>8. PICK i \in 1..Len(wire) : wire[i] = w
    BY <1>2
  <2>9. PICK j \in 1..Len(wire[i].parts) : wire[i].parts[j] = p
    BY <1>3, <2>8
  <2>10. Tells(provider, w, p, rows[i][j])
    BY <2>5, <2>8, <2>9
  <2>11. SaidKeys(provider, p) \subseteq KeysIn(rows[i][j])
    BY <1>8, <2>6, <2>7, <2>10 DEF Tells
  <2>12. ToSet(rows[i][j]) \subseteq ToSet(out)
    BY <1>6
  <2>13. KeysIn(rows[i][j]) \subseteq KeysIn(out)
    BY <2>12 DEF KeysIn
  <2> QED BY <2>7, <2>11, <2>13
<1> QED BY <1>6, <1>7, <1>8 DEF HistoryFits

\* Results of the conversation, with the ids of its calls or, for Gemini, without.
ResultsAre(provider, ms, out) ==
    /\ IsSeq(out) /\ \A r \in ToSet(out) : IsBlock(r)
    /\ \A r \in ToSet(out) : \E m \in ToSet(ms) : \E q \in ToSet(m.parts) :
        q.kind = "result" /\ r.call = IF provider = "gemini" THEN NoCall ELSE q.call

\* Results made part by part are those of the conversation.
LEMMA ResultsOfCells ==
    ASSUME NEW provider, NEW ms, \A m \in ToSet(ms) : IsMessage(m),
           NEW wire, WireFits(provider, ms, wire), NEW rows, IsGrid(wire, rows),
           \A m \in 1..Len(wire) : \A p \in 1..Len(wire[m].parts) :
                /\ IsSeq(rows[m][p]) /\ \A r \in ToSet(rows[m][p]) : IsBlock(r)
                /\ \A r \in ToSet(rows[m][p]) :
                    /\ r.call = wire[m].parts[p].call
                    /\ IF provider = "openai" THEN wire[m].role = "tool"
                       ELSE wire[m].parts[p].kind = "result",
           NEW out, out = Flat(wire, rows)
    PROVE  ResultsAre(provider, ms, out)
<1>1. IsSeq(wire) /\ \A w \in ToSet(wire) : IsSeq(w.parts)
  BY DEF WireFits
<1>2. \A w : w \in ToSet(wire) <=> \E i \in 1..Len(wire) : wire[i] = w
  BY <1>1, SeqFacts
<1>3. ASSUME NEW i \in 1..Len(wire)
      PROVE  \A p : p \in ToSet(wire[i].parts) <=> \E j \in 1..Len(wire[i].parts) : wire[i].parts[j] = p
  <2> DEFINE ps == wire[i].parts
  <2>1. IsSeq(ps)
    BY <1>1, <1>2
  <2> HIDE DEF ps
  <2>2. \A p : p \in ToSet(ps) <=> \E j \in 1..Len(ps) : ps[j] = p
    BY <2>1, SeqFacts
  <2> QED BY <2>2 DEF ps
<1>6. /\ IsSeq(out)
      /\ \A x : x \in ToSet(out) <=>
           \E m \in 1..Len(wire) : \E p \in 1..Len(wire[m].parts) : x \in ToSet(rows[m][p])
  <2>1. \A m \in 1..Len(wire) : \A p \in 1..Len(wire[m].parts) : IsSeq(rows[m][p])
    OBVIOUS
  <2> QED BY <1>1, <2>1, GridFacts
<1>7. ASSUME NEW r \in ToSet(out)
      PROVE  /\ IsBlock(r)
             /\ \E m \in ToSet(ms) : \E q \in ToSet(m.parts) :
                    q.kind = "result" /\ r.call = IF provider = "gemini" THEN NoCall ELSE q.call
  <2>1. PICK i \in 1..Len(wire) : \E j \in 1..Len(wire[i].parts) : r \in ToSet(rows[i][j])
    BY <1>6
  <2>2. PICK j \in 1..Len(wire[i].parts) : r \in ToSet(rows[i][j])
    BY <2>1
  <2> DEFINE w == wire[i]
             p == w.parts[j]
  <2>3. /\ IsBlock(r) /\ r.call = p.call
        /\ IF provider = "openai" THEN w.role = "tool" ELSE p.kind = "result"
    BY <2>2
  <2>4. w \in ToSet(wire) /\ p \in ToSet(w.parts)
    BY <1>2, <1>3
  <2> HIDE DEF w, p
  <2>5. ~(provider = "openai" /\ w.role = "system")
    BY <2>3
  <2>6. \E m \in ToSet(ms) : \E q \in ToSet(m.parts) : Lays(provider, m, q, w, p)
    BY <2>4, <2>5, Zenon DEF WireFits
  <2>7. PICK m \in ToSet(ms) : \E q \in ToSet(m.parts) : Lays(provider, m, q, w, p)
    BY <2>6
  <2>8. PICK q \in ToSet(m.parts) : Lays(provider, m, q, w, p)
    BY <2>7
  <2>9. IsMessage(m)
    OBVIOUS
  <2>10. p.kind = q.kind
    BY <2>8, <2>9, LaysKind
  <2>11. p.call = IF provider = "gemini" THEN NoCall ELSE q.call
    BY <2>8, <2>9, LaysCall
  <2>12. WirePart(provider, w, p)
    BY <2>8, <2>9, LaysFacts
  <2>13. p.kind = "result"
    BY <2>3, <2>12 DEF WirePart
  <2> QED BY <2>3, <2>10, <2>11, <2>13
<1> QED BY <1>6, <1>7 DEF ResultsAre

\* The histories of the three providers.
LEMMA AnthropicHistoryFits ==
    ASSUME NEW ms, \A m \in ToSet(ms) : IsMessage(m), NEW wire, WireFits("anthropic", ms, wire)
    PROVE  HistoryFits("anthropic", ms, PartBlocks(wire, AnthropicHistory))
<1> DEFINE rows == [m \in DOMAIN wire |-> [p \in DOMAIN wire[m].parts |->
                        AnthropicHistory(m - 1, p - 1, wire[m].parts[p], wire[m])]]
           out == PartBlocks(wire, AnthropicHistory)
           provider == "anthropic"
<1>1. IsSeq(wire) /\ \A w \in ToSet(wire) : IsSeq(w.parts)
  BY DEF WireFits
<1>2. DOMAIN wire = 1..Len(wire) /\ \A m \in 1..Len(wire) : DOMAIN wire[m].parts = 1..Len(wire[m].parts)
  <2>1. DOMAIN wire = 1..Len(wire) /\ \A m \in 1..Len(wire) : wire[m] \in ToSet(wire)
    BY <1>1, SeqFacts
  <2>2. ASSUME NEW m \in 1..Len(wire) PROVE DOMAIN wire[m].parts = 1..Len(wire[m].parts)
    <3> DEFINE ps == wire[m].parts
    <3>1. IsSeq(ps)
      BY <1>1, <2>1
    <3> HIDE DEF ps
    <3>2. DOMAIN ps = 1..Len(ps)
      BY <3>1, SeqFacts
    <3> QED BY <3>2 DEF ps
  <2> QED BY <2>1, <2>2
<1>3. \A m \in DOMAIN wire :
        rows[m] = [p \in DOMAIN wire[m].parts |-> AnthropicHistory(m - 1, p - 1, wire[m].parts[p], wire[m])]
  OBVIOUS
<1>4. out = FlattenSeq([m \in DOMAIN wire |-> FlattenSeq([p \in DOMAIN wire[m].parts |->
                AnthropicHistory(m - 1, p - 1, wire[m].parts[p], wire[m])])])
  BY DEF PartBlocks
<1>5. rows = [m \in DOMAIN wire |-> rows[m]]
  OBVIOUS
<1> HIDE DEF rows, out, provider
<1>6. out = Flat(wire, rows)
  BY <1>3, <1>4 DEF Flat
<1>7. IsGrid(wire, rows)
  BY <1>3, <1>5 DEF IsGrid
<1>8. ASSUME NEW m \in 1..Len(wire), NEW p \in 1..Len(wire[m].parts)
      PROVE  /\ WirePart(provider, wire[m], wire[m].parts[p]) =>
                    Tells(provider, wire[m], wire[m].parts[p], rows[m][p])
             /\ (provider = "openai" /\ wire[m].role = "system") => rows[m][p] = <<>>
  <2> DEFINE w == wire[m]
             part == w.parts[p]
  <2>1. rows[m][p] = AnthropicHistory(m - 1, p - 1, part, w)
    BY <1>2, <1>3
  <2> HIDE DEF w, part
  <2>2. WirePart(provider, w, part) => Tells(provider, w, part, rows[m][p])
    BY <2>1, CellAnthropic DEF provider
  <2>3. (provider = "openai" /\ w.role = "system") => rows[m][p] = <<>>
    BY DEF provider
  <2> QED BY <2>2, <2>3 DEF w, part
<1>9. WireFits(provider, ms, wire)
  BY DEF provider
<1>10. HistoryFits(provider, ms, out)
  BY <1>6, <1>7, <1>8, <1>9, HistoryOfCells
<1> QED BY <1>10 DEF out, provider

LEMMA OpenAIHistoryFits ==
    ASSUME NEW ms, \A m \in ToSet(ms) : IsMessage(m), NEW wire, WireFits("openai", ms, wire)
    PROVE  HistoryFits("openai", ms, PartBlocks(wire, OpenAIHistory))
<1> DEFINE rows == [m \in DOMAIN wire |-> [p \in DOMAIN wire[m].parts |->
                        OpenAIHistory(m - 1, p - 1, wire[m].parts[p], wire[m])]]
           out == PartBlocks(wire, OpenAIHistory)
           provider == "openai"
<1>1. IsSeq(wire) /\ \A w \in ToSet(wire) : IsSeq(w.parts)
  BY DEF WireFits
<1>2. DOMAIN wire = 1..Len(wire) /\ \A m \in 1..Len(wire) : DOMAIN wire[m].parts = 1..Len(wire[m].parts)
  <2>1. DOMAIN wire = 1..Len(wire) /\ \A m \in 1..Len(wire) : wire[m] \in ToSet(wire)
    BY <1>1, SeqFacts
  <2>2. ASSUME NEW m \in 1..Len(wire) PROVE DOMAIN wire[m].parts = 1..Len(wire[m].parts)
    <3> DEFINE ps == wire[m].parts
    <3>1. IsSeq(ps)
      BY <1>1, <2>1
    <3> HIDE DEF ps
    <3>2. DOMAIN ps = 1..Len(ps)
      BY <3>1, SeqFacts
    <3> QED BY <3>2 DEF ps
  <2> QED BY <2>1, <2>2
<1>3. \A m \in DOMAIN wire :
        rows[m] = [p \in DOMAIN wire[m].parts |-> OpenAIHistory(m - 1, p - 1, wire[m].parts[p], wire[m])]
  OBVIOUS
<1>4. out = FlattenSeq([m \in DOMAIN wire |-> FlattenSeq([p \in DOMAIN wire[m].parts |->
                OpenAIHistory(m - 1, p - 1, wire[m].parts[p], wire[m])])])
  BY DEF PartBlocks
<1>5. rows = [m \in DOMAIN wire |-> rows[m]]
  OBVIOUS
<1> HIDE DEF rows, out, provider
<1>6. out = Flat(wire, rows)
  BY <1>3, <1>4 DEF Flat
<1>7. IsGrid(wire, rows)
  BY <1>3, <1>5 DEF IsGrid
<1>8. ASSUME NEW m \in 1..Len(wire), NEW p \in 1..Len(wire[m].parts)
      PROVE  /\ WirePart(provider, wire[m], wire[m].parts[p]) =>
                    Tells(provider, wire[m], wire[m].parts[p], rows[m][p])
             /\ (provider = "openai" /\ wire[m].role = "system") => rows[m][p] = <<>>
  <2> DEFINE w == wire[m]
             part == w.parts[p]
  <2>1. rows[m][p] = OpenAIHistory(m - 1, p - 1, part, w)
    BY <1>2, <1>3
  <2> HIDE DEF w, part
  <2>2. WirePart(provider, w, part) => Tells(provider, w, part, rows[m][p])
    BY <2>1, CellOpenAI DEF provider
  <2>3. (provider = "openai" /\ w.role = "system") => rows[m][p] = <<>>
    BY <2>1, Zenon DEF OpenAIHistory
  <2> QED BY <2>2, <2>3 DEF w, part
<1>9. WireFits(provider, ms, wire)
  BY DEF provider
<1>10. HistoryFits(provider, ms, out)
  BY <1>6, <1>7, <1>8, <1>9, HistoryOfCells
<1> QED BY <1>10 DEF out, provider

LEMMA GeminiHistoryFits ==
    ASSUME NEW ms, \A m \in ToSet(ms) : IsMessage(m), NEW wire, WireFits("gemini", ms, wire)
    PROVE  HistoryFits("gemini", ms, PartBlocks(wire, GeminiHistory))
<1> DEFINE rows == [m \in DOMAIN wire |-> [p \in DOMAIN wire[m].parts |->
                        GeminiHistory(m - 1, p - 1, wire[m].parts[p], wire[m])]]
           out == PartBlocks(wire, GeminiHistory)
           provider == "gemini"
<1>1. IsSeq(wire) /\ \A w \in ToSet(wire) : IsSeq(w.parts)
  BY DEF WireFits
<1>2. DOMAIN wire = 1..Len(wire) /\ \A m \in 1..Len(wire) : DOMAIN wire[m].parts = 1..Len(wire[m].parts)
  <2>1. DOMAIN wire = 1..Len(wire) /\ \A m \in 1..Len(wire) : wire[m] \in ToSet(wire)
    BY <1>1, SeqFacts
  <2>2. ASSUME NEW m \in 1..Len(wire) PROVE DOMAIN wire[m].parts = 1..Len(wire[m].parts)
    <3> DEFINE ps == wire[m].parts
    <3>1. IsSeq(ps)
      BY <1>1, <2>1
    <3> HIDE DEF ps
    <3>2. DOMAIN ps = 1..Len(ps)
      BY <3>1, SeqFacts
    <3> QED BY <3>2 DEF ps
  <2> QED BY <2>1, <2>2
<1>3. \A m \in DOMAIN wire :
        rows[m] = [p \in DOMAIN wire[m].parts |-> GeminiHistory(m - 1, p - 1, wire[m].parts[p], wire[m])]
  OBVIOUS
<1>4. out = FlattenSeq([m \in DOMAIN wire |-> FlattenSeq([p \in DOMAIN wire[m].parts |->
                GeminiHistory(m - 1, p - 1, wire[m].parts[p], wire[m])])])
  BY DEF PartBlocks
<1>5. rows = [m \in DOMAIN wire |-> rows[m]]
  OBVIOUS
<1> HIDE DEF rows, out, provider
<1>6. out = Flat(wire, rows)
  BY <1>3, <1>4 DEF Flat
<1>7. IsGrid(wire, rows)
  BY <1>3, <1>5 DEF IsGrid
<1>8. ASSUME NEW m \in 1..Len(wire), NEW p \in 1..Len(wire[m].parts)
      PROVE  /\ WirePart(provider, wire[m], wire[m].parts[p]) =>
                    Tells(provider, wire[m], wire[m].parts[p], rows[m][p])
             /\ (provider = "openai" /\ wire[m].role = "system") => rows[m][p] = <<>>
  <2> DEFINE w == wire[m]
             part == w.parts[p]
  <2>1. rows[m][p] = GeminiHistory(m - 1, p - 1, part, w)
    BY <1>2, <1>3
  <2> HIDE DEF w, part
  <2>2. WirePart(provider, w, part) => Tells(provider, w, part, rows[m][p])
    BY <2>1, CellGemini DEF provider
  <2>3. (provider = "openai" /\ w.role = "system") => rows[m][p] = <<>>
    BY DEF provider
  <2> QED BY <2>2, <2>3 DEF w, part
<1>9. WireFits(provider, ms, wire)
  BY DEF provider
<1>10. HistoryFits(provider, ms, out)
  BY <1>6, <1>7, <1>8, <1>9, HistoryOfCells
<1> QED BY <1>10 DEF out, provider

\* What the requests make of a part that is a result.
AnthropicResult(m, p, part, msg) ==
    IF part.kind = "result" THEN <<ResultBlock(<<"tool_res", part.call>>, part)>> ELSE <<>>
OpenAIResult(m, p, part, msg) ==
    IF msg.role = "tool"
    THEN <<[ResultBlock(<<"tool_res", part.call>>, part) EXCEPT !.error = FALSE]>>
    ELSE <<>>
GeminiResult(m, p, part, msg) ==
    IF part.kind = "result"
    THEN <<[ResultBlock(<<"tool_res", part.tool, m, p>>, part) EXCEPT !.tool = part.tool]>>
    ELSE <<>>

LEMMA ResultBlockCall ==
    ASSUME NEW id, NEW part, NEW tool
    PROVE  /\ ResultBlock(id, part).call = part.call
           /\ [ResultBlock(id, part) EXCEPT !.error = FALSE].call = part.call
           /\ [ResultBlock(id, part) EXCEPT !.tool = tool].call = part.call
BY Zenon DEF ResultBlock, Block

LEMMA ResultIsBlock ==
    ASSUME NEW id, NEW part, NEW tool
    PROVE  /\ IsBlock(ResultBlock(id, part))
           /\ IsBlock([ResultBlock(id, part) EXCEPT !.error = FALSE])
           /\ IsBlock([ResultBlock(id, part) EXCEPT !.tool = tool])
BY Zenon DEF ResultBlock, Block, IsBlock

LEMMA OneOrNone ==
    ASSUME NEW b, IsBlock(b), NEW c \in BOOLEAN, NEW out, out = IF c THEN <<b>> ELSE <<>>
    PROVE  /\ IsSeq(out) /\ \A r \in ToSet(out) : IsBlock(r)
           /\ \A r \in ToSet(out) : r = b /\ c
<1>1. CASE c
  BY <1>1, SetOfOne
<1>2. CASE ~c
  BY <1>2, SetOfNone
<1> QED BY <1>1, <1>2

\* The results of the three providers.
LEMMA AnthropicResultsFit ==
    ASSUME NEW ms, \A m \in ToSet(ms) : IsMessage(m), NEW wire, WireFits("anthropic", ms, wire)
    PROVE  ResultsAre("anthropic", ms, PartBlocks(wire, AnthropicResult))
<1> DEFINE rows == [m \in DOMAIN wire |-> [p \in DOMAIN wire[m].parts |->
                        AnthropicResult(m - 1, p - 1, wire[m].parts[p], wire[m])]]
           out == PartBlocks(wire, AnthropicResult)
           provider == "anthropic"
<1>1. IsSeq(wire) /\ \A w \in ToSet(wire) : IsSeq(w.parts)
  BY DEF WireFits
<1>2. DOMAIN wire = 1..Len(wire) /\ \A m \in 1..Len(wire) : DOMAIN wire[m].parts = 1..Len(wire[m].parts)
  <2>1. DOMAIN wire = 1..Len(wire) /\ \A m \in 1..Len(wire) : wire[m] \in ToSet(wire)
    BY <1>1, SeqFacts
  <2>2. ASSUME NEW m \in 1..Len(wire) PROVE DOMAIN wire[m].parts = 1..Len(wire[m].parts)
    <3> DEFINE ps == wire[m].parts
    <3>1. IsSeq(ps)
      BY <1>1, <2>1
    <3> HIDE DEF ps
    <3>2. DOMAIN ps = 1..Len(ps)
      BY <3>1, SeqFacts
    <3> QED BY <3>2 DEF ps
  <2> QED BY <2>1, <2>2
<1>3. \A m \in DOMAIN wire :
        rows[m] = [p \in DOMAIN wire[m].parts |-> AnthropicResult(m - 1, p - 1, wire[m].parts[p], wire[m])]
  OBVIOUS
<1>4. out = FlattenSeq([m \in DOMAIN wire |-> FlattenSeq([p \in DOMAIN wire[m].parts |->
                AnthropicResult(m - 1, p - 1, wire[m].parts[p], wire[m])])])
  BY DEF PartBlocks
<1>5. rows = [m \in DOMAIN wire |-> rows[m]]
  OBVIOUS
<1> HIDE DEF rows, out
<1>6. out = Flat(wire, rows)
  BY <1>3, <1>4 DEF Flat
<1>7. IsGrid(wire, rows)
  BY <1>3, <1>5 DEF IsGrid
<1>8. ASSUME NEW m \in 1..Len(wire), NEW p \in 1..Len(wire[m].parts)
      PROVE  /\ IsSeq(rows[m][p]) /\ \A r \in ToSet(rows[m][p]) : IsBlock(r)
             /\ \A r \in ToSet(rows[m][p]) :
                    /\ r.call = wire[m].parts[p].call
                    /\ IF provider = "openai" THEN wire[m].role = "tool"
                       ELSE wire[m].parts[p].kind = "result"
  <2> DEFINE w == wire[m]
             part == w.parts[p]
             id == <<"tool_res", part.call>>
             tool == part.tool
             b == ResultBlock(id, part)
             c == part.kind = "result"
             row == rows[m][p]
  <2>1. row = IF c THEN <<b>> ELSE <<>>
    BY <1>2, <1>3 DEF AnthropicResult
  <2>2. b.call = part.call
    <3> HIDE DEF id, part, tool
    <3> QED BY ResultBlockCall
  <2>3. IsBlock(b)
    <3> HIDE DEF id, part, tool
    <3> QED BY ResultIsBlock
  <2>4. c \in BOOLEAN
    OBVIOUS
  <2>5. c => IF provider = "openai" THEN w.role = "tool" ELSE part.kind = "result"
    OBVIOUS
  <2> HIDE DEF b, c, row, part, w
  <2>6. /\ IsSeq(row) /\ \A r \in ToSet(row) : IsBlock(r)
        /\ \A r \in ToSet(row) : r = b /\ c
    BY <2>1, <2>3, <2>4, OneOrNone
  <2>7. \A r \in ToSet(row) :
            /\ r.call = part.call
            /\ IF provider = "openai" THEN w.role = "tool" ELSE part.kind = "result"
    BY <2>2, <2>5, <2>6
  <2> QED BY <2>6, <2>7 DEF row, part, w
<1> HIDE DEF provider
<1>9. WireFits(provider, ms, wire)
  BY DEF provider
<1>10. ResultsAre(provider, ms, out)
  BY <1>6, <1>7, <1>8, <1>9, ResultsOfCells
<1> QED BY <1>10 DEF out, provider

LEMMA OpenAIResultsFit ==
    ASSUME NEW ms, \A m \in ToSet(ms) : IsMessage(m), NEW wire, WireFits("openai", ms, wire)
    PROVE  ResultsAre("openai", ms, PartBlocks(wire, OpenAIResult))
<1> DEFINE rows == [m \in DOMAIN wire |-> [p \in DOMAIN wire[m].parts |->
                        OpenAIResult(m - 1, p - 1, wire[m].parts[p], wire[m])]]
           out == PartBlocks(wire, OpenAIResult)
           provider == "openai"
<1>1. IsSeq(wire) /\ \A w \in ToSet(wire) : IsSeq(w.parts)
  BY DEF WireFits
<1>2. DOMAIN wire = 1..Len(wire) /\ \A m \in 1..Len(wire) : DOMAIN wire[m].parts = 1..Len(wire[m].parts)
  <2>1. DOMAIN wire = 1..Len(wire) /\ \A m \in 1..Len(wire) : wire[m] \in ToSet(wire)
    BY <1>1, SeqFacts
  <2>2. ASSUME NEW m \in 1..Len(wire) PROVE DOMAIN wire[m].parts = 1..Len(wire[m].parts)
    <3> DEFINE ps == wire[m].parts
    <3>1. IsSeq(ps)
      BY <1>1, <2>1
    <3> HIDE DEF ps
    <3>2. DOMAIN ps = 1..Len(ps)
      BY <3>1, SeqFacts
    <3> QED BY <3>2 DEF ps
  <2> QED BY <2>1, <2>2
<1>3. \A m \in DOMAIN wire :
        rows[m] = [p \in DOMAIN wire[m].parts |-> OpenAIResult(m - 1, p - 1, wire[m].parts[p], wire[m])]
  OBVIOUS
<1>4. out = FlattenSeq([m \in DOMAIN wire |-> FlattenSeq([p \in DOMAIN wire[m].parts |->
                OpenAIResult(m - 1, p - 1, wire[m].parts[p], wire[m])])])
  BY DEF PartBlocks
<1>5. rows = [m \in DOMAIN wire |-> rows[m]]
  OBVIOUS
<1> HIDE DEF rows, out
<1>6. out = Flat(wire, rows)
  BY <1>3, <1>4 DEF Flat
<1>7. IsGrid(wire, rows)
  BY <1>3, <1>5 DEF IsGrid
<1>8. ASSUME NEW m \in 1..Len(wire), NEW p \in 1..Len(wire[m].parts)
      PROVE  /\ IsSeq(rows[m][p]) /\ \A r \in ToSet(rows[m][p]) : IsBlock(r)
             /\ \A r \in ToSet(rows[m][p]) :
                    /\ r.call = wire[m].parts[p].call
                    /\ IF provider = "openai" THEN wire[m].role = "tool"
                       ELSE wire[m].parts[p].kind = "result"
  <2> DEFINE w == wire[m]
             part == w.parts[p]
             id == <<"tool_res", part.call>>
             tool == part.tool
             b == [ResultBlock(id, part) EXCEPT !.error = FALSE]
             c == w.role = "tool"
             row == rows[m][p]
  <2>1. row = IF c THEN <<b>> ELSE <<>>
    BY <1>2, <1>3 DEF OpenAIResult
  <2>2. b.call = part.call
    <3> HIDE DEF id, part, tool
    <3> QED BY ResultBlockCall
  <2>3. IsBlock(b)
    <3> HIDE DEF id, part, tool
    <3> QED BY ResultIsBlock
  <2>4. c \in BOOLEAN
    OBVIOUS
  <2>5. c => IF provider = "openai" THEN w.role = "tool" ELSE part.kind = "result"
    OBVIOUS
  <2> HIDE DEF b, c, row, part, w
  <2>6. /\ IsSeq(row) /\ \A r \in ToSet(row) : IsBlock(r)
        /\ \A r \in ToSet(row) : r = b /\ c
    BY <2>1, <2>3, <2>4, OneOrNone
  <2>7. \A r \in ToSet(row) :
            /\ r.call = part.call
            /\ IF provider = "openai" THEN w.role = "tool" ELSE part.kind = "result"
    BY <2>2, <2>5, <2>6
  <2> QED BY <2>6, <2>7 DEF row, part, w
<1> HIDE DEF provider
<1>9. WireFits(provider, ms, wire)
  BY DEF provider
<1>10. ResultsAre(provider, ms, out)
  BY <1>6, <1>7, <1>8, <1>9, ResultsOfCells
<1> QED BY <1>10 DEF out, provider

LEMMA GeminiResultsFit ==
    ASSUME NEW ms, \A m \in ToSet(ms) : IsMessage(m), NEW wire, WireFits("gemini", ms, wire)
    PROVE  ResultsAre("gemini", ms, PartBlocks(wire, GeminiResult))
<1> DEFINE rows == [m \in DOMAIN wire |-> [p \in DOMAIN wire[m].parts |->
                        GeminiResult(m - 1, p - 1, wire[m].parts[p], wire[m])]]
           out == PartBlocks(wire, GeminiResult)
           provider == "gemini"
<1>1. IsSeq(wire) /\ \A w \in ToSet(wire) : IsSeq(w.parts)
  BY DEF WireFits
<1>2. DOMAIN wire = 1..Len(wire) /\ \A m \in 1..Len(wire) : DOMAIN wire[m].parts = 1..Len(wire[m].parts)
  <2>1. DOMAIN wire = 1..Len(wire) /\ \A m \in 1..Len(wire) : wire[m] \in ToSet(wire)
    BY <1>1, SeqFacts
  <2>2. ASSUME NEW m \in 1..Len(wire) PROVE DOMAIN wire[m].parts = 1..Len(wire[m].parts)
    <3> DEFINE ps == wire[m].parts
    <3>1. IsSeq(ps)
      BY <1>1, <2>1
    <3> HIDE DEF ps
    <3>2. DOMAIN ps = 1..Len(ps)
      BY <3>1, SeqFacts
    <3> QED BY <3>2 DEF ps
  <2> QED BY <2>1, <2>2
<1>3. \A m \in DOMAIN wire :
        rows[m] = [p \in DOMAIN wire[m].parts |-> GeminiResult(m - 1, p - 1, wire[m].parts[p], wire[m])]
  OBVIOUS
<1>4. out = FlattenSeq([m \in DOMAIN wire |-> FlattenSeq([p \in DOMAIN wire[m].parts |->
                GeminiResult(m - 1, p - 1, wire[m].parts[p], wire[m])])])
  BY DEF PartBlocks
<1>5. rows = [m \in DOMAIN wire |-> rows[m]]
  OBVIOUS
<1> HIDE DEF rows, out
<1>6. out = Flat(wire, rows)
  BY <1>3, <1>4 DEF Flat
<1>7. IsGrid(wire, rows)
  BY <1>3, <1>5 DEF IsGrid
<1>8. ASSUME NEW m \in 1..Len(wire), NEW p \in 1..Len(wire[m].parts)
      PROVE  /\ IsSeq(rows[m][p]) /\ \A r \in ToSet(rows[m][p]) : IsBlock(r)
             /\ \A r \in ToSet(rows[m][p]) :
                    /\ r.call = wire[m].parts[p].call
                    /\ IF provider = "openai" THEN wire[m].role = "tool"
                       ELSE wire[m].parts[p].kind = "result"
  <2> DEFINE w == wire[m]
             part == w.parts[p]
             id == <<"tool_res", part.tool, m - 1, p - 1>>
             tool == part.tool
             b == [ResultBlock(id, part) EXCEPT !.tool = tool]
             c == part.kind = "result"
             row == rows[m][p]
  <2>1. row = IF c THEN <<b>> ELSE <<>>
    BY <1>2, <1>3 DEF GeminiResult
  <2>2. b.call = part.call
    <3> HIDE DEF id, part, tool
    <3> QED BY ResultBlockCall
  <2>3. IsBlock(b)
    <3> HIDE DEF id, part, tool
    <3> QED BY ResultIsBlock
  <2>4. c \in BOOLEAN
    OBVIOUS
  <2>5. c => IF provider = "openai" THEN w.role = "tool" ELSE part.kind = "result"
    OBVIOUS
  <2> HIDE DEF b, c, row, part, w
  <2>6. /\ IsSeq(row) /\ \A r \in ToSet(row) : IsBlock(r)
        /\ \A r \in ToSet(row) : r = b /\ c
    BY <2>1, <2>3, <2>4, OneOrNone
  <2>7. \A r \in ToSet(row) :
            /\ r.call = part.call
            /\ IF provider = "openai" THEN w.role = "tool" ELSE part.kind = "result"
    BY <2>2, <2>5, <2>6
  <2> QED BY <2>6, <2>7 DEF row, part, w
<1> HIDE DEF provider
<1>9. WireFits(provider, ms, wire)
  BY DEF provider
<1>10. ResultsAre(provider, ms, out)
  BY <1>6, <1>7, <1>8, <1>9, ResultsOfCells
<1> QED BY <1>10 DEF out, provider

\* A turn whose history and results are those of the conversation.
RequestFits(provider, ms, turn) ==
    HistoryFits(provider, ms, turn.history) /\ ResultsAre(provider, ms, turn.results)

\* A normalized request is such a turn.
LEMMA NormalizedRequest ==
    ASSUME NEW provider \in Provider, NEW req, Conversation(req.messages), IsSeq(req.system),
           NEW reply, NEW streamed, NEW input, NEW index,
           NEW turn, turn = Normalize(provider, req, reply, streamed, input, index)
    PROVE  RequestFits(provider, req.messages, turn)
<1> DEFINE ms == req.messages
<1>0. \A m \in ToSet(ms) : IsMessage(m)
  BY DEF Conversation
<1>1. CASE provider = "anthropic"
  <2> DEFINE wire == WireMessages("anthropic", req)
  <2>1. turn.history = PartBlocks(wire, AnthropicHistory)
    BY <1>1, Zenon DEF Normalize, AnthropicRequest, PartBlocks
  <2>2. turn.results = PartBlocks(wire, AnthropicResult)
    BY <1>1, Zenon DEF Normalize, AnthropicRequest, PartBlocks, AnthropicResult
  <2>3. WireFits("anthropic", ms, wire)
    BY WireAnthropic
  <2> HIDE DEF wire, ms
  <2>4. HistoryFits("anthropic", ms, turn.history)
    BY <1>0, <2>1, <2>3, AnthropicHistoryFits
  <2>5. ResultsAre("anthropic", ms, turn.results)
    BY <1>0, <2>2, <2>3, AnthropicResultsFit
  <2> QED BY <1>1, <2>4, <2>5 DEF RequestFits, ms
<1>2. CASE provider = "openai"
  <2> DEFINE wire == WireMessages("openai", req)
  <2>1. turn.history = PartBlocks(wire, OpenAIHistory)
    BY <1>2, Zenon DEF Normalize, OpenAIRequest, PartBlocks
  <2>2. turn.results = PartBlocks(wire, OpenAIResult)
    BY <1>2, Zenon DEF Normalize, OpenAIRequest, PartBlocks, OpenAIResult
  <2>3. WireFits("openai", ms, wire)
    BY WireOpenAI
  <2> HIDE DEF wire, ms
  <2>4. HistoryFits("openai", ms, turn.history)
    BY <1>0, <2>1, <2>3, OpenAIHistoryFits
  <2>5. ResultsAre("openai", ms, turn.results)
    BY <1>0, <2>2, <2>3, OpenAIResultsFit
  <2> QED BY <1>2, <2>4, <2>5 DEF RequestFits, ms
<1>3. CASE provider = "gemini"
  <2> DEFINE wire == WireMessages("gemini", req)
  <2>1. turn.history = PartBlocks(wire, GeminiHistory)
    BY <1>3, Zenon DEF Normalize, GeminiRequest, PartBlocks
  <2>2. turn.results = PartBlocks(wire, GeminiResult)
    BY <1>3, Zenon DEF Normalize, GeminiRequest, PartBlocks, GeminiResult
  <2>3. WireFits("gemini", ms, wire)
    BY WireGemini
  <2> HIDE DEF wire, ms
  <2>4. HistoryFits("gemini", ms, turn.history)
    BY <1>0, <2>1, <2>3, GeminiHistoryFits
  <2>5. ResultsAre("gemini", ms, turn.results)
    BY <1>0, <2>2, <2>3, GeminiResultsFit
  <2> QED BY <1>3, <2>4, <2>5 DEF RequestFits, ms
<1> QED BY <1>1, <1>2, <1>3 DEF Provider
-----------------------------------------------------------------------------
(* The replies: each block is known by what its history will be. *)

\* A block of a reply: a thought, or what its history will be, or what streams make of it.
Repeats(provider, streamed, parts, b) ==
    /\ IsBlock(b)
    /\ \/ b.hash # <<>> /\ b.type = "thought"
       \/ b.hash # <<>> /\ \E q \in ToSet(parts) :
            q.kind \in {"text", "call"} /\ Key(b) \in SaidKeys(provider, Sent(provider, q))
       \/ /\ provider = "anthropic" /\ streamed
          /\ b.hash = <<>> \/ \E q \in ToSet(parts) : q.kind = "thought" /\ q.text = b.hash

\* The blocks of a reply of these parts.
ReplyFits(provider, streamed, parts, out) ==
    IsSeq(out) /\ \A b \in ToSet(out) : Repeats(provider, streamed, parts, b)

\* The parts of a reply.
IsReplyOf(parts) ==
    IsSeq(parts) /\ \A q \in ToSet(parts) : IsPart(q) /\ q.kind \in {"text", "thought", "call"}

LEMMA ThoughtRepeats ==
    ASSUME NEW provider, NEW streamed, NEW parts, NEW p, p.kind = "thought", p.text # <<>>,
           NEW id, NEW key
    PROVE  Repeats(provider, streamed, parts, ThoughtBlock(id, key, p))
<1> DEFINE b == ThoughtBlock(id, key, p)
<1>1. b.type = "thought" /\ b.hash = p.text /\ IsBlock(b)
  BY ThoughtTells
<1> HIDE DEF b
<1>2. Repeats(provider, streamed, parts, b)
  BY <1>1 DEF Repeats
<1> QED BY <1>2 DEF b

LEMMA SentKind ==
    ASSUME NEW provider, NEW q, IsPart(q)
    PROVE  Sent(provider, q).kind = q.kind /\ Sent(provider, q).text = q.text
BY NamelessFields DEF Sent

LEMMA CallRepeats ==
    ASSUME NEW provider, NEW streamed, NEW parts, NEW q \in ToSet(parts), IsPart(q),
           q.kind = "call", NEW x, x = Sent(provider, q), NEW id
    PROVE  Repeats(provider, streamed, parts, CallBlock(id, x))
<1> DEFINE b == CallBlock(id, x)
<1>1. IsBlock(b) /\ b.hash # <<>> /\ Key(b) = <<"assistant_msg", <<>>, CallText(x)>>
  <2>1. b = CallBlock(id, x)
    OBVIOUS
  <2> HIDE DEF b
  <2>2. IsBlock(b) /\ b.hash = CallText(x) /\ CallText(x) # <<>>
        /\ Key(b) = <<"assistant_msg", <<>>, CallText(x)>>
    BY <2>1, CallFields
  <2> QED BY <2>2
<1> HIDE DEF b
<1>2. x.kind = "call"
  BY SentKind
<1>3. Key(b) \in SaidKeys(provider, x)
  BY <1>1, <1>2 DEF SaidKeys
<1>4. Repeats(provider, streamed, parts, b)
  BY <1>1, <1>3 DEF Repeats
<1> QED BY <1>4 DEF b

LEMMA TextSent ==
    ASSUME NEW provider, NEW q, IsPart(q), q.kind = "text"
    PROVE  SaidKeys(provider, Sent(provider, q)) = TextKeys(provider, q.text)
<1>1. Sent(provider, q).kind = "text" /\ Sent(provider, q).text = q.text
  BY SentKind
<1> QED BY <1>1 DEF SaidKeys

LEMMA AnswerRepeats ==
    ASSUME NEW provider, provider # "anthropic", NEW streamed, NEW parts, NEW q \in ToSet(parts),
           IsPart(q), q.kind = "text", NEW base
    PROVE  ReplyFits(provider, streamed, parts, DecomposeReply(q.text, base))
<1> DEFINE text == q.text
           out == DecomposeReply(text, base)
<1>1. IsSeq(text) /\ text # <<>>
  BY Zenon DEF IsPart
<1>2. SaidKeys(provider, Sent(provider, q)) = KeysIn(DecomposeReply(text, <<>>))
  BY TextSent DEF TextKeys
<1> HIDE DEF text
<1>3. IsSeq(out) /\ Filled(out) /\ KeysIn(out) = KeysIn(DecomposeReply(text, <<>>))
  BY <1>1, DecomposeReplyFacts
<1> HIDE DEF out
<1>4. ASSUME NEW b \in ToSet(out) PROVE Repeats(provider, streamed, parts, b)
  <2>1. IsBlock(b) /\ b.hash # <<>>
    BY <1>3 DEF Filled
  <2>2. Key(b) \in SaidKeys(provider, Sent(provider, q))
    BY <1>2, <1>3 DEF KeysIn
  <2> QED BY <2>1, <2>2 DEF Repeats
<1>5. ReplyFits(provider, streamed, parts, out)
  BY <1>3, <1>4 DEF ReplyFits
<1> QED BY <1>5 DEF out, text

LEMMA SaidRepeats ==
    ASSUME NEW streamed, NEW parts, NEW q \in ToSet(parts), IsPart(q), q.kind = "text", NEW id
    PROVE  /\ Repeats("anthropic", streamed, parts, TextBlock(id, "assistant", q))
           /\ Repeats("anthropic", streamed, parts, Block(id, "assistant_msg", q.text))
<1> DEFINE text == q.text
           type == "assistant_msg"
           b == Block(id, type, text)
           provider == "anthropic"
<1>1. text # <<>>
  BY Zenon DEF IsPart
<1>2. SaidKeys(provider, Sent(provider, q)) = {<<type, <<>>, text>>}
  BY TextSent DEF TextKeys
<1>3. TextBlock(id, "assistant", q) = b
  BY DEF TextBlock
<1> HIDE DEF text, type, b, provider
<1>4. Key(b) = <<type, <<>>, text>> /\ b.hash = text /\ IsBlock(b)
  BY BlockKey DEF b
<1>5. Key(b) \in SaidKeys(provider, Sent(provider, q))
  BY <1>2, <1>4
<1>6. Repeats(provider, streamed, parts, b)
  BY <1>1, <1>4, <1>5 DEF Repeats
<1> QED BY <1>3, <1>6 DEF b, type, text, provider

LEMMA StreamRepeats ==
    ASSUME NEW streamed, streamed, NEW parts, NEW q \in ToSet(parts), IsPart(q),
           q.kind \in {"text", "thought", "call"}, NEW id
    PROVE  Repeats("anthropic", streamed, parts, Block(id, "assistant_msg", q.text))
<1> DEFINE text == q.text
           type == "assistant_msg"
           b == Block(id, type, text)
<1>1. CASE q.kind = "text"
  BY <1>1, SaidRepeats
<1>2. CASE q.kind # "text"
  <2>1. b.hash = text /\ IsBlock(b)
    <3> HIDE DEF text, type
    <3> QED BY BlockKey
  <2> HIDE DEF b, type
  <2>2. q.kind = "call" => text = <<>>
    BY Zenon DEF IsPart
  <2>3. text = <<>> \/ (q.kind = "thought" /\ q.text = text)
    BY <1>2, <2>2
  <2>4. Repeats("anthropic", streamed, parts, b)
    <3>1. b.hash = <<>> \/ \E x \in ToSet(parts) : x.kind = "thought" /\ x.text = b.hash
      BY <2>1, <2>3
    <3> QED BY <2>1, <3>1 DEF Repeats
  <2> QED BY <2>4 DEF b, type
<1> QED BY <1>1, <1>2

\* A reply may be put together.
LEMMA ReplyFitsParts ==
    ASSUME NEW provider, NEW streamed, NEW parts
    PROVE  /\ ReplyFits(provider, streamed, parts, <<>>)
           /\ \A b : Repeats(provider, streamed, parts, b) => ReplyFits(provider, streamed, parts, <<b>>)
           /\ \A x, y : (ReplyFits(provider, streamed, parts, x) /\ ReplyFits(provider, streamed, parts, y))
                            => ReplyFits(provider, streamed, parts, x \o y)
<1>1. ReplyFits(provider, streamed, parts, <<>>)
  BY SetOfNone DEF ReplyFits
<1>2. ASSUME NEW b, Repeats(provider, streamed, parts, b)
      PROVE  ReplyFits(provider, streamed, parts, <<b>>)
  <2>1. IsSeq(<<b>>) /\ ToSet(<<b>>) = {b}
    BY SetOfOne
  <2> QED BY <1>2, <2>1 DEF ReplyFits
<1>3. ASSUME NEW x, NEW y, ReplyFits(provider, streamed, parts, x), ReplyFits(provider, streamed, parts, y)
      PROVE  ReplyFits(provider, streamed, parts, x \o y)
  <2>1. IsSeq(x) /\ IsSeq(y)
    BY <1>3 DEF ReplyFits
  <2>2. IsSeq(x \o y) /\ ToSet(x \o y) = ToSet(x) \cup ToSet(y)
    BY <2>1, SetOfConcat
  <2> QED BY <1>3, <2>2 DEF ReplyFits
<1> QED BY <1>1, <1>2, <1>3

LEMMA RowFits ==
    ASSUME NEW provider, NEW streamed, NEW parts, NEW n \in Nat,
           NEW f, f = [i \in 1..n |-> f[i]], \A i \in 1..n : Repeats(provider, streamed, parts, f[i])
    PROVE  ReplyFits(provider, streamed, parts, f)
<1>1. IsSeq(f) /\ Len(f) = n
  BY FunctionIsSeq
<1>2. \A x : x \in ToSet(f) <=> \E i \in 1..n : f[i] = x
  BY <1>1, SeqFacts
<1> QED BY <1>1, <1>2 DEF ReplyFits

\* The replies of the three providers.
LEMMA AnthropicReplyFits ==
    ASSUME NEW streamed \in BOOLEAN, NEW parts, IsReplyOf(parts)
    PROVE  ReplyFits("anthropic", streamed, parts, AnthropicReply(parts, streamed))
<1> DEFINE f == AnthropicReply(parts, streamed)
           n == Len(parts)
           provider == "anthropic"
<1>1. n \in Nat /\ DOMAIN parts = 1..n /\ \A i \in 1..n : parts[i] \in ToSet(parts)
  <2>1. IsSeq(parts)
    BY DEF IsReplyOf
  <2> QED BY <2>1, SeqFacts
<1>2. f = [i \in DOMAIN parts |->
        CASE streamed -> Block(<<"resp", i - 1>>, "assistant_msg", parts[i].text)
          [] ~streamed /\ parts[i].kind = "text" ->
                TextBlock(<<"resp", i - 1>>, "assistant", parts[i])
          [] ~streamed /\ parts[i].kind = "thought" ->
                ThoughtBlock(<<"resp_thought", i - 1>>, <<i - 1>>, parts[i])
          [] ~streamed /\ parts[i].kind = "call" ->
                CallBlock(<<"resp_tool", parts[i].call>>, parts[i])]
  BY Zenon DEF AnthropicReply
<1>3. ASSUME NEW i \in 1..n PROVE Repeats("anthropic", streamed, parts, f[i])
  <2> DEFINE q == parts[i]
  <2>0. q \in ToSet(parts) /\ IsPart(q) /\ q.kind \in {"text", "thought", "call"}
    BY <1>1 DEF IsReplyOf
  <2>1. CASE streamed
    <3> DEFINE id == <<"resp", i - 1>>
    <3>1. f[i] = Block(id, "assistant_msg", q.text)
      BY <1>1, <1>2, <2>1, Zenon
    <3> HIDE DEF f, id, q
    <3>2. Repeats("anthropic", streamed, parts, Block(id, "assistant_msg", q.text))
      BY <2>0, <2>1, StreamRepeats
    <3> QED BY <3>1, <3>2
  <2>2. CASE ~streamed /\ q.kind = "text"
    <3> DEFINE id == <<"resp", i - 1>>
    <3>1. f[i] = TextBlock(id, "assistant", q)
      BY <1>1, <1>2, <2>2, Zenon
    <3> HIDE DEF f, id, q
    <3>2. Repeats("anthropic", streamed, parts, TextBlock(id, "assistant", q))
      BY <2>0, <2>2, SaidRepeats
    <3> QED BY <3>1, <3>2
  <2>3. CASE ~streamed /\ q.kind = "thought"
    <3> DEFINE id == <<"resp_thought", i - 1>>
               key == <<i - 1>>
    <3>1. f[i] = ThoughtBlock(id, key, q)
      BY <1>1, <1>2, <2>3, Zenon
    <3> HIDE DEF f, id, q, key, provider
    <3>2. q.text # <<>>
      BY <2>0, <2>3, Zenon DEF IsPart
    <3>3. Repeats(provider, streamed, parts, ThoughtBlock(id, key, q))
      BY <2>3, <3>2, ThoughtRepeats
    <3> QED BY <3>1, <3>3 DEF provider
  <2>4. CASE ~streamed /\ q.kind = "call"
    <3> DEFINE id == <<"resp_tool", q.call>>
    <3>1. f[i] = CallBlock(id, q)
      BY <1>1, <1>2, <2>4, Zenon
    <3>2. q = Sent(provider, q)
      BY DEF Sent
    <3> HIDE DEF f, id, q, provider
    <3>3. Repeats(provider, streamed, parts, CallBlock(id, q))
      BY <2>0, <2>4, <3>2, CallRepeats
    <3> QED BY <3>1, <3>3 DEF provider
  <2> QED BY <2>0, <2>1, <2>2, <2>3, <2>4
<1>4. f = [i \in 1..n |-> f[i]]
  BY <1>1, <1>2
<1> HIDE DEF f, n, provider
<1>5. ReplyFits(provider, streamed, parts, f)
  BY <1>1, <1>3, <1>4, RowFits DEF provider
<1> QED BY <1>5 DEF f, provider

LEMMA OpenAIReplyFits ==
    ASSUME NEW streamed, NEW parts, IsReplyOf(parts)
    PROVE  ReplyFits("openai", streamed, parts, OpenAIReply(parts, streamed))
<1> DEFINE provider == "openai"
           thoughts == Kind(parts, "thought")
           texts == Kind(parts, "text")
           calls == Kind(parts, "call")
           n == Len(calls)
           id0 == <<"resp_thought", 0>>
           key0 == <<0>>
           base == <<"resp_text", 0>>
           id(c) == <<"resp_tool", c.call>>
           a == IF streamed \/ thoughts = <<>> THEN <<>>
                ELSE <<ThoughtBlock(id0, key0, thoughts[1])>>
           b == IF texts = <<>> THEN <<>> ELSE DecomposeReply(texts[1].text, base)
           c == [i \in DOMAIN calls |-> CallBlock(id(calls[i]), calls[i])]
<1>1. OpenAIReply(parts, streamed) = a \o b \o c
  BY Zenon DEF OpenAIReply
<1>2. IsSeq(parts) /\ \A q \in ToSet(parts) : IsPart(q) /\ q.kind \in {"text", "thought", "call"}
  BY DEF IsReplyOf
<1>3. provider # "anthropic" /\ \A q : Sent(provider, q) = q
  BY DEF Sent
<1>4. IsSeq(thoughts) /\ \A q : q \in ToSet(thoughts) <=> q \in ToSet(parts) /\ q.kind = "thought"
  BY <1>2, KindFacts
<1>5. IsSeq(texts) /\ \A q : q \in ToSet(texts) <=> q \in ToSet(parts) /\ q.kind = "text"
  BY <1>2, KindFacts
<1>6. IsSeq(calls) /\ \A q : q \in ToSet(calls) <=> q \in ToSet(parts) /\ q.kind = "call"
  BY <1>2, KindFacts
<1> HIDE DEF thoughts, texts, calls, provider, id0, key0, base, id
<1>7. ReplyFits(provider, streamed, parts, a)
  <2>1. CASE streamed \/ thoughts = <<>>
    <3>1. a = <<>>
      BY <2>1
    <3> QED BY <3>1, ReplyFitsParts
  <2>2. CASE ~(streamed \/ thoughts = <<>>)
    <3> DEFINE q == thoughts[1]
    <3>1. a = <<ThoughtBlock(id0, key0, q)>>
      BY <2>2
    <3>2. q \in ToSet(thoughts)
      <4>1. Len(thoughts) \in Nat /\ Len(thoughts) # 0
        BY <1>4, <2>2, SeqFacts
      <4>2. 1 \in 1..Len(thoughts)
        BY <4>1
      <4> QED BY <1>4, <4>2, SeqFacts
    <3> HIDE DEF q, a
    <3>3. IsPart(q) /\ q.kind = "thought"
      BY <1>2, <1>4, <3>2
    <3>4. q.text # <<>>
      BY <3>3, Zenon DEF IsPart
    <3>5. Repeats(provider, streamed, parts, ThoughtBlock(id0, key0, q))
      BY <3>3, <3>4, ThoughtRepeats
    <3> QED BY <3>1, <3>5, ReplyFitsParts
  <2> QED BY <2>1, <2>2
<1>8. ReplyFits(provider, streamed, parts, b)
  <2>1. CASE texts = <<>>
    <3>1. b = <<>>
      BY <2>1
    <3> QED BY <3>1, ReplyFitsParts
  <2>2. CASE texts # <<>>
    <3> DEFINE q == texts[1]
    <3>1. b = DecomposeReply(q.text, base)
      BY <2>2
    <3>2. q \in ToSet(texts)
      <4>1. Len(texts) \in Nat /\ Len(texts) # 0
        BY <1>5, <2>2, SeqFacts
      <4>2. 1 \in 1..Len(texts)
        BY <4>1
      <4> QED BY <1>5, <4>2, SeqFacts
    <3> HIDE DEF q, b
    <3>3. q \in ToSet(parts) /\ IsPart(q) /\ q.kind = "text"
      BY <1>2, <1>5, <3>2
    <3>4. ReplyFits(provider, streamed, parts, DecomposeReply(q.text, base))
      BY <1>3, <3>3, AnswerRepeats
    <3> QED BY <3>1, <3>4
  <2> QED BY <2>1, <2>2
<1>9. ReplyFits(provider, streamed, parts, c)
  <2>1. n \in Nat /\ DOMAIN calls = 1..n /\ \A i \in 1..n : calls[i] \in ToSet(calls)
    BY <1>6, SeqFacts
  <2>2. c = [i \in 1..n |-> c[i]] /\ \A i \in 1..n : c[i] = CallBlock(id(calls[i]), calls[i])
    BY <2>1
  <2> HIDE DEF c, n
  <2>3. ASSUME NEW i \in 1..n PROVE Repeats(provider, streamed, parts, c[i])
    <3> DEFINE q == calls[i]
               x == id(q)
    <3>1. q \in ToSet(parts) /\ IsPart(q) /\ q.kind = "call" /\ q = Sent(provider, q)
      BY <1>2, <1>3, <1>6, <2>1
    <3>2. c[i] = CallBlock(x, q)
      BY <2>2
    <3> HIDE DEF q, x
    <3>3. Repeats(provider, streamed, parts, CallBlock(x, q))
      BY <3>1, CallRepeats
    <3> QED BY <3>2, <3>3
  <2> QED BY <2>1, <2>2, <2>3, RowFits
<1> HIDE DEF a, b, c
<1>10. ReplyFits(provider, streamed, parts, a \o b)
  BY <1>7, <1>8, ReplyFitsParts
<1>11. ReplyFits(provider, streamed, parts, (a \o b) \o c)
  BY <1>9, <1>10, ReplyFitsParts
<1> QED BY <1>1, <1>11 DEF provider

LEMMA GeminiReplyFits ==
    ASSUME NEW streamed, NEW parts, IsReplyOf(parts)
    PROVE  ReplyFits("gemini", streamed, parts, GeminiReply(parts, streamed))
<1> DEFINE provider == "gemini"
           S == {p \in ToSet(parts) : p.kind # "thought"}
           kept == IF streamed THEN Those(parts, S) ELSE parts
           n == Len(kept)
           Row(i, q) ==
                CASE q.kind = "text" -> DecomposeReply(q.text, <<"resp_text", 0, i - 1>>)
                  [] q.kind = "thought" ->
                        <<ThoughtBlock(<<"resp_thought", 0, i - 1>>, <<0, i - 1>>, q)>>
                  [] q.kind = "call" ->
                        <<CallBlock(<<"resp_tool", q.tool, 0, i - 1>>, Nameless(q))>>
           rows == [i \in DOMAIN kept |-> Row(i, kept[i])]
<1>1. GeminiReply(parts, streamed) = FlattenSeq(rows)
  BY Zenon DEF GeminiReply, Nameless
<1>2. IsSeq(parts) /\ \A q \in ToSet(parts) : IsPart(q) /\ q.kind \in {"text", "thought", "call"}
  BY DEF IsReplyOf
<1>3. provider # "anthropic" /\ \A q : Sent(provider, q) = Nameless(q)
  BY DEF Sent
<1>4. IsSeq(kept) /\ ToSet(kept) \subseteq ToSet(parts)
  <2>1. CASE streamed
    <3>1. kept = Those(parts, S)
      BY <2>1
    <3> HIDE DEF kept, S
    <3> QED BY <1>2, <3>1, ThoseFacts
  <2>2. CASE ~streamed
    <3>1. kept = parts
      BY <2>2
    <3> HIDE DEF kept
    <3> QED BY <1>2, <3>1
  <2> QED BY <2>1, <2>2
<1>5. ASSUME NEW i, NEW q \in ToSet(parts) PROVE ReplyFits(provider, streamed, parts, Row(i, q))
  <2> DEFINE row == Row(i, q)
  <2>0. IsPart(q) /\ q.kind \in {"text", "thought", "call"}
    BY <1>2
  <2>1. CASE q.kind = "text"
    <3> DEFINE base == <<"resp_text", 0, i - 1>>
    <3>1. row = DecomposeReply(q.text, base)
      BY <2>1, Zenon
    <3> HIDE DEF row, base, provider
    <3>2. ReplyFits(provider, streamed, parts, DecomposeReply(q.text, base))
      BY <1>3, <2>0, <2>1, AnswerRepeats
    <3>3. ReplyFits(provider, streamed, parts, row)
      BY <3>1, <3>2
    <3> QED BY <3>3 DEF row
  <2>2. CASE q.kind = "thought"
    <3> DEFINE id == <<"resp_thought", 0, i - 1>>
               key == <<0, i - 1>>
    <3>1. row = <<ThoughtBlock(id, key, q)>>
      BY <2>2, Zenon
    <3> HIDE DEF row, id, key, provider
    <3>2. q.text # <<>>
      BY <2>0, <2>2, Zenon DEF IsPart
    <3>3. Repeats(provider, streamed, parts, ThoughtBlock(id, key, q))
      BY <2>2, <3>2, ThoughtRepeats
    <3>4. ReplyFits(provider, streamed, parts, row)
      BY <3>1, <3>3, ReplyFitsParts
    <3> QED BY <3>4 DEF row
  <2>3. CASE q.kind = "call"
    <3> DEFINE id == <<"resp_tool", q.tool, 0, i - 1>>
               x == Nameless(q)
    <3>1. row = <<CallBlock(id, x)>>
      BY <2>3, Zenon
    <3>2. x = Sent(provider, q)
      BY <1>3
    <3> HIDE DEF row, id, x, provider
    <3>3. Repeats(provider, streamed, parts, CallBlock(id, x))
      BY <2>0, <2>3, <3>2, CallRepeats
    <3>4. ReplyFits(provider, streamed, parts, row)
      BY <3>1, <3>3, ReplyFitsParts
    <3> QED BY <3>4 DEF row
  <2> QED BY <2>0, <2>1, <2>2, <2>3
<1> HIDE DEF kept, Row, provider
<1>6. n \in Nat /\ DOMAIN kept = 1..n /\ \A i \in 1..n : kept[i] \in ToSet(kept)
  BY <1>4, SeqFacts
<1> HIDE DEF n
<1>7. rows = [i \in 1..n |-> rows[i]] /\ \A i \in 1..n : rows[i] = Row(i, kept[i])
  BY <1>6
<1> HIDE DEF rows
<1>8. IsSeq(rows) /\ Len(rows) = n
  BY <1>6, <1>7, FunctionIsSeq
<1>9. \A i \in 1..n : ReplyFits(provider, streamed, parts, rows[i])
  BY <1>4, <1>5, <1>6, <1>7
<1>10. \A i \in 1..Len(rows) : IsSeq(rows[i])
  BY <1>8, <1>9 DEF ReplyFits
<1>11. IsSeq(FlattenSeq(rows))
       /\ \A x : x \in ToSet(FlattenSeq(rows)) <=> \E i \in 1..Len(rows) : x \in ToSet(rows[i])
  BY <1>8, <1>10, SetOfFlat
<1>12. ReplyFits(provider, streamed, parts, FlattenSeq(rows))
  BY <1>8, <1>9, <1>11 DEF ReplyFits
<1> QED BY <1>1, <1>12 DEF provider

\* A normalized reply is one of its parts.
LEMMA NormalizedReply ==
    ASSUME NEW provider \in Provider, NEW req, NEW parts, IsReplyOf(parts),
           NEW streamed \in BOOLEAN, NEW input, NEW index,
           NEW turn, turn = Normalize(provider, req, parts, streamed, input, index)
    PROVE  ReplyFits(provider, streamed, parts, turn.reply)
<1>1. CASE provider = "anthropic"
  <2>1. turn.reply = AnthropicReply(parts, streamed)
    BY <1>1, Zenon DEF Normalize
  <2> QED BY <1>1, <2>1, AnthropicReplyFits
<1>2. CASE provider = "openai"
  <2>1. turn.reply = OpenAIReply(parts, streamed)
    BY <1>2, Zenon DEF Normalize
  <2> QED BY <1>2, <2>1, OpenAIReplyFits
<1>3. CASE provider = "gemini"
  <2>1. turn.reply = GeminiReply(parts, streamed)
    BY <1>3, Zenon DEF Normalize
  <2> QED BY <1>3, <2>1, GeminiReplyFits
<1> QED BY <1>1, <1>2, <1>3 DEF Provider
-----------------------------------------------------------------------------
(* The turns that the graph keeps, which the lineage dates. *)

\* Two blocks that differ in no field the rules read.
Same(b, c) == IsBlock(b) /\ b.type = c.type /\ b.hash = c.hash /\ b.key = c.key /\ b.call = c.call
\* A block as the lineage dates it.
DatedBlock(b, lineage) ==
    [b EXCEPT !.first = lineage[Key(b)].first, !.survived = lineage[Key(b)].survived]

LEMMA DatedIsSame ==
    ASSUME NEW b, IsBlock(b), NEW lineage
    PROVE  Same(DatedBlock(b, lineage), b)
<1> DEFINE x == DatedBlock(b, lineage)
           f == lineage[Key(b)].first
           s == lineage[Key(b)].survived
<1>1. x = [b EXCEPT !.first = f, !.survived = s]
  BY DEF DatedBlock
<1> HIDE DEF x, f, s
<1>2. /\ DOMAIN x = DOMAIN b
      /\ \A k \in {"type", "hash", "key", "call"} : k \in DOMAIN b => x[k] = b[k]
  BY <1>1, Zenon
<1>3. IsBlock(x)
  BY <1>2 DEF IsBlock
<1>4. x["type"] = b["type"] /\ x["hash"] = b["hash"] /\ x["key"] = b["key"] /\ x["call"] = b["call"]
  BY <1>2 DEF IsBlock
<1>5. Same(x, b)
  BY <1>3, <1>4 DEF Same
<1> QED BY <1>5 DEF x

LEMMA DatedFacts ==
    ASSUME NEW blocks, IsSeq(blocks), \A b \in ToSet(blocks) : IsBlock(b), NEW lineage,
           NEW d, d = Dated(blocks, lineage)
    PROVE  /\ IsSeq(d)
           /\ \A x \in ToSet(d) : \E b \in ToSet(blocks) : Same(x, b)
           /\ \A b \in ToSet(blocks) : \E x \in ToSet(d) : Same(x, b)
<1> DEFINE n == Len(blocks)
<1>1. n \in Nat /\ DOMAIN blocks = 1..n /\ \A x : x \in ToSet(blocks) <=> \E i \in 1..n : blocks[i] = x
  BY SeqFacts
<1>2. d = [i \in DOMAIN blocks |-> DatedBlock(blocks[i], lineage)]
  BY Zenon DEF Dated, DatedBlock
<1> HIDE DEF n
<1>3. d = [i \in 1..n |-> d[i]] /\ \A i \in 1..n : d[i] = DatedBlock(blocks[i], lineage)
  BY <1>1, <1>2
<1>4. IsSeq(d) /\ Len(d) = n
  BY <1>1, <1>3, FunctionIsSeq
<1>5. \A x : x \in ToSet(d) <=> \E i \in 1..n : d[i] = x
  BY <1>4, SeqFacts
<1>6. \A i \in 1..n : blocks[i] \in ToSet(blocks) /\ Same(d[i], blocks[i])
  <2> SUFFICES ASSUME NEW i \in 1..n PROVE blocks[i] \in ToSet(blocks) /\ Same(d[i], blocks[i])
    OBVIOUS
  <2>1. blocks[i] \in ToSet(blocks)
    BY <1>1
  <2>2. IsBlock(blocks[i])
    BY <2>1
  <2>3. Same(DatedBlock(blocks[i], lineage), blocks[i])
    BY <2>2, DatedIsSame
  <2> QED BY <1>3, <2>1, <2>3
<1>7. \A x \in ToSet(d) : \E b \in ToSet(blocks) : Same(x, b)
  BY <1>5, <1>6
<1>8. ASSUME NEW b \in ToSet(blocks) PROVE \E x \in ToSet(d) : Same(x, b)
  <2>1. PICK i \in 1..n : blocks[i] = b
    BY <1>1
  <2>2. d[i] \in ToSet(d) /\ Same(d[i], b)
    BY <1>5, <1>6, <2>1
  <2> QED BY <2>2
<1> QED BY <1>4, <1>7, <1>8

LEMMA SameKey ==
    ASSUME NEW x, NEW b, Same(x, b)
    PROVE  Key(x) = Key(b)
BY DEF Same, Key

\* Dating blocks changes nothing of what was said of them.
LEMMA DatedHistory ==
    ASSUME NEW provider, NEW ms, NEW blocks, HistoryFits(provider, ms, blocks), NEW lineage,
           NEW d, d = Dated(blocks, lineage)
    PROVE  HistoryFits(provider, ms, d)
<1>1. IsSeq(blocks) /\ \A b \in ToSet(blocks) : IsBlock(b) /\ b.hash # <<>>
  BY DEF HistoryFits, Filled
<1>2. /\ IsSeq(d)
      /\ \A x \in ToSet(d) : \E b \in ToSet(blocks) : Same(x, b)
      /\ \A b \in ToSet(blocks) : \E x \in ToSet(d) : Same(x, b)
  BY <1>1, DatedFacts
<1>3. Filled(d)
  BY <1>1, <1>2 DEF Filled, Same
<1>4. KeysIn(blocks) \subseteq KeysIn(d)
  <2> SUFFICES ASSUME NEW b \in ToSet(blocks) PROVE Key(b) \in KeysIn(d)
    BY DEF KeysIn
  <2>1. PICK x \in ToSet(d) : Same(x, b)
    BY <1>2
  <2>2. Key(x) = Key(b)
    BY <2>1, SameKey
  <2> QED BY <2>2 DEF KeysIn
<1> QED BY <1>2, <1>3, <1>4 DEF HistoryFits

LEMMA DatedResults ==
    ASSUME NEW provider, NEW ms, NEW blocks, ResultsAre(provider, ms, blocks), NEW lineage,
           NEW d, d = Dated(blocks, lineage)
    PROVE  ResultsAre(provider, ms, d)
<1>1. IsSeq(blocks) /\ \A b \in ToSet(blocks) : IsBlock(b)
  BY DEF ResultsAre
<1>2. IsSeq(d) /\ \A x \in ToSet(d) : \E b \in ToSet(blocks) : Same(x, b)
  BY <1>1, DatedFacts
<1>3. ASSUME NEW r \in ToSet(d)
      PROVE  /\ IsBlock(r)
             /\ \E m \in ToSet(ms) : \E q \in ToSet(m.parts) :
                    q.kind = "result" /\ r.call = IF provider = "gemini" THEN NoCall ELSE q.call
  <2>1. PICK b \in ToSet(blocks) : Same(r, b)
    BY <1>2
  <2>2. \E m \in ToSet(ms) : \E q \in ToSet(m.parts) :
                    q.kind = "result" /\ b.call = IF provider = "gemini" THEN NoCall ELSE q.call
    BY DEF ResultsAre
  <2>3. r.call = b.call /\ IsBlock(r)
    BY <2>1 DEF Same
  <2> QED BY <2>2, <2>3
<1> QED BY <1>2, <1>3 DEF ResultsAre

LEMMA DatedReply ==
    ASSUME NEW provider, NEW streamed, NEW parts, NEW blocks,
           ReplyFits(provider, streamed, parts, blocks), NEW lineage,
           NEW d, d = Dated(blocks, lineage)
    PROVE  ReplyFits(provider, streamed, parts, d)
<1>1. IsSeq(blocks) /\ \A b \in ToSet(blocks) : IsBlock(b)
  BY DEF ReplyFits, Repeats
<1>2. IsSeq(d) /\ \A x \in ToSet(d) : \E b \in ToSet(blocks) : Same(x, b)
  BY <1>1, DatedFacts
<1>3. ASSUME NEW x \in ToSet(d) PROVE Repeats(provider, streamed, parts, x)
  <2>1. PICK b \in ToSet(blocks) : Same(x, b)
    BY <1>2
  <2>2. Repeats(provider, streamed, parts, b)
    BY DEF ReplyFits
  <2>3. IsBlock(x) /\ x.type = b.type /\ x.hash = b.hash /\ Key(x) = Key(b)
    BY <2>1, SameKey DEF Same
  <2> QED BY <2>2, <2>3 DEF Repeats
<1> QED BY <1>2, <1>3 DEF ReplyFits

\* What the rules need of a turn: a history with content, a reply that has some unless it is an
\* Anthropic stream's, and results whose calls the history tells of, or that name none.
TurnFits(provider, streamed, t) ==
    /\ IsSeq(t.history) /\ Filled(t.history)
    /\ IsSeq(t.reply) /\ (~(provider = "anthropic" /\ streamed) => Filled(t.reply))
    /\ IsSeq(t.results)
    /\ \A r \in ToSet(t.results) :
        IF provider = "gemini" THEN r.call = NoCall
        ELSE \E b \in ToSet(t.history) : b.type = "assistant_msg" /\ Mentions(b, r.call)

LEMMA FirstOfOne ==
    ASSUME NEW x, NEW text, text = <<x>>
    PROVE  1 \in DOMAIN text /\ text[1] = x
OBVIOUS

LEMMA SecondOfThree ==
    ASSUME NEW a, NEW b, NEW c
    PROVE  <<a, b, c>>[2] = b
OBVIOUS

LEMMA CallMentions ==
    ASSUME NEW part, part.call # "", NEW b, b.hash = CallText(part)
    PROVE  Mentions(b, part.call)
<1> DEFINE text == b.hash
           x == <<"call", part.call, part.tool>>
<1>1. text = <<x>>
  BY Zenon DEF CallText
<1>2. x[2] = part.call
  BY SecondOfThree, Zenon
<1> HIDE DEF x
<1>3. 1 \in DOMAIN text /\ text[1] = x
  BY <1>1, FirstOfOne, Zenon
<1> QED BY <1>2, <1>3, Zenon DEF Mentions

\* A normalized exchange is a turn that the rules can read.
LEMMA RequestMakesTurn ==
    ASSUME NEW provider, NEW streamed, NEW ms, Conversation(ms), NEW parts, NEW t,
           RequestFits(provider, ms, t), ReplyFits(provider, streamed, parts, t.reply)
    PROVE  TurnFits(provider, streamed, t)
<1>1. HistoryFits(provider, ms, t.history) /\ ResultsAre(provider, ms, t.results)
  BY DEF RequestFits
<1>2. IsSeq(t.history) /\ Filled(t.history) /\ IsSeq(t.results)
  BY <1>1 DEF HistoryFits, ResultsAre
<1>3. IsSeq(t.reply) /\ (~(provider = "anthropic" /\ streamed) => Filled(t.reply))
  BY DEF ReplyFits, Repeats, Filled
<1>4. ASSUME NEW r \in ToSet(t.results)
      PROVE  IF provider = "gemini" THEN r.call = NoCall
             ELSE \E b \in ToSet(t.history) : b.type = "assistant_msg" /\ Mentions(b, r.call)
  <2>1. PICK m \in ToSet(ms) : \E q \in ToSet(m.parts) :
            q.kind = "result" /\ r.call = IF provider = "gemini" THEN NoCall ELSE q.call
    BY <1>1 DEF ResultsAre
  <2>2. PICK p \in ToSet(m.parts) :
            p.kind = "result" /\ r.call = IF provider = "gemini" THEN NoCall ELSE p.call
    BY <2>1
  <2>3. CASE provider = "gemini"
    BY <2>2, <2>3
  <2>4. CASE provider # "gemini"
    <3>1. IsCalled(ms, p.call) /\ r.call = p.call
      BY <2>2, <2>4 DEF Conversation
    <3>2. PICK l \in ToSet(ms) : \E q \in ToSet(l.parts) : q.kind = "call" /\ q.call = r.call
      BY <3>1 DEF IsCalled
    <3>3. PICK q \in ToSet(l.parts) : q.kind = "call" /\ q.call = r.call
      BY <3>2
    <3>4. IsMessage(l)
      BY DEF Conversation
    <3>5. IsPart(q) /\ l.role = "assistant"
      BY <3>3, <3>4 DEF IsMessage, PartsOf
    <3>6. Sent(provider, q) = q
      BY <2>4 DEF Sent
    <3>7. SaidKeys(provider, q) \subseteq KeysIn(t.history)
      BY <1>1, <3>3, <3>5, <3>6 DEF HistoryFits
    <3>8. <<"assistant_msg", <<>>, CallText(q)>> \in KeysIn(t.history)
      BY <3>3, <3>7 DEF SaidKeys
    <3>9. PICK b \in ToSet(t.history) : Key(b) = <<"assistant_msg", <<>>, CallText(q)>>
      BY <3>8 DEF KeysIn
    <3>10. b.type = "assistant_msg" /\ b.key = <<>> /\ b.hash = CallText(q)
      BY <3>9 DEF Key
    <3>11. q.call # ""
      BY <3>3, <3>5, Zenon DEF IsPart
    <3>12. Mentions(b, q.call)
      BY <3>10, <3>11, CallMentions
    <3> QED BY <2>4, <3>3, <3>10, <3>12
  <2> QED BY <2>3, <2>4
<1> QED BY <1>2, <1>3, <1>4 DEF TurnFits
-----------------------------------------------------------------------------
(* The rules, on turns as the normalizers make them. *)

\* What FlattenSeq makes of a sequence for each element.
LEMMA FlatRows ==
    ASSUME NEW s, IsSeq(s), NEW f, f = [i \in DOMAIN s |-> f[i]],
           \A i \in 1..Len(s) : IsSeq(f[i])
    PROVE  /\ IsSeq(FlattenSeq(f))
           /\ \A x : x \in ToSet(FlattenSeq(f)) <=> \E i \in 1..Len(s) : x \in ToSet(f[i])
<1>1. Len(s) \in Nat /\ DOMAIN s = 1..Len(s)
  BY SeqFacts
<1>2. f = [i \in 1..Len(s) |-> f[i]]
  BY <1>1
<1>3. IsSeq(f) /\ Len(f) = Len(s)
  BY <1>1, <1>2, FunctionIsSeq
<1>4. \A i \in 1..Len(f) : IsSeq(f[i])
  BY <1>3
<1>5. IsSeq(FlattenSeq(f))
  BY <1>3, <1>4, SetOfFlat
<1>6. \A x : x \in ToSet(FlattenSeq(f)) <=> \E i \in 1..Len(f) : x \in ToSet(f[i])
  BY <1>3, <1>4, SetOfFlat
<1> QED BY <1>3, <1>5, <1>6

\* The last few turns are among the turns.
LEMMA LastOfFacts ==
    ASSUME NEW turns, IsSeq(turns), NEW n \in Nat
    PROVE  IsSeq(LastOf(turns, n)) /\ ToSet(LastOf(turns, n)) \subseteq ToSet(turns)
<1> DEFINE m == IF Len(turns) > n THEN Len(turns) - n + 1 ELSE 1
           l == Len(turns)
<1>1. l \in Nat
  BY SeqFacts
<1>2. m \in Nat \ {0} /\ l \in 0..Len(turns)
  BY <1>1
<1>3. LastOf(turns, n) = SubSeq(turns, m, l)
  BY DEF LastOf
<1> HIDE DEF m, l
<1>4. IsSeq(SubSeq(turns, m, l))
  BY <1>2, SetOfPart
<1>5. ToSet(SubSeq(turns, m, l)) \subseteq ToSet(turns)
  BY <1>2, SetOfPart
<1> QED BY <1>3, <1>4, <1>5

LEMMA RepliesFacts ==
    ASSUME NEW turns, IsSeq(turns), \A t \in ToSet(turns) : IsSeq(t.reply) /\ Filled(t.reply)
    PROVE  IsSeq(RepliesOf(turns)) /\ Filled(RepliesOf(turns))
<1> DEFINE f == [i \in DOMAIN turns |-> turns[i].reply]
           out == FlattenSeq(f)
<1>1. RepliesOf(turns) = out
  BY DEF RepliesOf
<1>2. DOMAIN turns = 1..Len(turns) /\ \A i \in 1..Len(turns) : turns[i] \in ToSet(turns)
  BY SeqFacts
<1>3. f = [i \in DOMAIN turns |-> f[i]] /\ \A i \in 1..Len(turns) : f[i] = turns[i].reply
  BY <1>2
<1> HIDE DEF f
<1>4. \A i \in 1..Len(turns) : IsSeq(f[i]) /\ Filled(f[i])
  BY <1>2, <1>3
<1>5. IsSeq(out)
  BY <1>3, <1>4, FlatRows
<1>6. \A x : x \in ToSet(out) <=> \E i \in 1..Len(turns) : x \in ToSet(f[i])
  BY <1>3, <1>4, FlatRows
<1> HIDE DEF out
<1>7. Filled(out)
  BY <1>4, <1>6 DEF Filled
<1> QED BY <1>1, <1>5, <1>7

LEMMA FilledConcat ==
    ASSUME NEW a, NEW b, IsSeq(a), Filled(a), IsSeq(b), Filled(b)
    PROVE  IsSeq(a \o b) /\ Filled(a \o b)
<1>1. IsSeq(a \o b) /\ ToSet(a \o b) = ToSet(a) \cup ToSet(b)
  BY SetOfConcat
<1> QED BY <1>1 DEF Filled

\* The words of a turn have content when its reply has, and hold all that the model said.
LEMMA SpokenFacts ==
    ASSUME NEW t, IsSeq(t.history), Filled(t.history), IsSeq(t.reply)
    PROVE  /\ IsSeq(Spoken(t))
           /\ Filled(t.reply) => Filled(Spoken(t))
           /\ \A b \in ToSet(t.history) : b.type = "assistant_msg" => b \in ToSet(Spoken(t))
<1> DEFINE S == {b \in ToSet(t.history) : b.type \in {"user_msg", "assistant_msg"}}
           said == Those(t.history, S)
           reply == t.reply
<1>1. IsSeq(said) /\ ToSet(said) = ToSet(t.history) \cap S
  <2> HIDE DEF S
  <2> QED BY ThoseFacts
<1>2. Spoken(t) = reply \o said
  BY DEF Spoken
<1>3. Filled(said)
  BY <1>1 DEF Filled
<1>4. \A b \in ToSet(t.history) : b.type = "assistant_msg" => b \in ToSet(said)
  BY <1>1
<1> HIDE DEF said, reply
<1>5. IsSeq(reply)
  BY DEF reply
<1>6. IsSeq(reply \o said) /\ ToSet(reply \o said) = ToSet(reply) \cup ToSet(said)
  BY <1>1, <1>5, SetOfConcat
<1>7. Filled(reply) => Filled(reply \o said)
  BY <1>3, <1>6 DEF Filled
<1> QED BY <1>2, <1>4, <1>6, <1>7 DEF reply

\* A stream of Anthropic, whose calls arrive without content.
Wordless(provider, streamed) == provider = "anthropic" /\ streamed

\* So do the recent words.
LEMMA RecentFacts ==
    ASSUME NEW provider, NEW streamed, NEW prev, IsSeq(prev),
           \A t \in ToSet(prev) : TurnFits(provider, streamed, t),
           NEW turn, TurnFits(provider, streamed, turn)
    PROVE  /\ IsSeq(RecentText(prev, turn))
           /\ ~Wordless(provider, streamed) => Filled(RecentText(prev, turn))
           /\ \A b \in ToSet(turn.history) :
                b.type = "assistant_msg" => b \in ToSet(RecentText(prev, turn))
<1> DEFINE recent == LastOf(prev, 2) \o <<turn>>
           f == [i \in DOMAIN recent |-> Spoken(recent[i])]
           out == FlattenSeq(f)
<1>1. RecentText(prev, turn) = out
  BY DEF RecentText
<1>2. IsSeq(recent) /\ \A t \in ToSet(recent) : TurnFits(provider, streamed, t)
  <2>1. IsSeq(LastOf(prev, 2)) /\ ToSet(LastOf(prev, 2)) \subseteq ToSet(prev)
    BY LastOfFacts
  <2>2. IsSeq(<<turn>>) /\ ToSet(<<turn>>) = {turn}
    BY SetOfOne
  <2>3. IsSeq(recent) /\ ToSet(recent) = ToSet(LastOf(prev, 2)) \cup {turn}
    BY <2>1, <2>2, SetOfConcat
  <2> HIDE DEF recent
  <2> QED BY <2>1, <2>3
<1>3. turn \in ToSet(recent)
  <2>1. IsSeq(LastOf(prev, 2))
    BY LastOfFacts
  <2>2. IsSeq(<<turn>>) /\ ToSet(<<turn>>) = {turn}
    BY SetOfOne
  <2>3. ToSet(recent) = ToSet(LastOf(prev, 2)) \cup {turn}
    BY <2>1, <2>2, SetOfConcat
  <2> HIDE DEF recent
  <2> QED BY <2>3
<1> HIDE DEF recent
<1>4. DOMAIN recent = 1..Len(recent) /\ \A t : t \in ToSet(recent) <=> \E i \in 1..Len(recent) : recent[i] = t
  BY <1>2, SeqFacts
<1>5. f = [i \in DOMAIN recent |-> f[i]] /\ \A i \in 1..Len(recent) : f[i] = Spoken(recent[i])
  BY <1>4
<1> HIDE DEF f
<1>6. ASSUME NEW t \in ToSet(recent)
      PROVE  /\ IsSeq(Spoken(t))
             /\ ~Wordless(provider, streamed) => Filled(Spoken(t))
             /\ \A b \in ToSet(t.history) : b.type = "assistant_msg" => b \in ToSet(Spoken(t))
  <2>1. TurnFits(provider, streamed, t)
    BY <1>2
  <2>2. /\ IsSeq(t.history) /\ Filled(t.history) /\ IsSeq(t.reply)
        /\ ~Wordless(provider, streamed) => Filled(t.reply)
    BY <2>1 DEF TurnFits, Wordless
  <2>3. IsSeq(Spoken(t))
    BY <2>2, SpokenFacts
  <2>4. Filled(t.reply) => Filled(Spoken(t))
    BY <2>2, SpokenFacts
  <2>5. \A b \in ToSet(t.history) : b.type = "assistant_msg" => b \in ToSet(Spoken(t))
    BY <2>2, SpokenFacts
  <2> QED BY <2>2, <2>3, <2>4, <2>5
<1>7. \A i \in 1..Len(recent) : IsSeq(f[i])
  BY <1>4, <1>5, <1>6
<1>8. IsSeq(out)
  BY <1>2, <1>5, <1>7, FlatRows
<1>9. \A x : x \in ToSet(out) <=> \E i \in 1..Len(recent) : x \in ToSet(f[i])
  BY <1>2, <1>5, <1>7, FlatRows
<1> HIDE DEF out
<1>10. ASSUME ~Wordless(provider, streamed) PROVE Filled(out)
  <2>1. \A i \in 1..Len(recent) : Filled(f[i])
    BY <1>4, <1>5, <1>6, <1>10
  <2> QED BY <1>9, <2>1 DEF Filled
<1>11. ASSUME NEW b \in ToSet(turn.history), b.type = "assistant_msg" PROVE b \in ToSet(out)
  <2>1. PICK i \in 1..Len(recent) : recent[i] = turn
    BY <1>3, <1>4
  <2>2. b \in ToSet(Spoken(turn))
    BY <1>3, <1>6, <1>11
  <2>3. b \in ToSet(f[i])
    BY <1>5, <2>1, <2>2
  <2> QED BY <1>9, <2>3
<1> QED BY <1>1, <1>8, <1>10, <1>11

\* Only where calls of a stream arrive without content do the rules raise.
LEMMA NotRaises ==
    ASSUME NEW provider, NEW streamed, NEW prev, IsSeq(prev),
           \A t \in ToSet(prev) : TurnFits(provider, streamed, t),
           NEW turn, TurnFits(provider, streamed, turn),
           ~Wordless(provider, streamed)
    PROVE  ~Raises(prev, turn)
<1>1. Joins(RecentText(prev, turn))
  <2>1. IsSeq(RecentText(prev, turn))
    BY RecentFacts
  <2>2. ~Wordless(provider, streamed) => Filled(RecentText(prev, turn))
    BY RecentFacts
  <2>3. Filled(RecentText(prev, turn))
    BY <2>2
  <2> QED BY <2>1, <2>3, FilledJoins
<1>2. Joins(StaleReplies(prev, turn))
  <2> DEFINE last == LastOf(prev, 2)
             reply == turn.reply
  <2>1. IsSeq(last) /\ ToSet(last) \subseteq ToSet(prev)
    BY LastOfFacts
  <2>2. \A t \in ToSet(last) : IsSeq(t.reply) /\ Filled(t.reply)
    BY <2>1 DEF TurnFits, Wordless
  <2>3. IsSeq(reply) /\ Filled(reply)
    BY DEF TurnFits, Wordless
  <2>4. StaleReplies(prev, turn) = RepliesOf(last) \o reply
    BY DEF StaleReplies
  <2> HIDE DEF last, reply
  <2>5. IsSeq(RepliesOf(last)) /\ Filled(RepliesOf(last))
    BY <2>1, <2>2, RepliesFacts
  <2>6. IsSeq(RepliesOf(last) \o reply) /\ Filled(RepliesOf(last) \o reply)
    BY <2>3, <2>5, FilledConcat
  <2> QED BY <2>4, <2>6, FilledJoins
<1> QED BY <1>1, <1>2 DEF Raises

\* The violations of one rule.
LEMMA ZombieViolations ==
    ASSUME NEW prev, NEW turn, NEW delta
    PROVE  /\ ZombieContext(prev, turn) \subseteq AnalyzeTurn(prev, turn, delta)
           /\ \A v \in AnalyzeTurn(prev, turn, delta) :
                v.rule = "CTX-006" => v \in ZombieContext(prev, turn)
<1>1. ZombieContext(prev, turn) \subseteq AnalyzeTurn(prev, turn, delta)
  BY DEF AnalyzeTurn
<1>2. \A r, s, b : Violation(r, s, b).rule = r
  BY DEF Violation
<1>3. ASSUME NEW v \in StaleTool(prev, turn) PROVE v.rule = "CTX-001"
  <2>1. \E b : v = Violation("CTX-001", "WARN", {b.id})
    BY DEF StaleTool
  <2> QED BY <1>2, <2>1, Zenon
<1>4. \A v \in SchemaBloat(prev, turn) : v.rule = "CTX-002"
  BY <1>2, Zenon DEF SchemaBloat
<1>5. \A v \in ErrorLoop(prev, turn) : v.rule = "CTX-003"
  BY <1>2, Zenon DEF ErrorLoop
<1>6. ASSUME NEW v \in RecurringResults(prev, turn) PROVE v.rule = "CTX-004"
  <2>1. \E s, b : v = Violation("CTX-004", s, b)
    BY DEF RecurringResults
  <2> QED BY <1>2, <2>1, Zenon
<1>7. ASSUME NEW v \in PrefixBreak(prev, turn) PROVE v.rule = "CACHE-001"
  <2>1. \E s, b : v = Violation("CACHE-001", s, b)
    BY DEF PrefixBreak
  <2> QED BY <1>2, <2>1, Zenon
<1>8. ASSUME NEW v \in CacheBusting(prev, turn, delta) PROVE v.rule = "CTX-007"
  <2>1. \E s, b : v = Violation("CTX-007", s, b)
    BY DEF CacheBusting
  <2> QED BY <1>2, <2>1, Zenon
<1>9. ASSUME NEW v \in AnalyzeTurn(prev, turn, delta), v.rule = "CTX-006"
      PROVE  v \in ZombieContext(prev, turn)
  <2>1. \/ v \in StaleTool(prev, turn) \/ v \in SchemaBloat(prev, turn)
        \/ v \in ErrorLoop(prev, turn) \/ v \in RecurringResults(prev, turn)
        \/ v \in PrefixBreak(prev, turn) \/ v \in ZombieContext(prev, turn)
        \/ v \in CacheBusting(prev, turn, delta)
    BY DEF AnalyzeTurn
  <2> QED BY <1>3, <1>4, <1>5, <1>6, <1>7, <1>8, <1>9, <2>1
<1> QED BY <1>1, <1>9

\* Where results name their calls, the words of the turn mention them.
LEMMA NoZombies ==
    ASSUME NEW provider, provider # "gemini", NEW streamed, NEW prev, IsSeq(prev),
           \A t \in ToSet(prev) : TurnFits(provider, streamed, t),
           NEW turn, TurnFits(provider, streamed, turn)
    PROVE  ZombieContext(prev, turn) = {}
<1> DEFINE text == RecentText(prev, turn)
<1>1. IsSeq(text)
  BY RecentFacts
<1>2. \A b \in ToSet(turn.history) : b.type = "assistant_msg" => b \in ToSet(text)
  BY RecentFacts
<1> HIDE DEF text
<1>3. DOMAIN text = 1..Len(text) /\ \A x : x \in ToSet(text) <=> \E i \in 1..Len(text) : text[i] = x
  BY <1>1, SeqFacts
<1>4. ASSUME NEW r \in ToSet(turn.results) PROVE ~ZombieResult(prev, turn, r)
  <2>1. PICK b \in ToSet(turn.history) : b.type = "assistant_msg" /\ Mentions(b, r.call)
    BY DEF TurnFits
  <2>2. PICK i \in 1..Len(text) : text[i] = b
    BY <1>2, <1>3, <2>1
  <2>3. Mentioned(text, r.call)
    BY <1>3, <2>1, <2>2 DEF Mentioned
  <2> QED BY <2>3 DEF ZombieResult, text
<1> QED BY <1>4, Zenon DEF ZombieContext

\* No text mentions a result without a call.
LEMMA NamesNothing == \A blocks : ~Mentioned(blocks, NoCall)
BY Zenon DEF Mentioned, Mentions, NoCall

\* A result that was there for n turns is counted for as many.
LEMMA CountsTurns ==
    ASSUME NEW prev, IsSeq(prev), NEW n \in Nat, n <= Len(prev), NEW b,
           \A i \in (Len(prev) - n + 1)..Len(prev) : \E r \in ToSet(prev[i].results) : r.hash = b.hash
    PROVE  ConsecutiveTurns(prev, b) >= n /\ ConsecutiveTurns(prev, b) \in Int
<1> DEFINE Has(i) == \E r \in ToSet(prev[i].results) : r.id = b.id \/ r.hash = b.hash
           absent == {0} \cup {i \in DOMAIN prev : ~Has(i)}
           l == Len(prev)
           greatest == CHOOSE i \in absent : \A j \in absent : j <= i
           G == {i - 1 : i \in absent}
<1>1. l \in Nat /\ DOMAIN prev = 1..l
  BY SeqFacts
<1>2. ConsecutiveTurns(prev, b) = l - greatest
  BY DEF ConsecutiveTurns
<1>3. \A i \in absent : i \in 0..(l - n)
  <2> SUFFICES ASSUME NEW i \in absent, i # 0 PROVE i \in 0..(l - n)
    BY <1>1
  <2>1. i \in 1..l /\ ~Has(i)
    BY <1>1
  <2>2. ~(i \in (l - n + 1)..l)
    BY <2>1
  <2> HIDE DEF absent, Has
  <2> QED BY <1>1, <2>1, <2>2
<1>4. 0 \in absent
  OBVIOUS
<1> HIDE DEF absent, l
<1>5. greatest \in absent
  <2>1. G \subseteq -1..(l - 1) /\ -1 \in G
    BY <1>1, <1>3, <1>4
  <2>2. \E m \in G : \A j \in G : j <= m
    <3> HIDE DEF G
    <3> QED BY <1>1, <2>1, GreatestOf
  <2>3. PICK m \in G : \A j \in G : j <= m
    BY <2>2
  <2>4. PICK i \in absent : m = i - 1
    OBVIOUS
  <2>5. ASSUME NEW j \in absent PROVE j <= i
    <3>1. j - 1 <= i - 1
      BY <2>3, <2>4
    <3> QED BY <1>3, <3>1
  <2>6. \E x \in absent : \A j \in absent : j <= x
    BY <2>5
  <2> QED BY <2>6, Zenon
<1> HIDE DEF greatest
<1>6. greatest \in 0..(l - n)
  BY <1>3, <1>5
<1> QED BY <1>1, <1>2, <1>6

\* A large result without a call that stays is reported.
LEMMA AreZombies ==
    ASSUME NEW prev, IsSeq(prev), MinTurns <= Len(prev), NEW turn,
           NEW b \in ToSet(turn.results), b.call = NoCall, SizeOf(b.hash) > ZombieTokens,
           \A i \in (Len(prev) - MinTurns + 1)..Len(prev) :
                \E r \in ToSet(prev[i].results) : r.hash = b.hash
    PROVE  Violation("CTX-006", "WARN", {b.id}) \in ZombieContext(prev, turn)
<1>1. MinTurns \in Nat
  BY ThresholdsAssumption
<1>2. ConsecutiveTurns(prev, b) >= MinTurns
  BY <1>1, CountsTurns
<1>3. ~Mentioned(RecentText(prev, turn), b.call)
  BY NamesNothing
<1>4. ZombieResult(prev, turn, b)
  BY <1>2, <1>3 DEF ZombieResult
<1> QED BY <1>4 DEF ZombieContext
-----------------------------------------------------------------------------
(* What an exchange does to the conversation, the graph and the findings. *)

\* A canonical turn is its fields.
IsTurn(t) ==
    t = [f \in {"index", "provider", "system", "tools", "history", "results", "reply", "input"} |-> t[f]]

\* An exchange of a session: its canonical form, what the agent sent and the reply.
Says(t, prompt, u, m) ==
    /\ Speaks(messages, u)
    /\ \/ prompt = Append(messages, u)
       \/ prompt = <<u>> /\ \A p \in ToSet(u.parts) : p.kind = "text"
    /\ IsMessage(m) /\ m.role = "assistant"
    /\ IsTurn(t)
    /\ RequestFits(mode.provider, prompt, t)
    /\ ReplyFits(mode.provider, mode.streamed, m.parts, t.reply)

\* An exchange says something, and analyses the turn it opens or goes on with.
LEMMA ExchangeSays ==
    ASSUME LineageInv, mode \in Modes, Conversation(messages),
           messages # <<>> => Last(messages).role = "assistant", Exchange
    PROVE  /\ mode' = mode
           /\ \E t, prompt, u, m :
                /\ Says(t, prompt, u, m)
                /\ steps' = Append(steps, t) /\ messages' = Append(prompt, m)
                /\ \/ t.index = Len(graph.turns) /\ Analyzed(AddTurn(graph, t), t.index, {})
                   \/ /\ graph.turns # <<>> /\ t.index = Len(graph.turns) - 1
                      /\ \E n : Analyzed(UpdateTurn(graph, [t EXCEPT !.input = n]),
                                         t.index, Last(found))
<1>1. PICK prompt \in Prompted, next \in Scenes, reply \in Replies :
        LET req   == [system |-> next.system, tools |-> next.tools, messages |-> prompt[1]]
            index == IF Opens(req) THEN Len(graph.turns) ELSE LastIndex
            raw   == Normalize(mode.provider, req, reply[1], mode.streamed, 0, index)
            turn  == [raw EXCEPT !.input = ReportedInput(raw)]
            odd   == Cardinality({e \in {"prompt", "scene", "reply"} :
                        CASE e = "prompt" -> prompt[2]
                          [] e = "scene" -> next \notin {scene, FirstScene}
                          [] e = "reply" -> reply[2]})
        IN  /\ oddities + odd <= MaxOddities
            /\ OpenTurn(req, turn) \/ ContinueTurn(req, turn)
            /\ scene' = next
            /\ messages' = Append(prompt[1], [role |-> "assistant", parts |-> reply[1]])
            /\ steps' = Append(steps, turn)
            /\ oddities' = oddities + odd
            /\ UNCHANGED mode
  BY Zenon DEF Exchange
<1> DEFINE req   == [system |-> next.system, tools |-> next.tools, messages |-> prompt[1]]
           index == IF Opens(req) THEN Len(graph.turns) ELSE LastIndex
           raw   == Normalize(mode.provider, req, reply[1], mode.streamed, 0, index)
           input == ReportedInput(raw)
           turn  == [raw EXCEPT !.input = input]
           sent  == prompt[1]
           parts == reply[1]
           m     == [role |-> "assistant", parts |-> parts]
<1>2. /\ OpenTurn(req, turn) \/ ContinueTurn(req, turn)
      /\ steps' = Append(steps, turn) /\ messages' = Append(sent, m) /\ mode' = mode
  BY <1>1, Zenon
<1>3. PICK u : /\ Speaks(messages, u)
               /\ \/ sent = Append(messages, u)
                  \/ sent = <<u>> /\ \A p \in ToSet(u.parts) : p.kind = "text"
  BY PromptedFits
<1>4. Conversation(sent)
  <2> HIDE DEF sent
  <2> QED BY <1>3, PromptIsConversation
<1>5. IsMessage(m) /\ m.role = "assistant" /\ m.parts = parts
  <2>1. Exchanges \in Nat /\ Exchanges < MaxExchanges
    <3>1. PICK S : steps \in Seq(S)
      BY DEF LineageInv, History
    <3>2. Exchanges \in Nat
      BY <3>1 DEF Exchanges
    <3> QED BY <3>2 DEF Exchange
  <2> QED BY <2>1, RepliesFit
<1>6. IsReplyOf(parts)
  <2> HIDE DEF m
  <2> QED BY <1>5 DEF IsMessage, IsReplyOf, PartsOf
<1>7. mode.provider \in Provider /\ mode.streamed \in BOOLEAN
  <2>1. mode \in [provider : Provider, streamed : BOOLEAN, granularity : {"step", "human"}]
    BY Zenon, AnalysisAssumption
  <2> QED BY <2>1
<1>8. IsSeq(req.system) /\ req.messages = sent
  <2> DEFINE Texts == Seq(STRING \X STRING \X STRING)
             Tools == Seq(STRING \X STRING)
  <2>1. next \in [system : Seq(Texts), tools : Tools]
    BY Zenon, AnalysisAssumption
  <2> HIDE DEF Texts, Tools
  <2>2. next.system \in Seq(Texts)
    BY <2>1
  <2>3. IsSeq(next.system)
    BY <2>2, SeqIsSeq
  <2> QED BY <2>3
<1>9. /\ raw.index = index
      /\ raw = [f \in {"index", "provider", "system", "tools", "history", "results",
                       "reply", "input"} |-> raw[f]]
  <2> DEFINE messagesOf == WireMessages(mode.provider, req)
             request == CASE mode.provider = "anthropic" -> AnthropicRequest(req, messagesOf)
                          [] mode.provider = "openai" -> OpenAIRequest(req, messagesOf)
                          [] mode.provider = "gemini" -> GeminiRequest(req, messagesOf)
             answer == CASE mode.provider = "anthropic" -> AnthropicReply(reply[1], mode.streamed)
                         [] mode.provider = "openai" -> OpenAIReply(reply[1], mode.streamed)
                         [] mode.provider = "gemini" -> GeminiReply(reply[1], mode.streamed)
             tools == [i \in DOMAIN req.tools |-> ToolDef(req.tools[i])]
             system == request.system
             history == request.history
             results == request.results
  <2>1. raw = [index |-> index, provider |-> mode.provider, system |-> system, tools |-> tools,
               history |-> history, results |-> results, reply |-> answer, input |-> 0]
    BY Zenon DEF Normalize
  <2> HIDE DEF raw, index, request, answer, tools, system, history, results
  <2> QED BY <2>1
<1>10. Opens(req) \/ (mode.granularity # "step" /\ graph.turns # <<>>)
  BY DEF Opens
<1>11. raw = Normalize(mode.provider, req, parts, mode.streamed, 0, index)
  OBVIOUS
<1> HIDE DEF req, raw, sent, parts, m, input
<1>12. RequestFits(mode.provider, sent, raw)
  <2>1. RequestFits(mode.provider, req.messages, raw)
    <3>1. Conversation(req.messages)
      BY <1>4, <1>8
    <3> HIDE DEF index
    <3> QED BY <1>7, <1>8, <1>11, <3>1, NormalizedRequest
  <2> QED BY <1>8, <2>1
<1>13. ReplyFits(mode.provider, mode.streamed, parts, raw.reply)
  <2> HIDE DEF index
  <2> QED BY <1>6, <1>7, <1>11, NormalizedReply
<1>14. /\ turn.index = index
       /\ turn = [f \in {"index", "provider", "system", "tools", "history", "results",
                         "reply", "input"} |-> turn[f]]
       /\ turn.history = raw.history /\ turn.results = raw.results /\ turn.reply = raw.reply
  BY <1>9
<1> HIDE DEF turn
<1>15. RequestFits(mode.provider, sent, turn)
       /\ ReplyFits(mode.provider, mode.streamed, m.parts, turn.reply)
  BY <1>5, <1>12, <1>13, <1>14 DEF RequestFits
<1>16. Says(turn, sent, u, m)
  BY <1>3, <1>5, <1>14, <1>15 DEF Says, IsTurn
<1>17. \/ turn.index = Len(graph.turns) /\ Analyzed(AddTurn(graph, turn), turn.index, {})
       \/ /\ graph.turns # <<>> /\ turn.index = Len(graph.turns) - 1
          /\ \E n : Analyzed(UpdateTurn(graph, [turn EXCEPT !.input = n]), turn.index, Last(found))
  <2>1. CASE OpenTurn(req, turn)
    BY <1>14, <2>1 DEF OpenTurn
  <2>2. CASE ContinueTurn(req, turn)
    <3> DEFINE n == turn.input + Last(graph.turns).input
               updated == UpdateTurn(graph, [turn EXCEPT !.input = n])
    <3>1. Analyzed(updated, turn.index, Last(found)) /\ ~Opens(req)
      BY <2>2 DEF ContinueTurn
    <3>2. turn.index = Len(graph.turns) - 1 /\ graph.turns # <<>>
      BY <1>10, <1>14, <3>1 DEF LastIndex
    <3> HIDE DEF n
    <3> QED BY <3>1, <3>2
  <2> QED BY <1>2, <2>1, <2>2
<1> QED BY <1>2, <1>16, <1>17, Zenon

\* What is stored and published of a turn.
LEMMA AnalyzedEffect ==
    ASSUME IsSeq(found), NEW g, NEW index \in 0..Len(found), NEW old, Analyzed(g, index, old)
    PROVE  LET prev == SubSeq(g.turns, 1, index)
               turn == g.turns[index + 1]
           IN  /\ graph' = g
               /\ IsSeq(found') /\ Len(found') = index + 1
               /\ published'.violations = IF Raises(prev, turn) THEN {}
                                          ELSE AnalyzeTurn(prev, turn, DeltaOf(g, index))
               /\ Raises(prev, turn) => Last(found') = old
<1> DEFINE prev == SubSeq(g.turns, 1, index)
           turn == g.turns[index + 1]
           raises == Raises(prev, turn)
           verdict == AnalyzeTurn(prev, turn, DeltaOf(g, index))
           last == IF raises THEN old ELSE verdict
           first == SubSeq(found, 1, index)
           stored == Append(first, last)
           score == Score(stored)
           seen == IF raises THEN {} ELSE verdict
<1>1. graph' = g /\ found' = stored /\ published' = [violations |-> seen, score |-> score]
  BY DEF Analyzed
<1> HIDE DEF score, verdict, raises
<1>2. published'.violations = seen
  BY <1>1
<1>3. IsSeq(first) /\ Len(first) = index
  <2>1. Len(found) \in Nat
    BY SeqFacts
  <2>2. index \in Nat
    BY <2>1
  <2>3. 1 \in Nat \ {0}
    OBVIOUS
  <2>4. IsSeq(SubSeq(found, 1, index))
    BY <2>3, SetOfPart
  <2>5. Len(SubSeq(found, 1, index)) = IF 1 <= index THEN index - 1 + 1 ELSE 0
    BY <2>3, SetOfPart
  <2> QED BY <2>2, <2>4, <2>5
<1> HIDE DEF first
<1>4. IsSeq(stored) /\ Len(stored) = index + 1 /\ stored[index + 1] = last
  <2> HIDE DEF last
  <2>1. IsSeq(Append(first, last))
    BY <1>3, SetOfAppend
  <2>2. Len(Append(first, last)) = Len(first) + 1
    BY <1>3, SetOfAppend
  <2>3. Append(first, last)[Len(first) + 1] = last
    BY <1>3, SetOfAppend
  <2> QED BY <1>3, <2>1, <2>2, <2>3
<1> HIDE DEF stored
<1>5. IsSeq(found') /\ Len(found') = index + 1
  BY <1>1, <1>4
<1>6. Last(found') = last
  BY <1>1, <1>4 DEF Last
<1>7. raises => Last(found') = old
  BY <1>6
<1> QED BY <1>1, <1>2, <1>5, <1>7 DEF raises, verdict

\* The turn that a graph keeps of the one that was added.
Kept(g, t) ==
    LET lineage == Traced(g.lineage, t, Survive)
    IN  [t EXCEPT !.system = Dated(@, lineage), !.tools = Dated(@, lineage),
                  !.history = Dated(@, lineage), !.results = Dated(@, lineage),
                  !.reply = Dated(@, lineage)]

LEMMA KeptIsAdded ==
    ASSUME NEW g, NEW t
    PROVE  AddTurn(g, t).turns = Append(g.turns, Kept(g, t))
<1> DEFINE lineage == Traced(g.lineage, t, Survive)
           turns == Append(g.turns, Kept(g, t))
           deltas == Append(g.deltas, ComputeDelta(LastTurn(g), t))
<1>1. AddTurn(g, t) = [turns |-> turns, deltas |-> deltas, lineage |-> lineage]
  BY Zenon DEF AddTurn, Kept
<1> HIDE DEF turns, deltas, lineage
<1>2. AddTurn(g, t).turns = turns
  BY <1>1
<1> QED BY <1>2 DEF turns

LEMMA KeptFits ==
    ASSUME NEW provider, NEW streamed, NEW ms, Conversation(ms), NEW parts, NEW g, NEW t, IsTurn(t),
           RequestFits(provider, ms, t), ReplyFits(provider, streamed, parts, t.reply)
    PROVE  /\ TurnFits(provider, streamed, Kept(g, t))
           /\ HistoryFits(provider, ms, Kept(g, t).history)
           /\ ReplyFits(provider, streamed, parts, Kept(g, t).reply)
<1> DEFINE lineage == Traced(g.lineage, t, Survive)
           system == Dated(t.system, lineage)
           tools == Dated(t.tools, lineage)
           history == Dated(t.history, lineage)
           results == Dated(t.results, lineage)
           reply == Dated(t.reply, lineage)
           d == Kept(g, t)
<1>1. d = [t EXCEPT !.system = system, !.tools = tools, !.history = history,
                    !.results = results, !.reply = reply]
  BY DEF Kept
<1> HIDE DEF lineage, d
<1>2. HistoryFits(provider, ms, t.history) /\ ResultsAre(provider, ms, t.results)
  BY DEF RequestFits
<1>3. HistoryFits(provider, ms, history)
  BY <1>2, DatedHistory
<1>4. ResultsAre(provider, ms, results)
  BY <1>2, DatedResults
<1>5. ReplyFits(provider, streamed, parts, reply)
  BY DatedReply
<1> HIDE DEF system, tools, history, results, reply
<1>6. d.history = history /\ d.results = results /\ d.reply = reply
  BY <1>1 DEF IsTurn
<1>7. RequestFits(provider, ms, d) /\ ReplyFits(provider, streamed, parts, d.reply)
  BY <1>3, <1>4, <1>5, <1>6 DEF RequestFits
<1>8. TurnFits(provider, streamed, d)
  BY <1>7, RequestMakesTurn
<1> QED BY <1>7, <1>8 DEF RequestFits, d

\* The turns of a graph in which the last was replaced.
LEMMA UpdatedTurns ==
    ASSUME NEW g, IsSeq(g.turns), Len(g.turns) # 0,
           g = [f \in {"turns", "deltas", "lineage"} |-> g[f]],
           NEW u, u.index = Len(g.turns) - 1
    PROVE  /\ IsSeq(UpdateTurn(g, u).turns) /\ Len(UpdateTurn(g, u).turns) = Len(g.turns)
           /\ UpdateTurn(g, u).turns[Len(g.turns)] = u
           /\ ToSet(UpdateTurn(g, u).turns) \subseteq ToSet(g.turns) \cup {u}
<1> DEFINE turns == UpdateTurn(g, u).turns
           T == Len(g.turns)
           lineage == Traced(g.lineage, u, ShownAgain)
<1>1. UpdateTurn(g, u) = [g EXCEPT !.turns[u.index + 1] = u, !.lineage = lineage]
  BY DEF UpdateTurn
<1> HIDE DEF lineage
<1>2. T \in Nat /\ u.index + 1 = T /\ T \in 1..T
  BY SeqFacts
<1>3. turns = [g.turns EXCEPT ![T] = u]
  BY <1>1, <1>2
<1>4. DOMAIN g.turns = 1..T /\ \A x : x \in ToSet(g.turns) <=> \E i \in 1..T : g.turns[i] = x
  BY SeqFacts
<1>5. /\ turns = [i \in 1..T |-> turns[i]]
      /\ turns[T] = u /\ \A i \in 1..T : i # T => turns[i] = g.turns[i]
  BY <1>2, <1>3, <1>4
<1> HIDE DEF T, turns
<1>6. IsSeq(turns) /\ Len(turns) = T
  BY <1>2, <1>5, FunctionIsSeq
<1>7. \A x : x \in ToSet(turns) <=> \E i \in 1..T : turns[i] = x
  BY <1>6, SeqFacts
<1>8. ASSUME NEW x \in ToSet(turns), x # u PROVE x \in ToSet(g.turns)
  <2>1. PICK i \in 1..T : turns[i] = x
    BY <1>7
  <2>2. g.turns[i] = x
    BY <1>5, <1>8, <2>1
  <2> QED BY <1>4, <2>2
<1> QED BY <1>5, <1>6, <1>8 DEF T, turns

LEMMA UpdatedFits ==
    ASSUME NEW provider, NEW streamed, NEW ms, Conversation(ms), NEW parts, NEW t, IsTurn(t),
           RequestFits(provider, ms, t), ReplyFits(provider, streamed, parts, t.reply),
           NEW n, NEW u, u = [t EXCEPT !.input = n]
    PROVE  /\ TurnFits(provider, streamed, u)
           /\ ReplyFits(provider, streamed, parts, u.reply)
<1>1. u.history = t.history /\ u.results = t.results /\ u.reply = t.reply
  BY DEF IsTurn
<1>2. RequestFits(provider, ms, u) /\ ReplyFits(provider, streamed, parts, u.reply)
  BY <1>1 DEF RequestFits
<1> QED BY <1>1, <1>2, RequestMakesTurn

\* What the model said is in the history of a request that brings it back.
LEMMA Remembers ==
    ASSUME NEW provider, NEW streamed, NEW prompt, NEW m \in ToSet(prompt), IsMessage(m),
           m.role = "assistant", NEW reply, ReplyFits(provider, streamed, m.parts, reply),
           NEW history, HistoryFits(provider, prompt, history)
    PROVE  \A b \in ToSet(reply) :
            (b.type # "thought" /\ b.hash # <<>>
             /\ ~(provider = "anthropic" /\ streamed
                  /\ \E p \in ToSet(m.parts) : p.kind = "thought" /\ p.text = b.hash)) =>
                Key(b) \in Keys(history)
<1> SUFFICES ASSUME NEW b \in ToSet(reply), b.type # "thought", b.hash # <<>>,
                    ~(provider = "anthropic" /\ streamed
                      /\ \E p \in ToSet(m.parts) : p.kind = "thought" /\ p.text = b.hash)
             PROVE  Key(b) \in Keys(history)
  OBVIOUS
<1>1. Repeats(provider, streamed, m.parts, b)
  BY DEF ReplyFits
<1>2. PICK q \in ToSet(m.parts) :
        q.kind \in {"text", "call"} /\ Key(b) \in SaidKeys(provider, Sent(provider, q))
  BY <1>1, Zenon DEF Repeats
<1>3. SaidKeys(provider, Sent(provider, q)) \subseteq KeysIn(history) /\ IsSeq(history)
  BY <1>2 DEF HistoryFits
<1> QED BY <1>2, <1>3, KeysAre
-----------------------------------------------------------------------------
(* What is said, kept and published in a session. *)

\* The last event says what the rules found in the last turn, unless they raised.
PublishedFits ==
    LET prev == SubSeq(graph.turns, 1, LastIndex)
    IN  /\ published.violations
            = IF graph.turns = <<>> \/ Raises(prev, CurrTurn) THEN {}
              ELSE AnalyzeTurn(prev, CurrTurn, DeltaOf(graph, LastIndex))
        /\ (Opened /\ Raises(prev, CurrTurn)) => Last(found) = {}

\* The session is a conversation whose last message is the reply; each kept turn is one the rules
\* can read, and the last one has the blocks of that reply.
SayInv ==
    /\ mode \in Modes
    /\ Conversation(messages) /\ (messages # <<>> => Last(messages).role = "assistant")
    /\ IsSeq(graph.turns) /\ IsSeq(found) /\ Len(found) = Len(graph.turns)
    /\ \A t \in ToSet(graph.turns) : TurnFits(mode.provider, mode.streamed, t)
    /\ graph.turns # <<>> =>
        messages # <<>> /\ ReplyFits(mode.provider, mode.streamed, Last(messages).parts, CurrTurn.reply)
    /\ PublishedFits
    /\ ReplyIsRemembered

LEMMA SayInit == Init => SayInv
<1> SUFFICES ASSUME Init PROVE SayInv
  OBVIOUS
<1>1. /\ messages = <<>> /\ found = <<>> /\ graph = EmptyGraph /\ mode \in Modes
      /\ published.violations = {}
  BY DEF Init
<1>2. graph.turns = <<>>
  BY <1>1 DEF EmptyGraph
<1>3. IsSeq(<<>>) /\ ToSet(<<>>) = {}
  BY SetOfNone
<1>4. Conversation(messages)
  BY <1>1, <1>3 DEF Conversation
<1>5. Len(messages) = 0
  BY <1>1
<1>6. PublishedFits
  BY <1>1, <1>2 DEF PublishedFits, Opened
<1>7. ReplyIsRemembered
  BY <1>5 DEF ReplyIsRemembered
<1> QED BY <1>1, <1>2, <1>3, <1>4, <1>6, <1>7 DEF SayInv

\* The reply that a prompt brings back.
LEMMA BroughtBack ==
    ASSUME NEW ms, Conversation(ms), NEW u, Speaks(ms, u), NEW prompt,
           \/ prompt = Append(ms, u)
           \/ prompt = <<u>> /\ \A p \in ToSet(u.parts) : p.kind = "text",
           NEW m, IsMessage(m), m.role = "assistant", NEW next, next = Append(prompt, m),
           Len(next) > 2
    PROVE  /\ ms # <<>> /\ Last(ms) \in ToSet(prompt) /\ IsMessage(Last(ms))
           /\ next[Len(next) - 2] = Last(ms)
<1>0. IsSeq(ms) /\ Len(ms) \in Nat
  BY SeqFacts DEF Conversation
<1>1. Conversation(prompt) /\ Len(prompt) \in Nat
  BY PromptIsConversation
<1>2. Len(next) = Len(prompt) + 1 /\ \A i \in 1..Len(prompt) : next[i] = prompt[i]
  BY <1>1, ReplyIsConversation
<1>3. prompt = Append(ms, u)
  <2> SUFFICES ASSUME prompt = <<u>> PROVE FALSE
    OBVIOUS
  <2>1. Len(prompt) = 1
    OBVIOUS
  <2> QED BY <1>1, <1>2, <2>1
<1>4. Len(prompt) = Len(ms) + 1 /\ \A i \in 1..Len(ms) : prompt[i] = ms[i]
  <2>1. Len(Append(ms, u)) = Len(ms) + 1
    BY <1>0, SetOfAppend
  <2>2. \A i \in 1..Len(ms) : Append(ms, u)[i] = ms[i]
    BY <1>0, SetOfAppend
  <2> QED BY <1>3, <2>1, <2>2
<1>5. Len(ms) \in 1..Len(ms) /\ Len(next) - 2 = Len(ms) /\ Len(ms) \in 1..Len(prompt)
  BY <1>0, <1>1, <1>2, <1>4
<1>6. next[Len(next) - 2] = ms[Len(ms)]
  BY <1>2, <1>4, <1>5
<1>7. ms[Len(ms)] \in ToSet(ms) /\ ToSet(ms) \subseteq ToSet(prompt) /\ ms # <<>>
  <2>1. ToSet(ms) \subseteq ToSet(prompt)
    BY <1>3, PromptIsConversation
  <2>2. (ms = <<>> <=> Len(ms) = 0) /\ \A x : x \in ToSet(ms) <=> \E i \in 1..Len(ms) : ms[i] = x
    BY <1>0, SeqFacts
  <2> QED BY <1>5, <2>1, <2>2
<1> QED BY <1>6, <1>7 DEF Last, Conversation

\* The first step of a turn keeps this.
LEMMA OpeningSays ==
    ASSUME LineageInv, SayInv, NEW t, NEW prompt, NEW u, NEW m, Says(t, prompt, u, m),
           mode' = mode, steps' = Append(steps, t), messages' = Append(prompt, m),
           t.index = Len(graph.turns), Analyzed(AddTurn(graph, t), t.index, {})
    PROVE  SayInv'
<1> DEFINE T == Len(graph.turns)
           g == AddTurn(graph, t)
           d == Kept(graph, t)
           p == mode.provider
           s == mode.streamed
<1>1. /\ Speaks(messages, u) /\ IsMessage(m) /\ m.role = "assistant"
      /\ \/ prompt = Append(messages, u)
         \/ prompt = <<u>> /\ \A q \in ToSet(u.parts) : q.kind = "text"
      /\ IsTurn(t)
      /\ RequestFits(p, prompt, t) /\ ReplyFits(p, s, m.parts, t.reply)
  BY DEF Says
<1>2. /\ mode \in Modes /\ Conversation(messages)
      /\ IsSeq(graph.turns) /\ IsSeq(found) /\ Len(found) = T
      /\ \A x \in ToSet(graph.turns) : TurnFits(p, s, x)
      /\ graph.turns # <<>> => ReplyFits(p, s, Last(messages).parts, CurrTurn.reply)
      /\ messages # <<>> => Last(messages).role = "assistant"
  BY DEF SayInv
<1>3. Conversation(prompt)
  BY <1>1, <1>2, PromptIsConversation
<1>4. Conversation(messages') /\ Last(messages') = m
  <2>1. Conversation(Append(prompt, m))
    BY <1>1, <1>3, ReplyIsConversation
  <2>2. Last(Append(prompt, m)) = m
    BY <1>1, <1>3, ReplyIsConversation
  <2> QED BY <2>1, <2>2
<1>5. messages' # <<>>
  BY <1>3, SetOfAppend, SeqFacts DEF Conversation
<1>6. /\ g.turns = Append(graph.turns, d)
      /\ TurnFits(p, s, d)
      /\ HistoryFits(p, prompt, d.history)
      /\ ReplyFits(p, s, m.parts, d.reply)
  <2> HIDE DEF p, s
  <2>1. AddTurn(graph, t).turns = Append(graph.turns, Kept(graph, t))
    BY KeptIsAdded
  <2>2. TurnFits(p, s, Kept(graph, t))
    BY <1>1, <1>3, KeptFits
  <2>3. HistoryFits(p, prompt, Kept(graph, t).history)
    BY <1>1, <1>3, KeptFits
  <2>4. ReplyFits(p, s, m.parts, Kept(graph, t).reply)
    BY <1>1, <1>3, KeptFits
  <2> QED BY <2>1, <2>2, <2>3, <2>4
<1>7. T \in Nat /\ T \in 0..Len(found)
  BY <1>2, SeqFacts
<1> HIDE DEF g, d
<1>8. /\ graph' = g
      /\ IsSeq(found') /\ Len(found') = T + 1
      /\ published'.violations = IF Raises(SubSeq(g.turns, 1, T), g.turns[T + 1]) THEN {}
                                 ELSE AnalyzeTurn(SubSeq(g.turns, 1, T), g.turns[T + 1], DeltaOf(g, T))
      /\ Raises(SubSeq(g.turns, 1, T), g.turns[T + 1]) => Last(found') = {}
  BY <1>2, <1>7, AnalyzedEffect DEF g
<1>9. /\ IsSeq(g.turns) /\ ToSet(g.turns) = ToSet(graph.turns) \cup {d}
      /\ Len(g.turns) = T + 1 /\ g.turns[T + 1] = d
      /\ \A i \in 1..T : g.turns[i] = graph.turns[i]
  <2>1. IsSeq(Append(graph.turns, d)) /\ ToSet(Append(graph.turns, d)) = ToSet(graph.turns) \cup {d}
    BY <1>2, SetOfAppend
  <2>2. Len(Append(graph.turns, d)) = T + 1 /\ Append(graph.turns, d)[T + 1] = d
    BY <1>2, SetOfAppend
  <2>3. \A i \in 1..T : Append(graph.turns, d)[i] = graph.turns[i]
    BY <1>2, SetOfAppend
  <2> QED BY <1>6, <2>1, <2>2, <2>3
<1>10. LastIndex' = T /\ CurrTurn' = d
  BY <1>7, <1>8, <1>9 DEF LastIndex, CurrTurn
<1>17. graph'.turns # <<>>
  BY <1>7, <1>8, <1>9, SeqFacts
<1>11. PublishedFits'
  BY <1>8, <1>9, <1>10, <1>17, Zenon DEF PublishedFits
<1>12. ReplyIsRemembered'
  <2> SUFFICES ASSUME LastIndex' > 0, Len(messages') > 2
               PROVE  \A b \in ToSet(PrevTurn'.reply) :
                        (b.type # "thought" /\ b.hash # <<>>
                         /\ ~(p = "anthropic" /\ s
                              /\ \E q \in ToSet(messages'[Len(messages') - 2].parts) :
                                    q.kind = "thought" /\ q.text = b.hash)) =>
                            Key(b) \in Keys(CurrTurn'.history)
    BY DEF ReplyIsRemembered
  <2> DEFINE last == Last(messages)
  <2>1. messages # <<>> /\ last \in ToSet(prompt) /\ IsMessage(last)
        /\ messages'[Len(messages') - 2] = last
    <3> DEFINE sent == Append(prompt, m)
    <3>1. messages' = sent
      OBVIOUS
    <3> HIDE DEF last, p, s
    <3>2. Len(sent) > 2
      BY <3>1
    <3>3. messages # <<>> /\ Last(messages) \in ToSet(prompt) /\ IsMessage(Last(messages))
      BY <1>1, <1>2, <3>2, BroughtBack
    <3>4. sent[Len(sent) - 2] = Last(messages)
      BY <1>1, <1>2, <3>2, BroughtBack
    <3> QED BY <3>1, <3>3, <3>4 DEF last
  <2>2. last.role = "assistant"
    BY <1>2, <2>1
  <2>3. PrevTurn' = CurrTurn /\ graph.turns # <<>>
    <3>1. T \in 1..T
      BY <1>7, <1>10
    <3>2. PrevTurn' = graph'.turns[LastIndex']
      BY DEF PrevTurn
    <3>3. PrevTurn' = graph.turns[T]
      BY <1>8, <1>9, <1>10, <3>1, <3>2
    <3>4. LastIndex + 1 = T
      BY <1>7 DEF LastIndex
    <3>5. graph.turns # <<>>
      BY <1>2, <3>1, SeqFacts
    <3> QED BY <3>3, <3>4, <3>5 DEF CurrTurn
  <2>4. ReplyFits(p, s, last.parts, PrevTurn'.reply)
    BY <1>2, <2>3
  <2>5. HistoryFits(p, prompt, CurrTurn'.history)
    BY <1>6, <1>10
  <2> HIDE DEF last, p, s
  <2>6. \A b \in ToSet(PrevTurn'.reply) :
            (b.type # "thought" /\ b.hash # <<>>
             /\ ~(p = "anthropic" /\ s
                  /\ \E q \in ToSet(last.parts) : q.kind = "thought" /\ q.text = b.hash)) =>
                Key(b) \in Keys(CurrTurn'.history)
    BY <2>1, <2>2, <2>4, <2>5, Remembers
  <2> QED BY <2>1, <2>6
<1>13. \A x \in ToSet(graph'.turns) : TurnFits(p, s, x)
  BY <1>2, <1>6, <1>8, <1>9
<1>14. ReplyFits(p, s, Last(messages').parts, CurrTurn'.reply)
  BY <1>4, <1>6, <1>10
<1>15. mode'.provider = p /\ mode'.streamed = s /\ mode' \in Modes
  BY <1>2
<1>16. Last(messages').role = "assistant" /\ IsSeq(graph'.turns) /\ Len(found') = Len(graph'.turns)
  BY <1>1, <1>4, <1>8, <1>9
<1> HIDE DEF p, s
<1> QED BY <1>4, <1>5, <1>8, <1>11, <1>12, <1>13, <1>14, <1>15, <1>16 DEF SayInv

\* So does a further step, after which the turn has not just opened.
LEMMA FurtherSays ==
    ASSUME LineageInv, SayInv, NEW t, NEW prompt, NEW u, NEW m, Says(t, prompt, u, m),
           mode' = mode, steps' = Append(steps, t), messages' = Append(prompt, m),
           graph.turns # <<>>, t.index = Len(graph.turns) - 1,
           NEW n, Analyzed(UpdateTurn(graph, [t EXCEPT !.input = n]), t.index, Last(found))
    PROVE  SayInv'
<1> DEFINE T == Len(graph.turns)
           kept == [t EXCEPT !.input = n]
           g == UpdateTurn(graph, kept)
           turns == g.turns
           p == mode.provider
           s == mode.streamed
           old == Last(found)
<1>1. /\ Speaks(messages, u) /\ IsMessage(m) /\ m.role = "assistant"
      /\ \/ prompt = Append(messages, u)
         \/ prompt = <<u>> /\ \A q \in ToSet(u.parts) : q.kind = "text"
      /\ IsTurn(t)
      /\ RequestFits(p, prompt, t) /\ ReplyFits(p, s, m.parts, t.reply)
  BY DEF Says
<1>2. /\ mode \in Modes /\ Conversation(messages)
      /\ IsSeq(graph.turns) /\ IsSeq(found) /\ Len(found) = T
      /\ \A x \in ToSet(graph.turns) : TurnFits(p, s, x)
  BY DEF SayInv
<1>3. Conversation(prompt)
  BY <1>1, <1>2, PromptIsConversation
<1>4. Conversation(messages') /\ Last(messages') = m
  <2>1. Conversation(Append(prompt, m))
    BY <1>1, <1>3, ReplyIsConversation
  <2>2. Last(Append(prompt, m)) = m
    BY <1>1, <1>3, ReplyIsConversation
  <2> QED BY <2>1, <2>2
<1>5. messages' # <<>>
  BY <1>3, SetOfAppend, SeqFacts DEF Conversation
<1>6. T \in Nat /\ T # 0 /\ t.index \in 0..Len(found) /\ t.index + 1 = T
  BY <1>2, SeqFacts
<1>7. graph = [f \in {"turns", "deltas", "lineage"} |-> graph[f]]
  BY DEF LineageInv
<1>8. kept.index = t.index /\ TurnFits(p, s, kept) /\ ReplyFits(p, s, m.parts, kept.reply)
  <2>1. kept = [t EXCEPT !.input = n]
    OBVIOUS
  <2>4. kept.index = t.index
    BY <1>1 DEF IsTurn
  <2> HIDE DEF p, s, kept
  <2>2. TurnFits(p, s, kept)
    BY <1>1, <1>3, <2>1, UpdatedFits
  <2>3. ReplyFits(p, s, m.parts, kept.reply)
    BY <1>1, <1>3, <2>1, UpdatedFits
  <2> QED BY <2>2, <2>3, <2>4
<1> HIDE DEF kept
<1>18. /\ IsSeq(turns) /\ Len(turns) = T /\ turns[T] = kept
       /\ ToSet(turns) \subseteq ToSet(graph.turns) \cup {kept}
  BY <1>2, <1>6, <1>7, <1>8, UpdatedTurns
<1> HIDE DEF g, old
<1>9. /\ graph' = g
      /\ IsSeq(found') /\ Len(found') = T
      /\ published'.violations = IF Raises(SubSeq(turns, 1, t.index), turns[t.index + 1]) THEN {}
                                 ELSE AnalyzeTurn(SubSeq(turns, 1, t.index), turns[t.index + 1],
                                                  DeltaOf(g, t.index))
  <2>1. Analyzed(g, t.index, old)
    BY DEF g, kept, old
  <2> QED BY <1>2, <1>6, <2>1, AnalyzedEffect
<1>10. LastIndex' = t.index /\ CurrTurn' = turns[T]
  BY <1>6, <1>18, <1>9 DEF LastIndex, CurrTurn
<1>11. ~Opened'
  <2>1. PICK S : steps \in Seq(S)
    BY DEF LineageInv, History
  <2>2. PICK j \in DOMAIN steps : steps[j].index = T - 1
    BY <1>6 DEF LineageInv, History
  <2>3. /\ steps' \in Seq(S \cup {t}) /\ Len(steps) \in Nat /\ Len(steps') = Len(steps) + 1
        /\ j \in 1..Len(steps) /\ steps'[j] = steps[j]
    BY <2>1
  <2>4. Exchanges' = Len(steps) + 1
    BY <2>3 DEF Exchanges
  <2>5. j \in 1..(Exchanges' - 1) /\ steps'[j].index = LastIndex'
    BY <1>6, <1>10, <2>2, <2>3, <2>4
  <2> QED BY <2>5 DEF Opened
<1>12. PublishedFits'
  <2>1. turns = graph'.turns /\ DeltaOf(g, t.index) = DeltaOf(graph', LastIndex')
        /\ turns[t.index + 1] = CurrTurn'
    BY <1>6, <1>9, <1>10
  <2>2. graph'.turns # <<>>
    BY <1>6, <1>9, <1>18, SeqFacts
  <2> HIDE DEF turns
  <2> QED BY <1>9, <1>10, <1>11, <2>1, <2>2 DEF PublishedFits
<1>13. ReplyIsRemembered'
  BY <1>11 DEF ReplyIsRemembered
<1>14. \A x \in ToSet(graph'.turns) : TurnFits(p, s, x)
  BY <1>2, <1>8, <1>18, <1>9
<1>15. ReplyFits(p, s, Last(messages').parts, CurrTurn'.reply)
  BY <1>4, <1>8, <1>18, <1>10
<1>16. mode'.provider = p /\ mode'.streamed = s /\ mode' \in Modes
  BY <1>2
<1>17. Last(messages').role = "assistant" /\ IsSeq(graph'.turns) /\ Len(found') = Len(graph'.turns)
  BY <1>1, <1>4, <1>18, <1>9
<1> HIDE DEF p, s
<1> QED BY <1>4, <1>5, <1>9, <1>12, <1>13, <1>14, <1>15, <1>16, <1>17 DEF SayInv

LEMMA SayStep == LineageInv /\ SayInv /\ [Next]_vars => SayInv'
<1> SUFFICES ASSUME LineageInv, SayInv, [Next]_vars PROVE SayInv'
  OBVIOUS
<1>1. CASE UNCHANGED vars
  <2>1. /\ mode' = mode /\ messages' = messages /\ graph' = graph /\ found' = found
        /\ published' = published /\ steps' = steps
    BY <1>1 DEF vars
  <2>2. /\ LastIndex' = LastIndex /\ CurrTurn' = CurrTurn /\ PrevTurn' = PrevTurn
        /\ Exchanges' = Exchanges
    BY <2>1 DEF LastIndex, CurrTurn, PrevTurn, Exchanges
  <2>3. Opened' = Opened
    BY <2>1, <2>2 DEF Opened
  <2>4. PublishedFits'
    <3>1. PublishedFits
      BY DEF SayInv
    <3> QED BY <2>1, <2>2, <2>3, <3>1 DEF PublishedFits
  <2>5. ReplyIsRemembered'
    <3>1. ReplyIsRemembered
      BY DEF SayInv
    <3> QED BY <2>1, <2>2, <2>3, <3>1 DEF ReplyIsRemembered
  <2> QED BY <2>1, <2>2, <2>4, <2>5 DEF SayInv
<1>2. CASE Exchange
  <2>1. mode \in Modes /\ Conversation(messages) /\ (messages # <<>> => Last(messages).role = "assistant")
    BY DEF SayInv
  <2>2. mode' = mode
    BY <1>2, <2>1, ExchangeSays
  <2>3. PICK t, prompt, u, m :
            /\ Says(t, prompt, u, m)
            /\ steps' = Append(steps, t) /\ messages' = Append(prompt, m)
            /\ \/ t.index = Len(graph.turns) /\ Analyzed(AddTurn(graph, t), t.index, {})
               \/ /\ graph.turns # <<>> /\ t.index = Len(graph.turns) - 1
                  /\ \E n : Analyzed(UpdateTurn(graph, [t EXCEPT !.input = n]),
                                     t.index, Last(found))
    BY <1>2, <2>1, ExchangeSays
  <2>4. CASE t.index = Len(graph.turns) /\ Analyzed(AddTurn(graph, t), t.index, {})
    BY <2>2, <2>3, <2>4, OpeningSays
  <2>5. CASE /\ graph.turns # <<>> /\ t.index = Len(graph.turns) - 1
             /\ \E n : Analyzed(UpdateTurn(graph, [t EXCEPT !.input = n]), t.index, Last(found))
    <3>1. PICK n : Analyzed(UpdateTurn(graph, [t EXCEPT !.input = n]), t.index, Last(found))
      BY <2>5
    <3> QED BY <2>2, <2>3, <2>5, <3>1, FurtherSays
  <2> QED BY <2>3, <2>4, <2>5
<1> QED BY <1>1, <1>2 DEF Next

\* The last turn and those before it, as the rules see them.
LEMMA LastTurns ==
    ASSUME SayInv, graph.turns # <<>>
    PROVE  LET prev == SubSeq(graph.turns, 1, LastIndex)
           IN  /\ LastIndex \in Nat /\ IsSeq(prev) /\ Len(prev) = LastIndex
               /\ \A i \in 1..LastIndex : prev[i] = graph.turns[i]
               /\ \A t \in ToSet(prev) : TurnFits(mode.provider, mode.streamed, t)
               /\ TurnFits(mode.provider, mode.streamed, CurrTurn)
<1> DEFINE turns == graph.turns
           prev == SubSeq(turns, 1, LastIndex)
           fits(t) == TurnFits(mode.provider, mode.streamed, t)
<1>1. IsSeq(turns) /\ \A t \in ToSet(turns) : fits(t)
  BY DEF SayInv
<1>2. /\ Len(turns) \in Nat /\ Len(turns) # 0
      /\ \A x : x \in ToSet(turns) <=> \E i \in 1..Len(turns) : turns[i] = x
  BY <1>1, SeqFacts
<1>3. LastIndex \in Nat /\ LastIndex + 1 \in 1..Len(turns) /\ LastIndex \in 0..Len(turns)
  BY <1>2 DEF LastIndex
<1>4. CurrTurn \in ToSet(turns)
  BY <1>2, <1>3 DEF CurrTurn
<1>5. 1 \in Nat \ {0}
  OBVIOUS
<1> HIDE DEF turns, fits
<1>6. IsSeq(SubSeq(turns, 1, LastIndex)) /\ ToSet(SubSeq(turns, 1, LastIndex)) \subseteq ToSet(turns)
  BY <1>1, <1>3, <1>5, SetOfPart
<1>7. Len(SubSeq(turns, 1, LastIndex)) = IF 1 <= LastIndex THEN LastIndex - 1 + 1 ELSE 0
  BY <1>1, <1>3, <1>5, SetOfPart
<1>8. Len(prev) = LastIndex
  BY <1>3, <1>7
<1>9. \A i \in 1..Len(SubSeq(turns, 1, LastIndex)) :
        SubSeq(turns, 1, LastIndex)[i] = turns[1 + i - 1]
  BY <1>1, <1>3, <1>5, SetOfPart
<1> HIDE DEF prev
<1>10. \A i \in 1..LastIndex : prev[i] = turns[i]
  <2> SUFFICES ASSUME NEW i \in 1..LastIndex PROVE prev[i] = turns[i]
    OBVIOUS
  <2>1. 1 + i - 1 = i /\ i \in 1..Len(prev)
    BY <1>3, <1>8
  <2> QED BY <1>9, <2>1 DEF prev
<1>11. IsSeq(prev) /\ \A t \in ToSet(prev) : fits(t)
  BY <1>1, <1>6 DEF prev
<1> QED BY <1>1, <1>3, <1>4, <1>8, <1>10, <1>11 DEF turns, prev, fits

LEMMA SayFails == SayInv => OnlyStreamedCallsFail
<1> DEFINE prev == SubSeq(graph.turns, 1, LastIndex)
           p == mode.provider
           s == mode.streamed
<1> SUFFICES ASSUME SayInv, graph.turns # <<>>, Raises(prev, CurrTurn)
             PROVE  /\ p = "anthropic" /\ s
                    /\ published.violations = {} /\ (Opened => Last(found) = {})
  BY DEF OnlyStreamedCallsFail
<1>1. IsSeq(prev) /\ (\A t \in ToSet(prev) : TurnFits(p, s, t)) /\ TurnFits(p, s, CurrTurn)
  BY LastTurns
<1>2. p = "anthropic" /\ s
  <2> HIDE DEF p, s, prev
  <2>1. ~Wordless(p, s) => ~Raises(prev, CurrTurn)
    BY <1>1, NotRaises
  <2> QED BY <2>1, Zenon DEF Wordless
<1>3. published.violations = {} /\ (Opened => Last(found) = {})
  BY DEF SayInv, PublishedFits
<1> QED BY <1>2, <1>3

LEMMA SayZombies == SayInv => ZombiesAreNameless
<1> DEFINE prev == SubSeq(graph.turns, 1, LastIndex)
           p == mode.provider
           s == mode.streamed
           said == published.violations
           delta == DeltaOf(graph, LastIndex)
           all == AnalyzeTurn(prev, CurrTurn, delta)
           zombies == UNION {v.blocks : v \in {w \in said : w.rule = "CTX-006"}}
           stays(b) == \A i \in (LastIndex - MinTurns)..LastIndex :
                            \E r \in ToSet(graph.turns[i + 1].results) : r.hash = b.hash
<1> SUFFICES ASSUME SayInv
             PROVE  /\ p # "gemini" => zombies = {}
                    /\ (p = "gemini" /\ LastIndex >= MinTurns) =>
                        \A b \in ToSet(CurrTurn.results) :
                            (SizeOf(b.hash) > ZombieTokens /\ stays(b)) => b.id \in zombies
  BY DEF ZombiesAreNameless
<1>1. said = IF graph.turns = <<>> \/ Raises(prev, CurrTurn) THEN {} ELSE all
  BY DEF SayInv, PublishedFits
<1>2. graph.turns # <<>> =>
        /\ LastIndex \in Nat /\ IsSeq(prev) /\ Len(prev) = LastIndex
        /\ \A i \in 1..LastIndex : prev[i] = graph.turns[i]
        /\ \A t \in ToSet(prev) : TurnFits(p, s, t)
        /\ TurnFits(p, s, CurrTurn)
  BY LastTurns
<1>3. \A v \in all : v.rule = "CTX-006" => v \in ZombieContext(prev, CurrTurn)
  BY ZombieViolations
<1>4. ZombieContext(prev, CurrTurn) \subseteq all
  BY ZombieViolations
<1> HIDE DEF prev, p, s, said, all, delta, stays
<1>5. ASSUME p # "gemini" PROVE zombies = {}
  <2>1. \A v \in said : v.rule # "CTX-006"
    <3>1. CASE graph.turns = <<>> \/ Raises(prev, CurrTurn)
      BY <1>1, <3>1
    <3>2. CASE graph.turns # <<>> /\ ~Raises(prev, CurrTurn)
      <4>1. ZombieContext(prev, CurrTurn) = {}
        BY <1>2, <1>5, <3>2, NoZombies
      <4> QED BY <1>1, <1>3, <3>2, <4>1
    <3> QED BY <3>1, <3>2
  <2> QED BY <2>1
<1>6. ASSUME p = "gemini", LastIndex >= MinTurns, NEW b \in ToSet(CurrTurn.results),
             SizeOf(b.hash) > ZombieTokens, stays(b)
      PROVE  b.id \in zombies
  <2>1. graph.turns # <<>> /\ MinTurns \in Nat
    <3>1. MinTurns \in Nat
      BY ThresholdsAssumption
    <3>2. IsSeq(graph.turns)
      BY DEF SayInv
    <3>3. graph.turns = <<>> => LastIndex = 0 - 1
      BY <3>2, SeqFacts DEF LastIndex
    <3> QED BY <1>6, <3>1, <3>3
  <2>2. ~Raises(prev, CurrTurn)
    <3>1. ~Wordless(p, s)
      BY <1>6 DEF Wordless
    <3> QED BY <1>2, <2>1, <3>1, NotRaises
  <2>3. b.call = NoCall
    BY <1>2, <1>6, <2>1 DEF TurnFits
  <2>4. \A i \in (Len(prev) - MinTurns + 1)..Len(prev) :
            \E r \in ToSet(prev[i].results) : r.hash = b.hash
    <3> SUFFICES ASSUME NEW i \in (Len(prev) - MinTurns + 1)..Len(prev)
                 PROVE  \E r \in ToSet(prev[i].results) : r.hash = b.hash
      OBVIOUS
    <3>1. i - 1 \in (LastIndex - MinTurns)..LastIndex /\ i \in 1..LastIndex /\ i - 1 + 1 = i
      BY <1>2, <1>6, <2>1
    <3>2. \E r \in ToSet(graph.turns[i - 1 + 1].results) : r.hash = b.hash
      BY <1>6, <3>1 DEF stays
    <3> QED BY <1>2, <2>1, <3>1, <3>2
  <2> DEFINE v == Violation("CTX-006", "WARN", {b.id})
  <2>5. v \in ZombieContext(prev, CurrTurn)
    BY <1>2, <1>6, <2>1, <2>3, <2>4, AreZombies
  <2>6. v \in said
    BY <1>1, <1>4, <2>1, <2>2, <2>5
  <2>7. v.rule = "CTX-006" /\ v.blocks = {b.id}
    BY DEF Violation
  <2> HIDE DEF v
  <2> QED BY <2>6, <2>7
<1> QED BY <1>5, <1>6

\* For any prompts, tools, provider, thresholds and session length (engine.py, addon.py): the
\* rules only raise on a turn of an Anthropic stream; nothing is published then, and a turn
\* that just opened is stored without findings.
THEOREM FailuresAreStreamed == Spec => []OnlyStreamedCallsFail
<1>1. Init => LineageInv /\ SayInv
  BY LineageInit, SayInit
<1>2. LineageInv /\ SayInv /\ [Next]_vars => (LineageInv /\ SayInv)'
  BY LineageStep, SayStep
<1>3. SayInv => OnlyStreamedCallsFail
  BY SayFails
<1> QED BY <1>1, <1>2, <1>3, PTL DEF Spec

\* For any prompts, tools, thresholds and session length (zombie_context.py): no result that has a
\* call id is ever reported as a zombie, since the history mentions its call; of Gemini, whose
\* results have none, every large result that stays is.
THEOREM ZombiesHaveNoName == Spec => []ZombiesAreNameless
<1>1. Init => LineageInv /\ SayInv
  BY LineageInit, SayInit
<1>2. LineageInv /\ SayInv /\ [Next]_vars => (LineageInv /\ SayInv)'
  BY LineageStep, SayStep
<1>3. SayInv => ZombiesAreNameless
  BY SayZombies
<1> QED BY <1>1, <1>2, <1>3, PTL DEF Spec

\* For any prompts, tools, provider and session length: what the model said is known by its identity in
\* the history of the next turn, but for its thoughts and the calls of an Anthropic stream.
THEOREM RepliesAreRemembered == Spec => []ReplyIsRemembered
<1>1. Init => LineageInv /\ SayInv
  BY LineageInit, SayInit
<1>2. LineageInv /\ SayInv /\ [Next]_vars => (LineageInv /\ SayInv)'
  BY LineageStep, SayStep
<1>3. SayInv => ReplyIsRemembered
  BY DEF SayInv
<1> QED BY <1>1, <1>2, <1>3, PTL DEF Spec
=============================================================================
