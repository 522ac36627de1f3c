---------------------------- MODULE EgressProofs ----------------------------
(***************************************************************************)
(* Theorems about Egress, for every capacity, kernel buffer, set of        *)
(* oversize frames and number of frames and outages.                       *)
(*                                                                         *)
(* The invariant IInv adds to the properties where the frame in hand can   *)
(* be (only while the worker is sending) and where frames can be in the    *)
(* kernel (only on an open connection): without the first, a put-back      *)
(* could be invented, without the second, a reconnection would lose frames *)
(* that nobody counts.                                                     *)
(***************************************************************************)
EXTENDS Egress, TLAPS

Shape ==
    /\ payload # 0 <=> worker = "send"
    /\ peer # "open" => wire = <<>>
    /\ worker = "none" => ~running /\ ~sock
    /\ ~sock => peer # "open" \/ worker = "done"

IInv == TypeOK /\ Shape /\ Accounting /\ PipelineOrder

USE CapacityAssumption, KernelCapAssumption, BoundsAssumption

(* Sequences of frame numbers. *)

LEMMA SeqOfFrames ==
    ASSUME NEW n \in Nat, NEW s \in Seq(1..n)
    PROVE  /\ s \in Seq(1..(n + 1))
           /\ s \in Seq(Nat)
           /\ \A i \in 1..Len(s) : s[i] \in 1..n
  OBVIOUS

LEMMA TailFacts ==
    ASSUME NEW S, NEW s \in Seq(S), s # <<>>
    PROVE  /\ Head(s) = s[1] /\ s[1] \in S
           /\ Len(s) \in Nat \ {0}
           /\ Tail(s) \in Seq(S)
           /\ Len(Tail(s)) = Len(s) - 1
           /\ \A i \in 1..(Len(s) - 1) : Tail(s)[i] = s[i + 1]
  OBVIOUS

LEMMA AppendFacts ==
    ASSUME NEW S, NEW s \in Seq(S), NEW x \in S
    PROVE  /\ Append(s, x) \in Seq(S)
           /\ Len(Append(s, x)) = Len(s) + 1
           /\ \A i \in 1..Len(s) : Append(s, x)[i] = s[i]
           /\ Append(s, x)[Len(s) + 1] = x
  OBVIOUS

LEMMA ConsFacts ==
    ASSUME NEW S, NEW s \in Seq(S), NEW x \in S
    PROVE  /\ <<x>> \o s \in Seq(S)
           /\ Len(<<x>> \o s) = Len(s) + 1
           /\ (<<x>> \o s)[1] = x
           /\ \A i \in 2..(Len(s) + 1) : (<<x>> \o s)[i] = s[i - 1]
  OBVIOUS

(* Order of sequences: what Tail, Append and a put-back preserve. *)

LEMMA OrderOfTail ==
    ASSUME NEW s \in Seq(Nat), NEW t \in Seq(Nat), s # <<>>
    PROVE  /\ Increasing(s) => Increasing(Tail(s))
           /\ Below(s, t) => Below(Tail(s), t)
           /\ Below(t, s) => Below(t, Tail(s))
           /\ Increasing(s) => Below(<<Head(s)>>, Tail(s))
           /\ Below(t, s) => Below(t, <<Head(s)>>)
           /\ Below(s, t) => Below(<<Head(s)>>, t)
<1> DEFINE r == Tail(s)
           h == Head(s)
<1>1. /\ h = s[1] /\ h \in Nat /\ Len(s) \in Nat \ {0} /\ r \in Seq(Nat)
      /\ Len(r) = Len(s) - 1
      /\ \A i \in 1..Len(r) : r[i] = s[i + 1] /\ i + 1 \in 1..Len(s)
  BY TailFacts
<1> HIDE DEF r, h
<1>2. ASSUME Increasing(s) PROVE Increasing(r)
  <2> SUFFICES ASSUME NEW i \in 1..Len(r), NEW j \in 1..Len(r), i < j PROVE r[i] < r[j]
    BY DEF Increasing
  <2>1. i + 1 \in 1..Len(s) /\ j + 1 \in 1..Len(s) /\ i + 1 < j + 1
    BY <1>1
  <2>2. s[i + 1] < s[j + 1]
    BY <1>2, <2>1 DEF Increasing
  <2> QED BY <1>1, <2>2
<1>3. Below(s, t) => Below(r, t)
  BY <1>1 DEF Below
<1>4. Below(t, s) => Below(t, r)
  BY <1>1 DEF Below
<1>5. ASSUME Increasing(s) PROVE Below(<<h>>, r)
  <2> SUFFICES ASSUME NEW j \in 1..Len(r) PROVE h < r[j]
    BY DEF Below
  <2>1. 1 \in 1..Len(s) /\ j + 1 \in 1..Len(s) /\ 1 < j + 1
    BY <1>1
  <2>2. s[1] < s[j + 1]
    BY <1>5, <2>1 DEF Increasing
  <2> QED BY <1>1, <2>2
<1>6. Below(t, s) => Below(t, <<h>>)
  BY <1>1 DEF Below
<1>7. Below(s, t) => Below(<<h>>, t)
  BY <1>1 DEF Below
<1> QED BY <1>2, <1>3, <1>4, <1>5, <1>6, <1>7 DEF r, h

LEMMA OrderOfAppend ==
    ASSUME NEW s \in Seq(Nat), NEW t \in Seq(Nat), NEW x \in Nat
    PROVE  /\ Increasing(s) /\ Below(s, <<x>>) => Increasing(Append(s, x))
           /\ Below(t, s) /\ Below(t, <<x>>) => Below(t, Append(s, x))
           /\ Below(s, t) /\ Below(<<x>>, t) => Below(Append(s, x), t)
  BY AppendFacts DEF Increasing, Below

LEMMA OrderOfCons ==
    ASSUME NEW s \in Seq(Nat), NEW t \in Seq(Nat), NEW x \in Nat
    PROVE  /\ Increasing(s) /\ Below(<<x>>, s) => Increasing(<<x>> \o s)
           /\ Below(t, s) /\ Below(t, <<x>>) => Below(t, <<x>> \o s)
<1> DEFINE r == <<x>> \o s
<1>1. /\ r \in Seq(Nat) /\ Len(r) = Len(s) + 1 /\ r[1] = x
      /\ \A i \in 1..Len(r) : i = 1 \/ (i - 1 \in 1..Len(s) /\ r[i] = s[i - 1])
  BY ConsFacts
<1> HIDE DEF r
<1>2. ASSUME Increasing(s), Below(<<x>>, s) PROVE Increasing(r)
  <2> SUFFICES ASSUME NEW i \in 1..Len(r), NEW j \in 1..Len(r), i < j PROVE r[i] < r[j]
    BY DEF Increasing
  <2>1. j - 1 \in 1..Len(s) /\ r[j] = s[j - 1]
    BY <1>1
  <2>2. CASE i = 1
    <3>1. x < s[j - 1]
      BY <1>2, <2>1 DEF Below
    <3> QED BY <1>1, <2>1, <2>2, <3>1
  <2>3. CASE i # 1
    <3>1. i - 1 \in 1..Len(s) /\ r[i] = s[i - 1] /\ i - 1 < j - 1
      BY <1>1, <2>3
    <3>2. s[i - 1] < s[j - 1]
      BY <1>2, <2>1, <3>1 DEF Increasing
    <3> QED BY <2>1, <3>1, <3>2
  <2> QED BY <2>2, <2>3
<1>3. ASSUME Below(t, s), Below(t, <<x>>) PROVE Below(t, r)
  <2> SUFFICES ASSUME NEW i \in 1..Len(t), NEW j \in 1..Len(r) PROVE t[i] < r[j]
    BY DEF Below
  <2>1. CASE j = 1
    BY <1>1, <1>3, <2>1 DEF Below
  <2>2. CASE j # 1
    BY <1>1, <1>3, <2>2 DEF Below
  <2> QED BY <2>1, <2>2
<1> QED BY <1>2, <1>3 DEF r

(* The next frame is younger than all that were emitted. *)
LEMMA OrderOfNext ==
    ASSUME NEW n \in Nat, NEW s \in Seq(1..n)
    PROVE  Below(s, <<n + 1>>)
  BY SeqOfFrames DEF Below

LEMMA OrderOfEmpty ==
    ASSUME NEW s \in Seq(Nat)
    PROVE  Increasing(<<>>) /\ Below(<<>>, s) /\ Below(s, <<>>)
  BY DEF Increasing, Below

LEMMA InitIInv == Init => IInv
<1> SUFFICES ASSUME Init PROVE IInv
  OBVIOUS
<1> USE DEF Init
<1>1. TypeOK
  <2>1. /\ queue \in Seq(1..pushed) /\ wire \in Seq(1..pushed)
        /\ delivered \in Seq(1..pushed) /\ Len(queue) <= Capacity /\ Len(wire) <= KernelCap
    OBVIOUS
  <2>2. running \in BOOLEAN /\ sock \in BOOLEAN /\ server \in BOOLEAN
    OBVIOUS
  <2> QED BY <2>1, <2>2 DEF TypeOK
<1>2. Shape
  BY DEF Shape
<1>3. Accounting
  BY DEF Accounting, InHand
<1>4. PipelineOrder
  BY DEF PipelineOrder, Increasing, Below, Hand
<1> QED BY <1>1, <1>2, <1>3, <1>4 DEF IInv

(* The part of the invariant that is about frames depends on these variables only. *)
frameVars == <<pushed, queue, dropped_count, payload, wire, delivered, lost>>

LEMMA QuietStep ==
    ASSUME IInv, UNCHANGED frameVars
    PROVE  Accounting' /\ PipelineOrder'
<1>1. Accounting'
  BY DEF IInv, frameVars, Accounting, InHand
<1>2. PipelineOrder'
  BY DEF IInv, frameVars, PipelineOrder, Increasing, Below, Hand
<1> QED BY <1>1, <1>2


(* What TypeOK says of the frames in the queues. *)
LEMMA FramesAreNat ==
    ASSUME TypeOK
    PROVE  /\ pushed \in Nat /\ payload \in Nat /\ dropped_count \in Nat /\ lost \in Nat
           /\ queue \in Seq(Nat) /\ wire \in Seq(Nat) /\ delivered \in Seq(Nat)
           /\ Hand \in Seq(Nat) /\ Hand \in Seq(1..pushed)
           /\ Len(queue) \in Nat /\ Len(wire) \in Nat /\ Len(delivered) \in Nat
           /\ InHand \in Nat
<1> USE DEF TypeOK
<1>1. pushed \in Nat /\ payload \in Nat /\ dropped_count \in Nat /\ lost \in Nat
  OBVIOUS
<1>2. queue \in Seq(Nat) /\ wire \in Seq(Nat) /\ delivered \in Seq(Nat)
  BY SeqOfFrames
<1>3. Len(queue) \in Nat /\ Len(wire) \in Nat /\ Len(delivered) \in Nat
  OBVIOUS
<1>4. Hand \in Seq(1..pushed)
  <2>1. CASE payload = 0
    BY <2>1 DEF Hand
  <2>2. CASE payload # 0
    <3>1. payload \in 1..pushed
      BY <2>2
    <3> HIDE DEF TypeOK
    <3>2. <<payload>> \in Seq(1..pushed)
      BY <3>1
    <3> QED BY <2>2, <3>2 DEF Hand
  <2> QED BY <2>1, <2>2
<1>5. Hand \in Seq(Nat)
  BY <1>1, <1>4, SeqOfFrames
<1>6. InHand \in Nat
  BY DEF InHand
<1> QED BY <1>1, <1>2, <1>3, <1>4, <1>5, <1>6

LEMMA EmitIInv ==
    ASSUME IInv, Emit
    PROVE  IInv'
<1> DEFINE kept == IF Full THEN Tail(queue) ELSE queue
           next == pushed + 1
<1>1. TypeOK /\ Shape /\ Accounting /\ PipelineOrder
  BY DEF IInv
<1>2. /\ pushed' = next /\ queue' = Append(kept, next)
      /\ dropped_count' = IF Full THEN dropped_count + 1 ELSE dropped_count
      /\ UNCHANGED <<running, worker, payload, sock, peer, wire, partial,
                     server, outages, delivered, lost>>
  BY DEF Emit, Push, clientVars, netVars, serverVars
<1>3. pushed \in Nat /\ queue \in Seq(1..pushed) /\ Len(queue) \in Nat /\ Len(queue) <= Capacity
  BY <1>1 DEF TypeOK
<1>4. kept \in Seq(1..pushed) /\ Len(kept) \in Nat
      /\ Len(kept) < Capacity
      /\ Len(kept) = IF Full THEN Len(queue) - 1 ELSE Len(queue)
  <2>1. CASE Full
    <3>1. Len(queue) = Capacity /\ queue # <<>>
      BY <1>3, <2>1, CapacityAssumption DEF Full
    <3>2. Tail(queue) \in Seq(1..pushed) /\ Len(Tail(queue)) = Len(queue) - 1
      BY <1>3, <3>1, TailFacts
    <3> QED BY <1>3, <2>1, <3>1, <3>2
  <2>2. CASE ~Full
    BY <1>3, <2>2, CapacityAssumption DEF Full
  <2> QED BY <2>1, <2>2
<1>5. kept \in Seq(1..next) /\ kept \in Seq(Nat) /\ next \in Nat /\ next \in 1..next
  BY <1>3, <1>4, SeqOfFrames
<1>6. queue' \in Seq(1..pushed') /\ Len(queue') = Len(kept) + 1
  BY <1>2, <1>5, AppendFacts
<1>7. /\ Increasing(kept) /\ Below(delivered, kept) /\ Below(wire, kept) /\ Below(Hand, kept)
  <2>1. CASE Full
    <3>1. queue # <<>>
      BY <1>3, <2>1, CapacityAssumption DEF Full
    <3>2. /\ Increasing(Tail(queue)) /\ Below(delivered, Tail(queue))
          /\ Below(wire, Tail(queue)) /\ Below(Hand, Tail(queue))
      BY <1>1, <3>1, FramesAreNat, OrderOfTail DEF PipelineOrder
    <3> QED BY <2>1, <3>2
  <2>2. CASE ~Full
    BY <1>1, <2>2 DEF PipelineOrder
  <2> QED BY <2>1, <2>2
<1> HIDE DEF kept, next
<1>8. TypeOK'
  <2>1. wire' \in Seq(1..pushed') /\ delivered' \in Seq(1..pushed')
    BY <1>1, <1>2, SeqOfFrames DEF TypeOK, next
  <2>2. Len(queue') <= Capacity
    BY <1>4, <1>6
  <2>3. pushed' \in Nat /\ payload' \in 0..pushed' /\ partial' \in 0..pushed' /\ dropped_count' \in Nat
    BY <1>1, <1>2 DEF TypeOK, next
  <2> QED BY <1>1, <1>2, <1>6, <2>1, <2>2, <2>3 DEF TypeOK
<1>9. Shape'
  BY <1>1, <1>2 DEF Shape
<1>10. Accounting'
  <2>1. Len(queue') + dropped_count' = Len(queue) + dropped_count + 1
    BY <1>1, <1>2, <1>3, <1>4, <1>6 DEF TypeOK
  <2>2. /\ Len(delivered') = Len(delivered) /\ Len(wire') = Len(wire)
        /\ InHand' = InHand /\ lost' = lost /\ pushed' = pushed + 1
    BY <1>2 DEF InHand, next
  <2>3. Len(queue') \in Nat /\ dropped_count' \in Nat
    BY <1>1, <1>2, <1>4, <1>6 DEF TypeOK
  <2>4. /\ Len(delivered) \in Nat /\ Len(wire) \in Nat /\ InHand \in Nat
        /\ Len(queue) \in Nat /\ dropped_count \in Nat /\ lost \in Nat
    BY <1>1, FramesAreNat
  <2>5. pushed' = Len(delivered) + Len(wire) + InHand + Len(queue') + dropped_count' + lost
    BY <1>1, <2>1, <2>2, <2>3, <2>4 DEF Accounting
  <2> QED BY <2>2, <2>5 DEF Accounting
<1>11. PipelineOrder'
  <2>1. Below(kept, <<next>>) /\ Below(delivered, <<next>>) /\ Below(wire, <<next>>)
        /\ Below(Hand, <<next>>)
    BY <1>1, <1>3, <1>4, FramesAreNat, OrderOfNext DEF next, TypeOK
  <2>2. /\ Increasing(queue') /\ Below(delivered, queue') /\ Below(wire, queue')
        /\ Below(Hand, queue')
    BY <1>1, <1>2, <1>5, <1>7, <2>1, FramesAreNat, OrderOfAppend
  <2>3. Hand' = Hand /\ wire' = wire /\ delivered' = delivered
    BY <1>2 DEF Hand
  <2> QED BY <1>1, <2>2, <2>3 DEF PipelineOrder
<1> QED BY <1>8, <1>9, <1>10, <1>11 DEF IInv

(* Steps that move the worker, the client or the server and no frame. *)
LEMMA ControlIInv ==
    ASSUME IInv,
           \/ Start \/ StopRequest \/ StopDisconnect \/ WorkerExit \/ CheckAlive
           \/ SendPart \/ EndOfStream \/ ServerUp
    PROVE  IInv'
<1>1. TypeOK /\ Shape
  BY DEF IInv
<1>2. UNCHANGED frameVars
  BY DEF frameVars, Start, StopRequest, StopDisconnect, WorkerExit, CheckAlive, SendPart,
         EndOfStream, ServerUp, bufferVars, clientVars, netVars, serverVars
<1>3. TypeOK'
  <2> USE <1>1
      DEF TypeOK, Start, StopRequest, StopDisconnect, WorkerExit, CheckAlive, SendPart,
          EndOfStream, ServerUp, bufferVars, clientVars, netVars, serverVars
  <2>1. worker' \in {"none", "check", "pop", "send", "done"} /\ peer' \in {"none", "open", "gone"}
    OBVIOUS
  <2>2. running' \in BOOLEAN /\ sock' \in BOOLEAN /\ server' \in BOOLEAN
    OBVIOUS
  <2>3. outages' \in Nat /\ partial' \in 0..pushed
    OBVIOUS
  <2> QED BY <1>2, <2>1, <2>2, <2>3 DEF frameVars
<1>4. Shape'
  BY <1>1, <1>2
  DEF Shape, frameVars, Start, StopRequest, StopDisconnect, WorkerExit, CheckAlive, SendPart,
      EndOfStream, ServerUp, bufferVars, clientVars, netVars, serverVars
<1> QED BY <1>2, <1>3, <1>4, QuietStep DEF IInv

LEMMA ReconnectIInv ==
    ASSUME IInv, Reconnect
    PROVE  IInv'
<1>1. TypeOK /\ Shape
  BY DEF IInv
<1>2. wire = <<>>
  BY <1>1 DEF Shape, Reconnect
<1>3. UNCHANGED frameVars
  BY <1>2 DEF frameVars, Reconnect, bufferVars, serverVars
<1>4. TypeOK'
  BY <1>1, <1>3 DEF TypeOK, frameVars, Reconnect, bufferVars, serverVars
<1>5. Shape'
  BY <1>1, <1>2 DEF Shape, Reconnect, bufferVars, serverVars
<1> QED BY <1>3, <1>4, <1>5, QuietStep DEF IInv

LEMMA PopIInv ==
    ASSUME IInv, Pop
    PROVE  IInv'
<1>1. TypeOK /\ Shape /\ Accounting /\ PipelineOrder
  BY DEF IInv
<1>2. /\ worker = "pop" /\ payload = 0
      /\ UNCHANGED <<dropped_count, pushed, running, sock, peer, wire, partial,
                     server, outages, delivered, lost>>
  BY <1>1 DEF Pop, Shape, netVars, serverVars
<1>3. CASE queue = <<>>
  <2>1. UNCHANGED frameVars /\ worker' = "check"
    BY <1>2, <1>3 DEF Pop, frameVars
  <2>2. TypeOK' /\ Shape'
    BY <1>1, <1>2, <2>1 DEF TypeOK, Shape, frameVars
  <2> QED BY <2>1, <2>2, QuietStep DEF IInv
<1>4. CASE queue # <<>>
  <2>1. payload' = Head(queue) /\ queue' = Tail(queue) /\ worker' = "send"
    BY <1>4 DEF Pop
  <2>2. /\ Head(queue) \in 1..pushed /\ Tail(queue) \in Seq(1..pushed)
        /\ Len(Tail(queue)) = Len(queue) - 1
    BY <1>1, <1>4, TailFacts DEF TypeOK
  <2>3. Hand = <<>> /\ Hand' = <<Head(queue)>> /\ InHand = 0 /\ InHand' = 1
    BY <1>1, <1>2, <2>1, <2>2 DEF Hand, InHand, TypeOK
  <2>4. TypeOK'
    BY <1>1, <1>2, <2>1, <2>2 DEF TypeOK
  <2>5. Shape'
    BY <1>1, <1>2, <2>1, <2>2, FramesAreNat DEF Shape
  <2>6. Accounting'
    BY <1>1, <1>2, <2>1, <2>2, <2>3, FramesAreNat DEF Accounting
  <2>7. PipelineOrder'
    <3>1. /\ Increasing(Tail(queue)) /\ Below(delivered, Tail(queue)) /\ Below(wire, Tail(queue))
          /\ Below(delivered, <<Head(queue)>>) /\ Below(wire, <<Head(queue)>>)
          /\ Below(<<Head(queue)>>, Tail(queue))
      BY <1>1, <1>4, FramesAreNat, OrderOfTail DEF PipelineOrder
    <3> QED BY <1>1, <1>2, <2>1, <2>3, <3>1 DEF PipelineOrder
  <2> QED BY <2>4, <2>5, <2>6, <2>7 DEF IInv
<1> QED BY <1>3, <1>4

LEMMA SendRestIInv ==
    ASSUME IInv, SendRest
    PROVE  IInv'
<1>1. TypeOK /\ Shape /\ Accounting /\ PipelineOrder
  BY DEF IInv
<1>2. /\ worker = "send" /\ peer = "open" /\ Len(wire) < KernelCap
      /\ wire' = Append(wire, payload) /\ partial' = 0 /\ payload' = 0 /\ worker' = "check"
      /\ UNCHANGED <<queue, dropped_count, pushed, running, sock, peer,
                     server, outages, delivered, lost>>
  BY DEF SendRest, bufferVars, serverVars
<1>3. payload \in 1..pushed /\ payload # 0
  BY <1>1, <1>2 DEF TypeOK, Shape
<1>4. wire' \in Seq(1..pushed) /\ Len(wire') = Len(wire) + 1
  BY <1>1, <1>2, <1>3, AppendFacts DEF TypeOK
<1>5. Hand = <<payload>> /\ Hand' = <<>> /\ InHand = 1 /\ InHand' = 0
  BY <1>2, <1>3 DEF Hand, InHand
<1>6. TypeOK'
  BY <1>1, <1>2, <1>4, FramesAreNat, KernelCapAssumption DEF TypeOK
<1>7. Shape'
  BY <1>1, <1>2 DEF Shape
<1>8. Accounting'
  BY <1>1, <1>2, <1>4, <1>5, FramesAreNat DEF Accounting
<1>9. PipelineOrder'
  <2>1. Below(wire, <<payload>>) /\ Below(delivered, <<payload>>) /\ Below(<<payload>>, queue)
    BY <1>1, <1>5 DEF PipelineOrder
  <2>2. Increasing(wire') /\ Below(delivered, wire') /\ Below(wire', queue)
    BY <1>1, <1>2, <1>3, <2>1, FramesAreNat, OrderOfAppend DEF PipelineOrder
  <2>3. Below(delivered, <<>>) /\ Below(wire', <<>>) /\ Below(<<>>, queue)
    BY <1>1, <1>4, SeqOfFrames, FramesAreNat, OrderOfEmpty
  <2> QED BY <1>1, <1>2, <1>5, <2>2, <2>3 DEF PipelineOrder
<1> QED BY <1>6, <1>7, <1>8, <1>9 DEF IInv

LEMMA SendAbandonIInv ==
    ASSUME IInv, SendAbandon
    PROVE  IInv'
<1>1. TypeOK /\ Shape /\ Accounting /\ PipelineOrder
  BY DEF IInv
<1>2. /\ worker = "send" /\ payload' = 0 /\ worker' = "check" /\ lost' = lost + 1
      /\ UNCHANGED <<queue, dropped_count, pushed, running, sock, peer, wire, partial,
                     server, outages, delivered>>
  BY DEF SendAbandon, bufferVars, netVars, serverVars
<1>3. InHand = 1 /\ InHand' = 0 /\ Hand' = <<>>
  BY <1>1, <1>2 DEF Shape, InHand, Hand
<1>4. TypeOK'
  BY <1>1, <1>2 DEF TypeOK
<1>5. Shape'
  BY <1>1, <1>2 DEF Shape
<1>6. Accounting'
  BY <1>1, <1>2, <1>3, FramesAreNat DEF Accounting
<1>7. PipelineOrder'
  <2>1. Below(delivered, <<>>) /\ Below(wire, <<>>) /\ Below(<<>>, queue)
    BY <1>1, FramesAreNat, OrderOfEmpty
  <2> QED BY <1>1, <1>2, <1>3, <2>1 DEF PipelineOrder
<1> QED BY <1>4, <1>5, <1>6, <1>7 DEF IInv

LEMMA SendFailIInv ==
    ASSUME IInv, SendFail
    PROVE  IInv'
<1>1. TypeOK /\ Shape /\ Accounting /\ PipelineOrder
  BY DEF IInv
<1>2. /\ worker = "send" /\ peer = "gone" /\ sock' = FALSE /\ peer' = "none" /\ partial' = 0
      /\ queue' = (IF Full THEN queue ELSE <<payload>> \o queue)
      /\ dropped_count' = (IF Full THEN dropped_count + 1 ELSE dropped_count)
      /\ payload' = 0 /\ worker' = "check"
      /\ UNCHANGED <<pushed, running, wire, server, outages, delivered, lost>>
  BY DEF SendFail, Unpop, serverVars
<1>3. payload \in 1..pushed /\ payload # 0
  BY <1>1, <1>2 DEF TypeOK, Shape
<1>4. Hand = <<payload>> /\ Hand' = <<>> /\ InHand = 1 /\ InHand' = 0
  BY <1>2, <1>3 DEF Hand, InHand
<1>5. /\ queue' \in Seq(1..pushed) /\ Len(queue') <= Capacity /\ Len(queue') \in Nat
      /\ Len(queue') + dropped_count' = Len(queue) + dropped_count + 1
  <2>1. CASE Full
    BY <1>1, <1>2, <2>1, FramesAreNat DEF TypeOK
  <2>2. CASE ~Full
    <3>1. queue' \in Seq(1..pushed) /\ Len(queue') = Len(queue) + 1
      BY <1>1, <1>2, <1>3, <2>2, ConsFacts DEF TypeOK
    <3>2. Len(queue) < Capacity
      BY <1>1, <2>2, FramesAreNat, CapacityAssumption DEF TypeOK, Full
    <3>3. dropped_count' = dropped_count /\ dropped_count \in Nat /\ Len(queue) \in Nat
      BY <1>1, <1>2, <2>2, FramesAreNat
    <3> QED BY <3>1, <3>2, <3>3, CapacityAssumption
  <2> QED BY <2>1, <2>2
<1>6. TypeOK'
  <2>1. dropped_count' \in Nat
    BY <1>1, <1>2 DEF TypeOK
  <2>2. running' \in BOOLEAN /\ sock' \in BOOLEAN /\ server' \in BOOLEAN
    BY <1>1, <1>2 DEF TypeOK
  <2> HIDE DEF Full
  <2> QED BY <1>1, <1>2, <1>5, <2>1, <2>2 DEF TypeOK
<1>7. Shape'
  BY <1>1, <1>2 DEF Shape
<1>8. Accounting'
  <2>1. dropped_count' \in Nat
    BY <1>6 DEF TypeOK
  <2>2. /\ pushed = Len(delivered) + Len(wire) + 1 + Len(queue) + dropped_count + lost
        /\ Len(delivered) \in Nat /\ Len(wire) \in Nat /\ Len(queue) \in Nat
        /\ dropped_count \in Nat /\ lost \in Nat
    BY <1>1, <1>4, FramesAreNat DEF Accounting
  <2>3. pushed = Len(delivered) + Len(wire) + 0 + Len(queue') + dropped_count' + lost
    <3>1. Len(queue') \in Nat /\ Len(queue') + dropped_count' = Len(queue) + dropped_count + 1
      BY <1>5
    <3> QED BY <2>1, <2>2, <3>1
  <2> QED BY <1>2, <1>4, <2>3 DEF Accounting
<1>9. PipelineOrder'
  <2>1. Below(wire, <<payload>>) /\ Below(delivered, <<payload>>) /\ Below(<<payload>>, queue)
    BY <1>1, <1>4 DEF PipelineOrder
  <2>2. Increasing(queue') /\ Below(delivered, queue') /\ Below(wire, queue')
    BY <1>1, <1>2, <1>3, <2>1, FramesAreNat, OrderOfCons DEF PipelineOrder
  <2>3. Below(delivered, <<>>) /\ Below(wire, <<>>) /\ Below(<<>>, queue')
    BY <1>1, <1>5, SeqOfFrames, FramesAreNat, OrderOfEmpty
  <2> QED BY <1>1, <1>2, <1>4, <2>2, <2>3 DEF PipelineOrder
<1> QED BY <1>6, <1>7, <1>8, <1>9 DEF IInv

LEMMA DispatchIInv ==
    ASSUME IInv, Dispatch
    PROVE  IInv'
<1>1. TypeOK /\ Shape /\ Accounting /\ PipelineOrder
  BY DEF IInv
<1>2. /\ wire # <<>> /\ delivered' = Append(delivered, Head(wire)) /\ wire' = Tail(wire)
      /\ peer = "open"
      /\ UNCHANGED <<queue, dropped_count, pushed, running, worker, payload, sock, peer,
                     partial, server, outages, lost>>
  BY DEF Dispatch, bufferVars, clientVars
<1>3. /\ Head(wire) \in 1..pushed /\ Head(wire) \in Nat
      /\ wire' \in Seq(1..pushed) /\ Len(wire') = Len(wire) - 1 /\ wire' \in Seq(Nat)
  BY <1>1, <1>2, TailFacts, FramesAreNat DEF TypeOK
<1>4. delivered' \in Seq(1..pushed) /\ Len(delivered') = Len(delivered) + 1
  BY <1>1, <1>2, <1>3, AppendFacts DEF TypeOK
<1>5. Hand' = Hand /\ InHand' = InHand
  BY <1>2 DEF Hand, InHand
<1>6. TypeOK'
  BY <1>1, <1>2, <1>3, <1>4, FramesAreNat, KernelCapAssumption DEF TypeOK
<1>7. Shape'
  BY <1>1, <1>2 DEF Shape
<1>8. Accounting'
  BY <1>1, <1>2, <1>3, <1>4, <1>5, FramesAreNat DEF Accounting
<1>9. PipelineOrder'
  <2> DEFINE h == Head(wire)
  <2>1. /\ Increasing(wire') /\ Below(<<h>>, wire') /\ Below(delivered, <<h>>)
        /\ Below(delivered, wire')
        /\ Below(<<h>>, Hand) /\ Below(<<h>>, queue)
        /\ Below(wire', Hand) /\ Below(wire', queue)
    BY <1>1, <1>2, FramesAreNat, OrderOfTail DEF PipelineOrder
  <2>2. /\ Increasing(delivered') /\ Below(delivered', wire') /\ Below(delivered', Hand)
        /\ Below(delivered', queue)
    BY <1>1, <1>2, <1>3, <2>1, FramesAreNat, OrderOfAppend DEF PipelineOrder
  <2> QED BY <1>1, <1>2, <1>5, <2>1, <2>2 DEF PipelineOrder
<1> QED BY <1>6, <1>7, <1>8, <1>9 DEF IInv

(* The two ways in which the server drops the connection. *)
LEMMA HangUpIInv ==
    ASSUME IInv, Reject \/ ServerDown
    PROVE  IInv'
<1>1. TypeOK /\ Shape /\ Accounting /\ PipelineOrder
  BY DEF IInv
<1>2. /\ peer' = HungUp /\ lost' = lost + Len(wire) /\ wire' = <<>>
      /\ UNCHANGED <<queue, dropped_count, pushed, running, worker, payload, sock, partial,
                     delivered>>
  BY DEF Reject, ServerDown, bufferVars, clientVars, serverVars
<1>3. server' \in BOOLEAN /\ outages' \in Nat
  <2>1. CASE Reject
    BY <1>1, <2>1 DEF TypeOK, Reject, serverVars
  <2>2. CASE ServerDown
    <3>1. server' = FALSE /\ outages' = outages + 1
      BY <2>2 DEF ServerDown
    <3>2. server' \in BOOLEAN
      BY <3>1
    <3>3. outages' \in Nat
      BY <1>1, <3>1 DEF TypeOK
    <3> QED BY <3>2, <3>3
  <2> QED BY <2>1, <2>2
<1>4. Hand' = Hand /\ InHand' = InHand /\ Len(wire') = 0 /\ wire' \in Seq(1..pushed)
  BY <1>2 DEF Hand, InHand
<1>5. peer' \in {"none", "gone"}
  BY <1>2 DEF HungUp
<1>6. TypeOK'
  BY <1>1, <1>2, <1>3, <1>4, <1>5, FramesAreNat, KernelCapAssumption DEF TypeOK
<1>7. Shape'
  BY <1>1, <1>2, <1>5 DEF Shape
<1>8. Accounting'
  BY <1>1, <1>2, <1>4, FramesAreNat DEF Accounting
<1>9. PipelineOrder'
  <2>1. /\ Increasing(<<>>) /\ Below(delivered, <<>>) /\ Below(<<>>, Hand) /\ Below(<<>>, queue)
    BY <1>1, FramesAreNat, OrderOfEmpty
  <2> QED BY <1>1, <1>2, <1>4, <2>1 DEF PipelineOrder
<1> QED BY <1>6, <1>7, <1>8, <1>9 DEF IInv

LEMMA NextIInv == IInv /\ [Next]_vars => IInv'
<1> SUFFICES ASSUME IInv, [Next]_vars PROVE IInv'
  OBVIOUS
<1>1. CASE Next
  BY <1>1, EmitIInv, ControlIInv, ReconnectIInv, PopIInv, SendRestIInv, SendAbandonIInv,
     SendFailIInv, DispatchIInv, HangUpIInv DEF Next
<1>2. CASE UNCHANGED vars
  <2>1. UNCHANGED frameVars /\ TypeOK' /\ Shape'
    BY <1>2 DEF IInv, TypeOK, Shape, vars, frameVars, bufferVars, clientVars, netVars, serverVars
  <2> QED BY <2>1, QuietStep DEF IInv
<1> QED BY <1>1, <1>2

(* The inductive invariant holds in every behaviour. *)
THEOREM Invariance == Spec => []IInv
  BY InitIInv, NextIInv, PTL DEF Spec

(* The buffer never exceeds its capacity and every variable keeps its type, for every     *)
(* capacity: ring_buffer.py's push and unpop under the worker's and the emitters'         *)
(* interleavings.                                                                         *)
THEOREM TypeCorrect == Spec => []TypeOK
<1>1. IInv => TypeOK
  BY DEF IInv
<1> QED BY Invariance, <1>1, PTL

(* No frame is ever created, duplicated or forgotten by the buffer, the worker or a       *)
(* reconnection: each pushed frame is delivered, under way, counted as dropped, or lost.  *)
THEOREM FramesAccounted == Spec => []Accounting
<1>1. IInv => Accounting
  BY DEF IInv
<1> QED BY Invariance, <1>1, PTL

(* The path from emit_envelope to on_turn_callback is a FIFO: nothing overtakes, nothing  *)
(* is delivered twice.                                                                    *)
THEOREM PathIsFIFO == Spec => []PipelineOrder
<1>1. IInv => PipelineOrder
  BY DEF IInv
<1> QED BY Invariance, <1>1, PTL

(***************************************************************************)
(* The cost of outages.  The invariant CostInv charges the frame that a    *)
(* stopped client gives up only once the worker has left _send_frame: a    *)
(* worker that still sends after the stop request has not lost it yet.     *)
(***************************************************************************)
GaveUp == IF worker \in {"check", "done"} /\ ~running THEN 1 ELSE 0

CostInv == IInv /\ lost <= KernelCap * outages + GaveUp

LEMMA CostStep ==
    ASSUME Oversize = {}, CostInv, [Next]_vars
    PROVE  CostInv'
<1>1. /\ IInv /\ TypeOK /\ Shape /\ IInv' /\ lost <= KernelCap * outages + GaveUp
  BY NextIInv DEF CostInv, IInv
<1>2. /\ lost \in Nat /\ outages \in Nat /\ KernelCap * outages \in Nat
      /\ GaveUp \in Nat /\ GaveUp \in 0..1 /\ GaveUp' \in Nat /\ GaveUp' \in 0..1
  BY <1>1, KernelCapAssumption DEF TypeOK, GaveUp
<1>3. CASE UNCHANGED <<lost, outages>> /\ (GaveUp' = 1 \/ GaveUp = 0)
  <2>1. lost' = lost /\ KernelCap * outages' = KernelCap * outages
    BY <1>3
  <2>2. GaveUp <= GaveUp'
    BY <1>2, <1>3
  <2>3. \A cost, budget, g, h \in Nat : cost <= budget + g /\ g <= h => cost <= budget + h
    OBVIOUS
  <2>4. lost <= KernelCap * outages + GaveUp'
    BY <1>1, <1>2, <2>2, <2>3, Zenon
  <2>5. lost' <= KernelCap * outages' + GaveUp'
    BY <2>1, <2>4
  <2> QED BY <1>1, <2>5 DEF CostInv
<1>4. CASE SendAbandon
  <2>1. lost' = lost + 1 /\ outages' = outages /\ GaveUp = 0 /\ GaveUp' = 1
    BY <1>4 DEF SendAbandon, serverVars, GaveUp
  <2> QED BY <1>1, <1>2, <2>1 DEF CostInv
<1>5. CASE ServerDown
  <2>1. lost' = lost + Len(wire) /\ outages' = outages + 1 /\ GaveUp' = GaveUp
    BY <1>5 DEF ServerDown, clientVars, GaveUp
  <2>2. Len(wire) \in Nat /\ Len(wire) <= KernelCap
    BY <1>1, FramesAreNat DEF TypeOK
  <2>3. KernelCap * (outages + 1) = KernelCap * outages + KernelCap
    BY <1>2, KernelCapAssumption
  <2> QED BY <1>1, <1>2, <2>1, <2>2, <2>3, KernelCapAssumption DEF CostInv
<1>6. CASE Reject
  BY <1>6 DEF Reject
<1>7. CASE Emit \/ Start \/ StopRequest \/ StopDisconnect
  <2>1. UNCHANGED <<lost, outages>>
    BY <1>7 DEF Emit, Start, StopRequest, StopDisconnect, serverVars
  <2>2. GaveUp' = 1 \/ GaveUp = 0
    BY <1>7, <1>1 DEF Emit, Start, StopRequest, StopDisconnect, clientVars, GaveUp, Shape, TypeOK
  <2> QED BY <1>3, <2>1, <2>2
<1>8. CASE WorkerExit \/ CheckAlive \/ Reconnect \/ Pop
  <2>1. UNCHANGED <<lost, outages>>
    BY <1>8 DEF WorkerExit, CheckAlive, Reconnect, Pop, serverVars
  <2>2. GaveUp' = 1 \/ GaveUp = 0
    BY <1>8 DEF WorkerExit, CheckAlive, Reconnect, Pop, GaveUp
  <2> QED BY <1>3, <2>1, <2>2
<1>9. CASE SendPart \/ SendRest \/ SendFail
  <2>1. UNCHANGED <<lost, outages>>
    BY <1>9 DEF SendPart, SendRest, SendFail, serverVars
  <2>2. GaveUp' = 1 \/ GaveUp = 0
    BY <1>9 DEF SendPart, SendRest, SendFail, clientVars, GaveUp
  <2> QED BY <1>3, <2>1, <2>2
<1>10. CASE Dispatch \/ EndOfStream \/ ServerUp \/ UNCHANGED vars
  <2>1. UNCHANGED <<lost, outages, worker, running>>
    BY <1>10 DEF Dispatch, EndOfStream, ServerUp, vars, clientVars, serverVars
  <2>2. GaveUp' = GaveUp
    BY <2>1 DEF GaveUp
  <2> QED BY <1>1, <1>2, <2>1, <2>2 DEF CostInv
<1> QED BY <1>4, <1>5, <1>6, <1>7, <1>8, <1>9, <1>10 DEF Next

(* When every frame fits the decoder, an outage of the core costs at most the frames in  *)
(* the kernel's buffer, and stopping the client one more; retries and reconnections cost  *)
(* nothing.                                                                               *)
THEOREM OutageCostBounded ==
    ASSUME Oversize = {}
    PROVE  Spec => []OutageCost
<1>1. Init => CostInv
  <2> SUFFICES ASSUME Init PROVE lost <= KernelCap * outages + GaveUp
    BY InitIInv DEF CostInv
  <2>1. lost = 0 /\ outages = 0 /\ GaveUp \in 0..1
    BY DEF Init, GaveUp
  <2> QED BY <2>1, KernelCapAssumption
<1>2. CostInv /\ [Next]_vars => CostInv'
  BY CostStep
<1>3. CostInv => OutageCost
  <2> SUFFICES ASSUME CostInv PROVE OutageCost
    OBVIOUS
  <2>1. lost \in Nat /\ outages \in Nat /\ KernelCap * outages \in Nat
        /\ lost <= KernelCap * outages + GaveUp
    BY KernelCapAssumption DEF CostInv, IInv, TypeOK
  <2>2. GaveUp = 1 => worker # "none" /\ ~running
    BY DEF GaveUp
  <2> QED BY <2>1, <2>2 DEF OutageCost, GaveUp
<1> QED BY <1>1, <1>2, <1>3, PTL DEF Spec
-----------------------------------------------------------------------------
(* Refinement: the detailed path implements the fail-open FIFO channel. *)

LEMMA UnderwayIsFrames ==
    ASSUME TypeOK
    PROVE  Underway \subseteq 1..pushed
  BY FramesAreNat DEF Underway, ElementsOf, TypeOK

LEMMA InitChannel == Init => Channel!Init
  BY DEF Init, Channel!Init, Underway, ElementsOf, Hand

LEMMA DispatchIsDeliver ==
    ASSUME IInv, Dispatch
    PROVE  Channel!Deliver
<1> DEFINE f == Head(wire)
<1>1. TypeOK /\ PipelineOrder
  BY DEF IInv
<1>2. /\ wire # <<>> /\ delivered' = Append(delivered, f) /\ wire' = Tail(wire)
      /\ pushed' = pushed /\ queue' = queue /\ Hand' = Hand
  BY DEF Dispatch, bufferVars, clientVars, Hand
<1>3. /\ f = wire[1] /\ Len(wire) \in Nat \ {0} /\ f \in Nat
      /\ Len(wire') = Len(wire) - 1
      /\ \A i \in 1..(Len(wire) - 1) : wire'[i] = wire[i + 1]
  BY <1>1, <1>2, FramesAreNat, TailFacts
<1>4. /\ \A i \in 1..Len(wire) : i = 1 \/ f < wire[i]
      /\ \A i \in 1..Len(Hand) : f < Hand[i]
      /\ \A i \in 1..Len(queue) : f < queue[i]
  BY <1>1, <1>3 DEF PipelineOrder, Increasing, Below
<1> HIDE DEF f
<1>5. f \in Underway
  BY <1>3 DEF Underway, ElementsOf
<1>6. \A g \in Underway : g = f \/ f < g
  BY <1>3, <1>4 DEF Underway, ElementsOf
<1>7. ElementsOf(wire') = ElementsOf(wire) \ {f}
  <2>1. ASSUME NEW i \in 1..Len(wire') PROVE wire'[i] \in ElementsOf(wire) \ {f}
    BY <1>3, <1>4, <2>1 DEF ElementsOf
  <2>2. ASSUME NEW i \in 1..Len(wire), wire[i] # f PROVE wire[i] \in ElementsOf(wire')
    <3>1. i # 1 /\ i - 1 \in 1..Len(wire') /\ wire'[i - 1] = wire[i]
      BY <1>3, <2>2
    <3> QED BY <3>1 DEF ElementsOf
  <2> QED BY <2>1, <2>2 DEF ElementsOf
<1>8. f \notin ElementsOf(Hand) /\ f \notin ElementsOf(queue)
  BY <1>3, <1>4 DEF ElementsOf
<1>9. Underway' = Underway \ {f}
  BY <1>2, <1>7, <1>8 DEF Underway
<1>10. \A g \in Underway : f <= g
  <2> SUFFICES ASSUME NEW g \in Underway PROVE f <= g
    OBVIOUS
  <2>1. g \in Nat /\ f \in Nat
    BY <1>1, <1>3, UnderwayIsFrames, FramesAreNat
  <2> QED BY <1>6, <2>1
<1> QED BY <1>2, <1>5, <1>9, <1>10 DEF Channel!Deliver, f

(* Every other step leaves what was delivered alone and adds nothing but a pushed frame. *)
LEMMA QuietIsLose ==
    ASSUME UNCHANGED <<pushed, delivered>>,
           ElementsOf(wire') \subseteq Underway,
           ElementsOf(Hand') \subseteq Underway,
           ElementsOf(queue') \subseteq Underway
    PROVE  Channel!Lose
  BY DEF Channel!Lose, Underway

LEMMA ElementsOfTail ==
    ASSUME NEW s \in Seq(Nat), s # <<>>
    PROVE  ElementsOf(Tail(s)) \subseteq ElementsOf(s) /\ Head(s) \in ElementsOf(s)
<1>1. \A i \in 1..Len(Tail(s)) : i + 1 \in 1..Len(s) /\ Tail(s)[i] = s[i + 1]
  BY TailFacts
<1>2. 1 \in 1..Len(s) /\ Head(s) = s[1]
  BY TailFacts
<1> QED BY <1>1, <1>2 DEF ElementsOf

LEMMA ElementsOfAppend ==
    ASSUME NEW s \in Seq(Nat), NEW x \in Nat
    PROVE  ElementsOf(Append(s, x)) = ElementsOf(s) \cup {x}
<1> DEFINE r == Append(s, x)
<1>1. /\ Len(s) \in Nat /\ Len(r) = Len(s) + 1 /\ r[Len(s) + 1] = x
      /\ \A i \in 1..Len(s) : r[i] = s[i]
  BY AppendFacts
<1> HIDE DEF r
<1>2. \A i \in 1..Len(r) : i = Len(s) + 1 \/ i \in 1..Len(s)
  BY <1>1
<1>3. Len(s) + 1 \in 1..Len(r) /\ 1..Len(s) \subseteq 1..Len(r)
  BY <1>1
<1>4. ElementsOf(r) \subseteq ElementsOf(s) \cup {x}
  BY <1>1, <1>2 DEF ElementsOf
<1>5. ElementsOf(s) \cup {x} \subseteq ElementsOf(r)
  BY <1>1, <1>3 DEF ElementsOf
<1> QED BY <1>4, <1>5 DEF r

LEMMA ElementsOfCons ==
    ASSUME NEW s \in Seq(Nat), NEW x \in Nat
    PROVE  ElementsOf(<<x>> \o s) \subseteq ElementsOf(s) \cup {x}
<1>1. \A i \in 1..Len(<<x>> \o s) :
          i = 1 \/ (i - 1 \in 1..Len(s) /\ (<<x>> \o s)[i] = s[i - 1])
  BY ConsFacts
<1>2. (<<x>> \o s)[1] = x
  BY ConsFacts
<1> QED BY <1>1, <1>2 DEF ElementsOf

LEMMA EmitIsEmit ==
    ASSUME IInv, Emit
    PROVE  Channel!Emit
<1>1. TypeOK
  BY DEF IInv
<1>2. /\ pushed' = pushed + 1 /\ UNCHANGED <<delivered, wire, payload>>
      /\ queue' = Append(IF Full THEN Tail(queue) ELSE queue, pushed + 1)
  BY DEF Emit, Push, clientVars, netVars, serverVars
<1>3. ElementsOf(queue') \subseteq ElementsOf(queue) \cup {pushed + 1}
  <2>1. CASE Full
    <3>1. queue # <<>>
      BY <1>1, <2>1, FramesAreNat, CapacityAssumption DEF Full
    <3>2. Tail(queue) \in Seq(Nat)
      BY <1>1, <3>1, FramesAreNat, TailFacts
    <3>3. queue' = Append(Tail(queue), pushed + 1) /\ pushed + 1 \in Nat /\ queue \in Seq(Nat)
      BY <1>1, <1>2, <2>1, FramesAreNat DEF TypeOK
    <3>4. ElementsOf(queue') = ElementsOf(Tail(queue)) \cup {pushed + 1}
      BY <3>2, <3>3, ElementsOfAppend
    <3>5. ElementsOf(Tail(queue)) \subseteq ElementsOf(queue)
      BY <3>1, <3>3, ElementsOfTail
    <3> QED BY <3>4, <3>5
  <2>2. CASE ~Full
    BY <1>1, <1>2, <2>2, FramesAreNat, ElementsOfAppend
  <2> QED BY <2>1, <2>2
<1>4. Hand' = Hand
  BY <1>2 DEF Hand
<1> QED BY <1>2, <1>3, <1>4 DEF Channel!Emit, Underway

LEMMA StepIsChannelStep ==
    ASSUME IInv, [Next]_vars
    PROVE  [Channel!Next]_(Channel!vars)
<1> USE DEF IInv
<1>1. CASE Emit
  BY <1>1, EmitIsEmit DEF Channel!Next
<1>2. CASE Dispatch
  BY <1>2, DispatchIsDeliver DEF Channel!Next
<1>3. CASE \/ Start \/ StopRequest \/ StopDisconnect \/ WorkerExit \/ CheckAlive
           \/ SendPart \/ EndOfStream \/ ServerUp \/ UNCHANGED vars
  <2>1. UNCHANGED <<pushed, delivered, wire, payload, queue>>
    BY <1>3 DEF Start, StopRequest, StopDisconnect, WorkerExit, CheckAlive, SendPart,
         EndOfStream, ServerUp, vars, bufferVars, clientVars, netVars, serverVars
  <2>2. UNCHANGED Channel!vars
    BY <2>1 DEF Channel!vars, Underway, Hand
  <2> QED BY <2>2
<1>4. CASE Reconnect \/ SendAbandon \/ Reject \/ ServerDown
  <2>1. /\ UNCHANGED <<pushed, delivered, queue>>
        /\ wire' = wire \/ wire' = <<>>
        /\ payload' = payload \/ payload' = 0
    BY <1>4 DEF Reconnect, SendAbandon, Reject, ServerDown, bufferVars, clientVars, netVars,
         serverVars
  <2>2. ElementsOf(wire') \subseteq Underway /\ ElementsOf(queue') \subseteq Underway
    BY <2>1 DEF Underway, ElementsOf
  <2>3. ElementsOf(Hand') \subseteq Underway
    BY <2>1 DEF Underway, ElementsOf, Hand
  <2> QED BY <2>1, <2>2, <2>3, QuietIsLose DEF Channel!Next
<1>5. CASE Pop
  <2>1. /\ UNCHANGED <<pushed, delivered, wire>> /\ TypeOK
    BY <1>5 DEF Pop, netVars, serverVars
  <2>2. CASE queue = <<>>
    BY <1>5, <2>1, <2>2, QuietIsLose DEF Pop, Underway, Hand, Channel!Next
  <2>3. CASE queue # <<>>
    <3>1. queue' = Tail(queue) /\ payload' = Head(queue)
      BY <1>5, <2>3 DEF Pop
    <3>2. ElementsOf(queue') \subseteq ElementsOf(queue) /\ payload' \in ElementsOf(queue)
      BY <2>1, <2>3, <3>1, FramesAreNat, ElementsOfTail
    <3>3. ElementsOf(Hand') \subseteq {payload'}
      BY DEF Hand, ElementsOf
    <3> QED BY <2>1, <3>2, <3>3, QuietIsLose DEF Underway, Channel!Next
  <2> QED BY <2>2, <2>3
<1>6. CASE SendRest
  <2>1. /\ UNCHANGED <<pushed, delivered, queue>> /\ TypeOK
        /\ wire' = Append(wire, payload) /\ payload' = 0 /\ payload # 0
    BY <1>6 DEF SendRest, Shape, bufferVars, serverVars
  <2>2. ElementsOf(Hand) = {payload} /\ ElementsOf(Hand') = {}
    BY <2>1 DEF Hand, ElementsOf
  <2>3. ElementsOf(wire') = ElementsOf(wire) \cup {payload}
    BY <2>1, FramesAreNat, ElementsOfAppend
  <2> QED BY <2>1, <2>2, <2>3, QuietIsLose DEF Underway, Channel!Next
<1>7. CASE SendFail
  <2>1. /\ UNCHANGED <<pushed, delivered, wire>> /\ TypeOK
        /\ queue' = (IF Full THEN queue ELSE <<payload>> \o queue)
        /\ payload' = 0 /\ payload # 0
    BY <1>7 DEF SendFail, Unpop, Shape, serverVars
  <2>2. ElementsOf(Hand) = {payload} /\ ElementsOf(Hand') = {}
    BY <2>1 DEF Hand, ElementsOf
  <2>3. ElementsOf(queue') \subseteq ElementsOf(queue) \cup {payload}
    BY <2>1, FramesAreNat, ElementsOfCons
  <2> QED BY <2>1, <2>2, <2>3, QuietIsLose DEF Underway, Channel!Next
<1> QED BY <1>1, <1>2, <1>3, <1>4, <1>5, <1>6, <1>7 DEF Next

(* The ring buffer, the worker, the socket and the server together implement the         *)
(* fail-open FIFO channel of FrameChannel.                                                *)
THEOREM Implementation == Spec => ImplementsChannel
<1>1. Init => Channel!Init
  BY InitChannel
<1>2. IInv /\ [Next]_vars => [Channel!Next]_(Channel!vars)
  BY StepIsChannelStep
<1> QED BY <1>1, <1>2, Invariance, PTL DEF Spec, ImplementsChannel, Channel!Spec
=============================================================================
