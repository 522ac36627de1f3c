--------------------------- MODULE DecodingProofs ---------------------------
(***************************************************************************)
(* Theorems about the frames of Decoding, for frames of any number and     *)
(* size, any bound on their size and any cuts of the stream.               *)
(*                                                                         *)
(* The decoder is a recursion over its buffer, the stream a concatenation  *)
(* of encoded frames.  Both are brought down to places: frame n lies at    *)
(* Bytes(frames, n - 1) in the stream, and the buffer is the stretch of    *)
(* the stream between the last frame put out and what has arrived.         *)
(***************************************************************************)
EXTENDS Decoding, SequenceLemmas

-----------------------------------------------------------------------------
(* The layout of a stream of frames. *)

Encoded(frames) == [i \in DOMAIN frames |-> EncodeFrame(frames[i])]
Stream(frames) == FlattenSeq(Encoded(frames))

\* The number of bytes of the first n frames.
Bytes(frames, n) == Before(Encoded(frames), n)

Payloads == Seq(0..255)

LEMMA Division ==
    ASSUME NEW n \in Nat
    PROVE  n \div 256 \in Nat /\ n % 256 \in 0..255 /\ (n \div 256) * 256 + (n % 256) = n
BY SMT

LEMMA Monotone ==
    ASSUME NEW S, NEW T, S \subseteq T, NEW s \in Seq(S)
    PROVE  s \in Seq(T) /\ Len(s) \in Nat
OBVIOUS

LEMMA SameElements ==
    ASSUME NEW S, NEW a \in Seq(S), NEW b \in Seq(S), Len(a) = Len(b),
           \A i \in 1..Len(a) : a[i] = b[i]
    PROVE  a = b
OBVIOUS

LEMMA Concatenation ==
    ASSUME NEW S, NEW a \in Seq(S), NEW b \in Seq(S)
    PROVE  /\ a \o b \in Seq(S) /\ Len(a \o b) = Len(a) + Len(b)
           /\ \A i \in 1..(Len(a) + Len(b)) :
                    (a \o b)[i] = IF i <= Len(a) THEN a[i] ELSE b[i - Len(a)]
OBVIOUS

LEMMA AfterFour ==
    ASSUME NEW S, NEW a \in Seq(S), NEW b \in Seq(S), Len(a) = 4
    PROVE  /\ a \o b \in Seq(S) /\ Len(a \o b) = 4 + Len(b)
           /\ \A i \in 1..(4 + Len(b)) : (a \o b)[i] = IF i <= 4 THEN a[i] ELSE b[i - 4]
<1>1. /\ a \o b \in Seq(S) /\ Len(a \o b) = Len(a) + Len(b)
      /\ \A i \in 1..(Len(a) + Len(b)) :
                (a \o b)[i] = IF i <= Len(a) THEN a[i] ELSE b[i - Len(a)]
  BY Concatenation
<1> DEFINE c == a \o b
<1> HIDE DEF c
<1>2. /\ c \in Seq(S) /\ Len(c) = 4 + Len(b)
      /\ \A i \in 1..(4 + Len(b)) : c[i] = IF i <= 4 THEN a[i] ELSE b[i - 4]
  BY <1>1 DEF c
<1> QED BY <1>2 DEF c

LEMMA FrameEncoding ==
    ASSUME NEW p \in Payloads
    PROVE  /\ EncodeFrame(p) \in Seq(Nat) /\ Len(EncodeFrame(p)) = 4 + Len(p)
           /\ \A b \in Seq(Nat) : 4 <= Len(b) /\ (\A i \in 1..4 : b[i] = EncodeFrame(p)[i]) =>
                    PayloadLen(b) = Len(p)
           /\ \A i \in 1..Len(p) : EncodeFrame(p)[4 + i] = p[i]
<1> DEFINE n == Len(p)
           m == n \div 256
           l == m \div 256
           h == <<l \div 256, l % 256, m % 256, n % 256>>
<1>1. n \in Nat /\ p \in Seq(Nat)
  <2>1. p \in Seq(0..255) /\ 0..255 \subseteq Nat
    BY DEF Payloads
  <2> QED BY <2>1, Monotone
<1>2. m \in Nat /\ l \in Nat /\ h \in Seq(Nat) /\ Len(h) = 4
  <2>1. m \in Nat /\ n % 256 \in Nat
    BY <1>1, Division
  <2>2. l \in Nat /\ m % 256 \in Nat
    BY <2>1, Division
  <2>3. l \div 256 \in Nat /\ l % 256 \in Nat
    BY <2>2, Division
  <2> HIDE DEF l, m, n
  <2>4. \A a, b, c, d \in Nat : <<a, b, c, d>> \in Seq(Nat) /\ Len(<<a, b, c, d>>) = 4
    OBVIOUS
  <2> QED BY <2>1, <2>2, <2>3, <2>4
<1>3. EncodeFrame(p) = h \o p
  BY DEF EncodeFrame
<1>4. h[1] = l \div 256 /\ h[2] = l % 256 /\ h[3] = m % 256 /\ h[4] = n % 256
  OBVIOUS
<1> HIDE DEF h
<1>5. EncodeFrame(p) \in Seq(Nat) /\ Len(EncodeFrame(p)) = 4 + n
      /\ \A i \in 1..(4 + n) : EncodeFrame(p)[i] = IF i <= 4 THEN h[i] ELSE p[i - 4]
  <2>1. \A a, b \in Seq(Nat) : Len(a) = 4 =>
            /\ a \o b \in Seq(Nat) /\ Len(a \o b) = 4 + Len(b)
            /\ \A i \in 1..(4 + Len(b)) : (a \o b)[i] = IF i <= 4 THEN a[i] ELSE b[i - 4]
    BY AfterFour
  <2> DEFINE e == h \o p
  <2>2. e \in Seq(Nat) /\ Len(e) = 4 + Len(p)
        /\ \A i \in 1..(4 + Len(p)) : e[i] = IF i <= 4 THEN h[i] ELSE p[i - 4]
    BY <1>1, <1>2, <2>1
  <2> HIDE DEF m, l, e
  <2>3. EncodeFrame(p) = e
    BY <1>3 DEF e
  <2> QED BY <2>2, <2>3 DEF n
<1>6. \A i \in 1..4 : EncodeFrame(p)[i] = h[i]
  BY <1>1, <1>5
<1>7. \A i \in 1..n : EncodeFrame(p)[4 + i] = p[i]
  BY <1>1, <1>5
<1>8. ASSUME NEW b \in Seq(Nat), 4 <= Len(b), \A i \in 1..4 : b[i] = EncodeFrame(p)[i]
      PROVE  PayloadLen(b) = n
  <2>1. b[1] = h[1] /\ b[2] = h[2] /\ b[3] = h[3] /\ b[4] = h[4]
    BY <1>6, <1>8
  <2>2. (l \div 256) * 256 + (l % 256) = l /\ l * 256 + (m % 256) = m /\ m * 256 + (n % 256) = n
    BY <1>1, <1>2, Division
  <2>3. PayloadLen(b) = (((l \div 256) * 256 + (l % 256)) * 256 + (m % 256)) * 256 + (n % 256)
    BY <1>4, <2>1 DEF PayloadLen
  <2> QED BY <2>2, <2>3
<1> QED BY <1>5, <1>7, <1>8

\* A stream holds the frames of the sender one behind the other, each after its header.
LEMMA Layout ==
    ASSUME NEW frames \in Seq(Payloads)
    PROVE  /\ Stream(frames) \in Seq(Nat)
           /\ Bytes(frames, 0) = 0 /\ Bytes(frames, Len(frames)) = Len(Stream(frames))
           /\ \A n \in 0..Len(frames) :
                Bytes(frames, n) \in Nat /\ Bytes(frames, n) <= Len(Stream(frames))
           /\ \A n \in 1..Len(frames) :
                /\ frames[n] \in Payloads
                /\ Bytes(frames, n) = Bytes(frames, n - 1) + 4 + Len(frames[n])
                /\ \A i \in 1..(4 + Len(frames[n])) :
                    Stream(frames)[Bytes(frames, n - 1) + i] = EncodeFrame(frames[n])[i]
<1> DEFINE ss == Encoded(frames)
<1>0. \A p \in Payloads : /\ EncodeFrame(p) \in Seq(Nat) /\ Len(EncodeFrame(p)) = 4 + Len(p)
                          /\ Len(p) \in Nat
  BY FrameEncoding DEF Payloads
<1>1. /\ \A n \in 1..Len(frames) : frames[n] \in Payloads /\ ss[n] = EncodeFrame(frames[n])
      /\ Len(frames) \in Nat /\ DOMAIN frames = 1..Len(frames)
  BY DEF Encoded
<1>2. ss \in Seq(Seq(Nat)) /\ Len(ss) = Len(frames)
  BY <1>0, <1>1 DEF Encoded
<1> HIDE DEF ss
<1>3. /\ FlattenSeq(ss) \in Seq(Nat)
      /\ Before(ss, 0) = 0 /\ Before(ss, Len(ss)) = Len(FlattenSeq(ss))
      /\ \A n \in 0..Len(ss) : Before(ss, n) \in Nat /\ Before(ss, n) <= Len(FlattenSeq(ss))
      /\ \A n \in 1..Len(ss) :
            /\ Before(ss, n) = Before(ss, n - 1) + Len(ss[n])
            /\ \A i \in 1..Len(ss[n]) : FlattenSeq(ss)[Before(ss, n - 1) + i] = ss[n][i]
  BY <1>2, FlatteningPlaces
<1>4. \A n : Bytes(frames, n) = Before(ss, n)
  BY DEF Bytes, ss
<1>5. Stream(frames) = FlattenSeq(ss)
  BY DEF Stream, ss
<1>6. ASSUME NEW n \in 1..Len(frames)
      PROVE  /\ frames[n] \in Payloads
             /\ Before(ss, n) = Before(ss, n - 1) + 4 + Len(frames[n])
             /\ \A i \in 1..(4 + Len(frames[n])) :
                    FlattenSeq(ss)[Before(ss, n - 1) + i] = EncodeFrame(frames[n])[i]
  <2>1. /\ frames[n] \in Payloads /\ ss[n] = EncodeFrame(frames[n])
        /\ Len(ss[n]) = 4 + Len(frames[n]) /\ Len(frames[n]) \in Nat
    BY <1>0, <1>1
  <2>2. n - 1 \in 0..Len(ss) /\ n \in 1..Len(ss)
    BY <1>1, <1>2
  <2>3. /\ Before(ss, n) = Before(ss, n - 1) + Len(ss[n]) /\ Before(ss, n - 1) \in Nat
        /\ \A i \in 1..Len(ss[n]) : FlattenSeq(ss)[Before(ss, n - 1) + i] = ss[n][i]
    BY <1>3, <2>2
  <2>6. Before(ss, n) = Before(ss, n - 1) + 4 + Len(frames[n])
    <3>1. Before(ss, n) = Before(ss, n - 1) + (4 + Len(frames[n]))
      BY <2>1, <2>3
    <3>2. \A b, d \in Nat : b + (4 + d) = b + 4 + d
      OBVIOUS
    <3> QED BY <2>1, <2>3, <3>1, <3>2, Zenon
  <2> QED BY <2>1, <2>3, <2>6
<1> QED BY <1>2, <1>3, <1>4, <1>5, <1>6
-----------------------------------------------------------------------------
(* What a decoder has read. *)

Decoders == [buffer : Seq(Nat), frames : Seq(Seq(Nat)), raised : BOOLEAN]

\* The decoder has put out the first frames, and the bytes that have arrived since are in its
\* buffer.
Reads(d, frames, arrived) ==
    /\ d \in Decoders
    /\ Len(d.frames) <= Len(frames)
    /\ \A i \in 1..Len(d.frames) : d.frames[i] = frames[i]
    /\ arrived = Bytes(frames, Len(d.frames)) + Len(d.buffer)
    /\ arrived <= Len(Stream(frames))
    /\ \A i \in 1..Len(d.buffer) : d.buffer[i] = Stream(frames)[Bytes(frames, Len(d.frames)) + i]

LEMMA DecoderTypes ==
    ASSUME NEW d \in Decoders
    PROVE  /\ d.buffer \in Seq(Nat) /\ d.frames \in Seq(Seq(Nat)) /\ d.raised \in BOOLEAN
           /\ Len(d.buffer) \in Nat /\ Len(d.frames) \in Nat
BY DEF Decoders

\* The header at the start of the buffer is that of the next frame.
LEMMA HeaderIsNext ==
    ASSUME NEW frames \in Seq(Payloads), NEW arrived \in Nat, NEW d, Reads(d, frames, arrived),
           4 <= Len(d.buffer)
    PROVE  /\ Len(d.frames) + 1 \in 1..Len(frames)
           /\ PayloadLen(d.buffer) = Len(frames[Len(d.frames) + 1])
<1> DEFINE n == Len(d.frames)
<1>1. /\ d.buffer \in Seq(Nat) /\ Len(d.buffer) \in Nat /\ n \in Nat /\ Len(frames) \in Nat
      /\ n <= Len(frames)
  BY DecoderTypes DEF Reads
<1>2. /\ arrived = Bytes(frames, n) + Len(d.buffer) /\ arrived <= Len(Stream(frames))
      /\ \A i \in 1..Len(d.buffer) : d.buffer[i] = Stream(frames)[Bytes(frames, n) + i]
  BY DEF Reads
<1> HIDE DEF n
<1>3. n # Len(frames)
  <2>1. /\ Bytes(frames, Len(frames)) = Len(Stream(frames)) /\ Len(Stream(frames)) \in Nat
    <3>1. Stream(frames) \in Seq(Nat) /\ Bytes(frames, Len(frames)) = Len(Stream(frames))
      BY Layout
    <3> QED BY <3>1
  <2>2. ASSUME n = Len(frames) PROVE FALSE
    <3>1. arrived = Len(Stream(frames)) + Len(d.buffer)
      BY <1>2, <2>1, <2>2
    <3> QED BY <1>1, <1>2, <2>1, <3>1
  <2> QED BY <2>2
<1>4. n + 1 \in 1..Len(frames) /\ (n + 1) - 1 = n
  BY <1>1, <1>3
<1> DEFINE p == frames[n + 1]
<1>5. /\ p \in Payloads
      /\ \A i \in 1..(4 + Len(p)) : Stream(frames)[Bytes(frames, n) + i] = EncodeFrame(p)[i]
  BY <1>4, Layout
<1>6. Len(p) \in Nat
  BY <1>5 DEF Payloads
<1> HIDE DEF p
<1>7. \A i \in 1..4 : d.buffer[i] = EncodeFrame(p)[i]
  <2>1. \A i \in 1..4 : i \in 1..(4 + Len(p)) /\ i \in 1..Len(d.buffer)
    BY <1>1, <1>6
  <2> QED BY <1>2, <1>5, <2>1
<1>8. PayloadLen(d.buffer) = Len(p)
  BY <1>1, <1>5, <1>7, FrameEncoding
<1> QED BY <1>4, <1>8 DEF n, p

\* An extraction takes the next frame, if the buffer holds it.
LEMMA Extraction ==
    ASSUME NEW frames \in Seq(Payloads), NEW arrived \in Nat, NEW d, Reads(d, frames, arrived)
    PROVE  /\ Reads(Extracted(d), frames, arrived)
           /\ Extracted(d).raised = d.raised
           /\ ~HoldsFrame(d.buffer) => Extracted(d) = d
           /\ HoldsFrame(d.buffer) => Len(Extracted(d).buffer) + 4 <= Len(d.buffer)
<1>1. CASE ~HoldsFrame(d.buffer)
  BY <1>1 DEF Extracted
<1>2. CASE HoldsFrame(d.buffer)
  <2> DEFINE n == Len(d.frames)
             p == frames[n + 1]
             total == 4 + Len(p)
             e == Extracted(d)
             S == Stream(frames)
             b == d.buffer
  <2>1. /\ d \in Decoders /\ b \in Seq(Nat) /\ Len(b) \in Nat /\ n \in Nat
        /\ d.frames \in Seq(Seq(Nat)) /\ Len(frames) \in Nat
    BY DecoderTypes DEF Reads
  <2>2. 4 <= Len(b)
    BY <1>2 DEF HoldsFrame
  <2>3. n + 1 \in 1..Len(frames) /\ PayloadLen(b) = Len(p)
    BY <2>2, HeaderIsNext
  <2>4. (n + 1) - 1 = n
    BY <2>1
  <2>5. /\ p \in Payloads
        /\ Bytes(frames, n + 1) = Bytes(frames, n) + 4 + Len(p)
        /\ \A i \in 1..(4 + Len(p)) : S[Bytes(frames, n) + i] = EncodeFrame(p)[i]
    BY <2>3, <2>4, Layout
  <2>6. p \in Seq(Nat) /\ Len(p) \in Nat
    <3>1. 0..255 \subseteq Nat
      OBVIOUS
    <3>2. p \in Seq(0..255)
      BY <2>5 DEF Payloads
    <3> HIDE DEF p
    <3> QED BY <3>1, <3>2, Monotone
  <2>7. Len(b) >= total
    BY <1>2, <2>3 DEF HoldsFrame
  <2>8. \A i \in 1..Len(p) : EncodeFrame(p)[4 + i] = p[i]
    BY <2>5, FrameEncoding
  <2>9. Bytes(frames, n) \in Nat
    <3>1. n \in 0..Len(frames)
      BY <2>1, <2>3
    <3> QED BY <3>1, Layout
  <2>10. \A i \in 1..Len(b) : b[i] = S[Bytes(frames, n) + i]
    BY DEF Reads
  <2>11. e = [d EXCEPT !.buffer = SubSeq(b, total + 1, Len(b)),
                       !.frames = Append(d.frames, SubSeq(b, 5, total))]
    BY <1>2, <2>3 DEF Extracted
  <2> HIDE DEF n, p, e, S, b
  <2>12. \A i \in 1..Len(p) : b[4 + i] = p[i]
    <3> SUFFICES ASSUME NEW i \in 1..Len(p) PROVE b[4 + i] = p[i]
      OBVIOUS
    <3>1. 4 + i \in 1..(4 + Len(p)) /\ 4 + i \in 1..Len(b)
      BY <2>1, <2>6, <2>7
    <3> QED BY <2>5, <2>8, <2>10, <3>1
  <2>13. SubSeq(b, 5, total) = p
    <3> DEFINE q == SubSeq(b, 5, total)
    <3>1. q \in Seq(Nat) /\ Len(q) = Len(p) /\ \A i \in 1..Len(p) : q[i] = b[4 + i]
      BY <2>1, <2>6, <2>7
    <3> HIDE DEF q
    <3>2. \A i \in 1..Len(q) : q[i] = p[i]
      BY <2>12, <3>1
    <3>3. q = p
      BY <2>6, <3>1, <3>2, SameElements
    <3> QED BY <3>3 DEF q
  <2> DEFINE rest == SubSeq(b, total + 1, Len(b))
  <2>14. /\ rest \in Seq(Nat) /\ Len(rest) = Len(b) - total
         /\ \A i \in 1..Len(rest) : rest[i] = b[total + i]
    BY <2>1, <2>6, <2>7
  <2> HIDE DEF rest
  <2>15. e \in Decoders /\ e.buffer = rest /\ e.frames = Append(d.frames, p) /\ e.raised = d.raised
    <3>1. e = [d EXCEPT !.buffer = rest, !.frames = Append(d.frames, p)]
      BY <2>11, <2>13 DEF rest
    <3>2. Append(d.frames, p) \in Seq(Seq(Nat))
      BY <2>1, <2>6
    <3> DEFINE fs == Append(d.frames, p)
    <3> HIDE DEF fs
    <3>3. e = [d EXCEPT !.buffer = rest, !.frames = fs] /\ fs \in Seq(Seq(Nat))
      BY <3>1, <3>2 DEF fs
    <3>4. e \in Decoders /\ e.buffer = rest /\ e.frames = fs /\ e.raised = d.raised
      BY <2>1, <2>14, <3>3 DEF Decoders
    <3> QED BY <3>4 DEF fs
  <2>16. /\ Len(e.frames) = n + 1
         /\ \A i \in 1..(n + 1) : e.frames[i] = frames[i]
    <3>1. Len(e.frames) = n + 1 /\ e.frames[n + 1] = p /\ \A i \in 1..n : e.frames[i] = d.frames[i]
      BY <2>1, <2>15 DEF n
    <3>2. \A i \in 1..n : d.frames[i] = frames[i]
      BY DEF Reads, n
    <3> QED BY <2>1, <3>1, <3>2 DEF p
  <2>17. /\ arrived = Bytes(frames, n) + Len(b) /\ arrived <= Len(S)
    BY DEF Reads, n, b, S
  <2>18. arrived = Bytes(frames, n + 1) + Len(rest)
    BY <2>1, <2>5, <2>6, <2>7, <2>9, <2>14, <2>17
  <2>19. \A i \in 1..Len(rest) : rest[i] = S[Bytes(frames, n + 1) + i]
    <3> SUFFICES ASSUME NEW i \in 1..Len(rest) PROVE rest[i] = S[Bytes(frames, n + 1) + i]
      OBVIOUS
    <3>1. rest[i] = b[total + i] /\ total + i \in 1..Len(b)
      BY <2>1, <2>6, <2>7, <2>14
    <3>2. Bytes(frames, n) + (total + i) = Bytes(frames, n + 1) + i
      BY <2>5, <2>6, <2>9
    <3>3. b[total + i] = S[Bytes(frames, n) + (total + i)]
      BY <2>10, <3>1
    <3> QED BY <3>1, <3>2, <3>3
  <2>20. n + 1 <= Len(frames)
    BY <2>3
  <2>21. Reads(e, frames, arrived)
    BY <2>15, <2>16, <2>17, <2>18, <2>19, <2>20 DEF Reads, S
  <2>22. Len(rest) + 4 <= Len(b)
    BY <2>1, <2>6, <2>14
  <2> QED BY <1>2, <2>15, <2>21, <2>22 DEF e, b
<1> QED BY <1>1, <1>2

\* What one call of feed does with the next bytes of a stream.
LEMMA Feeding ==
    ASSUME NEW frames \in Seq(Payloads), NEW arrived \in Nat, NEW d, Reads(d, frames, arrived),
           NEW chunk \in Seq(Nat), arrived + Len(chunk) <= Len(Stream(frames)),
           \A i \in 1..Len(chunk) : chunk[i] = Stream(frames)[arrived + i],
           ~d.raised, NEW e, e = FeedDecoder(d, chunk)
    PROVE  \/ /\ Reads(e, frames, arrived + Len(chunk)) /\ ~e.raised
              /\ ~HoldsFrame(e.buffer) /\ ~IsOversize(e.buffer)
           \/ e \in Decoders /\ e.raised /\ e.frames = d.frames
<1> DEFINE later == arrived + Len(chunk)
           buffer == d.buffer \o chunk
           d0 == [d EXCEPT !.buffer = buffer]
           After[k \in Nat] == IF k = 0 THEN d0 ELSE Extracted(After[k - 1])
           Fits(g) == g = [k \in Nat |-> IF k = 0 THEN d0 ELSE Extracted(g[k - 1])]
           end == After[Len(buffer)]
<1>1. FeedDecoder(d, chunk) =
        IF IsOversize(end.buffer) THEN [end EXCEPT !.frames = d.frames, !.raised = TRUE] ELSE end
  BY DEF FeedDecoder
<1>2. /\ d \in Decoders /\ d.buffer \in Seq(Nat) /\ Len(d.buffer) \in Nat /\ Len(chunk) \in Nat
      /\ later \in Nat
  BY DecoderTypes DEF Reads
<1>3. /\ buffer \in Seq(Nat) /\ Len(buffer) = Len(d.buffer) + Len(chunk)
      /\ \A i \in 1..(Len(d.buffer) + Len(chunk)) :
            buffer[i] = IF i <= Len(d.buffer) THEN d.buffer[i] ELSE chunk[i - Len(d.buffer)]
  BY <1>2, Concatenation
<1> HIDE DEF buffer
<1>4. d0 \in Decoders /\ d0.buffer = buffer /\ d0.frames = d.frames /\ d0.raised = d.raised
  BY <1>2, <1>3 DEF Decoders
<1> HIDE DEF d0
<1>5. Reads(d0, frames, later)
  <2> DEFINE B == Bytes(frames, Len(d.frames))
  <2>1. /\ Len(d.frames) <= Len(frames)
        /\ \A i \in 1..Len(d.frames) : d.frames[i] = frames[i]
        /\ arrived = B + Len(d.buffer)
        /\ \A i \in 1..Len(d.buffer) : d.buffer[i] = Stream(frames)[B + i]
    BY DEF Reads
  <2>2. B \in Nat
    <3>1. Len(d.frames) \in 0..Len(frames)
      BY <1>2, <2>1, DecoderTypes
    <3> QED BY <3>1, Layout
  <2> HIDE DEF B
  <2>3. later = B + Len(buffer)
    BY <1>2, <1>3, <2>1, <2>2
  <2>4. ASSUME NEW i \in 1..Len(buffer) PROVE buffer[i] = Stream(frames)[B + i]
    <3>1. CASE i <= Len(d.buffer)
      BY <1>2, <1>3, <2>1, <3>1
    <3>2. CASE i > Len(d.buffer)
      <4>1. i - Len(d.buffer) \in 1..Len(chunk) /\ buffer[i] = chunk[i - Len(d.buffer)]
        BY <1>2, <1>3, <3>2
      <4>2. arrived + (i - Len(d.buffer)) = B + i
        <5>1. \A b, l, j \in Nat : (b + l) + (j - l) = b + j
          OBVIOUS
        <5>2. i \in Nat
          BY <1>2, <1>3
        <5> QED BY <1>2, <2>1, <2>2, <5>1, <5>2, Zenon
      <4> QED BY <4>1, <4>2
    <3> QED BY <1>2, <3>1, <3>2
  <2> QED BY <1>4, <2>1, <2>3, <2>4 DEF Reads, B
<1>6. After[0] = d0 /\ \A k \in Nat : After[k + 1] = Extracted(After[k])
  <2>1. \E f : Fits(f)
    <3> DEFINE S == {x \in Decoders : Reads(x, frames, later)}
               step == [n \in Nat |-> [x \in S |-> Extracted(x)]]
    <3>1. \A x \in S : Extracted(x) \in S
      <4> SUFFICES ASSUME NEW x \in S PROVE Extracted(x) \in S
        OBVIOUS
      <4>1. Reads(Extracted(x), frames, later)
        BY <1>2, Extraction
      <4> QED BY <4>1 DEF Reads
    <3>2. Stays(step, S)
      BY <3>1 DEF Stays
    <3>3. d0 \in S
      BY <1>4, <1>5
    <3>4. \A n \in Nat, x \in S : step[n][x] = Extracted(x)
      OBVIOUS
    <3> HIDE DEF S, step
    <3>5. PICK f : Follows(f, S, d0, step)
      BY <3>2, <3>3, Recursion
    <3>6. f \in [Nat -> S] /\ f[0] = d0 /\ \A n \in Nat : f[n + 1] = Extracted(f[n])
      BY <3>4, <3>5 DEF Follows
    <3>7. ASSUME NEW k \in Nat PROVE f[k] = IF k = 0 THEN d0 ELSE Extracted(f[k - 1])
      <4>1. CASE k = 0
        BY <3>6, <4>1
      <4>2. CASE k # 0
        <5>1. k - 1 \in Nat /\ (k - 1) + 1 = k
          BY <4>2
        <5>2. f[(k - 1) + 1] = Extracted(f[k - 1])
          BY <3>6, <5>1
        <5> QED BY <4>2, <5>1, <5>2
      <4> QED BY <4>1, <4>2
    <3>8. Fits(f)
      BY <3>6, <3>7
    <3> QED BY <3>8
  <2>2. Fits(After)
    <3>1. After = CHOOSE g : Fits(g)
      OBVIOUS
    <3> HIDE DEF After, Fits
    <3> QED BY <2>1, <3>1, Zenon
  <2> HIDE DEF After
  <2>3. \A k \in Nat : After[k] = IF k = 0 THEN d0 ELSE Extracted(After[k - 1])
    BY <2>2
  <2>4. ASSUME NEW k \in Nat PROVE After[k + 1] = Extracted(After[k])
    <3>1. k + 1 \in Nat /\ k + 1 # 0 /\ (k + 1) - 1 = k
      OBVIOUS
    <3> QED BY <2>3, <3>1
  <2> QED BY <2>3, <2>4
<1> HIDE DEF After, Fits
<1> DEFINE Fine(x, k) == /\ Reads(x, frames, later) /\ x.raised = d.raised
                         /\ ~HoldsFrame(x.buffer) \/ Len(x.buffer) + 4 * k <= Len(buffer)
           T == {k \in Nat : Fine(After[k], k)}
<1>7. 0 \in T
  <2>1. Len(d0.buffer) + 4 * 0 <= Len(buffer)
    BY <1>2, <1>3, <1>4
  <2> QED BY <1>4, <1>5, <1>6, <2>1
<1>8. ASSUME NEW k \in Nat, k \in T PROVE k + 1 \in T
  <2> DEFINE a == After[k]
             b == Extracted(a)
  <2>1. Reads(a, frames, later) /\ a.raised = d.raised /\ After[k + 1] = b
    BY <1>6, <1>8
  <2>2. /\ Reads(b, frames, later) /\ b.raised = a.raised
        /\ ~HoldsFrame(a.buffer) => b = a
        /\ HoldsFrame(a.buffer) => Len(b.buffer) + 4 <= Len(a.buffer)
    BY <1>2, <2>1, Extraction
  <2>3. ~HoldsFrame(a.buffer) \/ Len(a.buffer) + 4 * k <= Len(buffer)
    BY <1>8
  <2>4. Len(a.buffer) \in Nat /\ Len(b.buffer) \in Nat /\ Len(buffer) \in Nat
    BY <1>2, <1>3, <2>1, <2>2, DecoderTypes DEF Reads
  <2> HIDE DEF a, b
  <2> SUFFICES ~HoldsFrame(b.buffer) \/ Len(b.buffer) + 4 * (k + 1) <= Len(buffer)
    <3>1. Fine(b, k + 1)
      BY <2>1, <2>2
    <3> HIDE DEF Fine
    <3> QED BY <2>1, <3>1
  <2>5. CASE ~HoldsFrame(a.buffer)
    BY <2>2, <2>5
  <2>6. CASE HoldsFrame(a.buffer)
    <3>1. \A x, y, z \in Nat : x + 4 <= y /\ y + 4 * k <= z => x + 4 * (k + 1) <= z
      OBVIOUS
    <3> QED BY <2>2, <2>3, <2>4, <2>6, <3>1
  <2> QED BY <2>5, <2>6
<1> HIDE DEF T
<1>9. Nat \subseteq T
  BY <1>7, <1>8, Induction
<1>10. Len(buffer) \in Nat /\ Len(buffer) \in T
  BY <1>2, <1>3, <1>9
<1>11. /\ Reads(end, frames, later) /\ end.raised = d.raised
       /\ ~HoldsFrame(end.buffer) \/ Len(end.buffer) + 4 * Len(buffer) <= Len(buffer)
  BY <1>10 DEF T
<1> HIDE DEF end
<1>12. end \in Decoders /\ Len(end.buffer) \in Nat
  BY <1>11, DecoderTypes DEF Reads
<1>13. ~HoldsFrame(end.buffer)
  <2>1. SUFFICES ASSUME HoldsFrame(end.buffer) PROVE FALSE
    OBVIOUS
  <2>2. 4 <= Len(end.buffer)
    BY <2>1 DEF HoldsFrame
  <2>3. \A x, y \in Nat : 4 <= x => ~(x + 4 * y <= y)
    OBVIOUS
  <2> QED BY <1>10, <1>11, <1>12, <2>1, <2>2, <2>3
<1>14. CASE IsOversize(end.buffer)
  <2>1. FeedDecoder(d, chunk) = [end EXCEPT !.frames = d.frames, !.raised = TRUE]
    BY <1>1, <1>14
  <2> QED BY <1>2, <1>12, <2>1 DEF Decoders
<1>15. CASE ~IsOversize(end.buffer)
  <2>1. FeedDecoder(d, chunk) = end
    BY <1>1, <1>15
  <2> QED BY <1>11, <1>13, <1>15, <2>1
<1> QED BY <1>14, <1>15

-----------------------------------------------------------------------------
(* Frames reach the core whole. *)

\* What has not arrived of a stream.
Rest(frames, left) ==
    /\ left \in Seq(Nat) /\ Len(left) <= Len(Stream(frames))
    /\ \A i \in 1..Len(left) : left[i] = Stream(frames)[Len(Stream(frames)) - Len(left) + i]

\* The strengthening of FramesAreWhole: the buffer, too, holds what was sent, and no frame stays
\* in it.
FramesInv ==
    decoder # None =>
        /\ acc = None /\ held = <<>> /\ source \in FrameSets
        /\ Rest(source, wire)
        /\ decoder \in Decoders /\ Len(decoder.frames) <= Len(source)
        /\ \A i \in 1..Len(decoder.frames) : decoder.frames[i] = source[i]
        /\ ~decoder.raised =>
            /\ Reads(decoder, source, Len(Stream(source)) - Len(wire))
            /\ ~HoldsFrame(decoder.buffer) /\ ~IsOversize(decoder.buffer)

LEMMA FrameSetsArePayloads == ASSUME NEW s \in FrameSets PROVE s \in Seq(Payloads)
BY DecodingAssumption DEF Payloads

LEMMA FramesInit == InitDecoding => FramesInv
<1> SUFFICES ASSUME InitDecoding, decoder # None PROVE FramesInv
  BY DEF FramesInv
<1>1. InitFrames /\ held = <<>>
  BY DEF InitDecoding, InitReply
<1>2. source \in Seq(Payloads) /\ acc = None /\ decoder = NewDecoder /\ source \in FrameSets
  BY <1>1, FrameSetsArePayloads DEF InitFrames
<1>3. wire = Stream(source)
  BY <1>1 DEF InitFrames, Stream, Encoded
<1>4. Stream(source) \in Seq(Nat) /\ Len(Stream(source)) \in Nat /\ Bytes(source, 0) = 0
  <2>1. Stream(source) \in Seq(Nat) /\ Bytes(source, 0) = 0
    BY <1>2, Layout
  <2> QED BY <2>1
<1>5. Rest(source, wire)
  BY <1>3, <1>4 DEF Rest
<1>6. /\ NewDecoder \in Decoders /\ NewDecoder.frames = <<>> /\ NewDecoder.buffer = <<>>
      /\ Len(NewDecoder.frames) = 0 /\ Len(NewDecoder.buffer) = 0
  BY DEF NewDecoder, Decoders
<1>7. Len(source) \in Nat
  BY <1>2
<1>8. Reads(decoder, source, Len(Stream(source)) - Len(wire))
  BY <1>2, <1>3, <1>4, <1>6, <1>7 DEF Reads
<1>9. ~HoldsFrame(decoder.buffer) /\ ~IsOversize(decoder.buffer)
  BY <1>2, <1>6 DEF HoldsFrame, IsOversize
<1> QED BY <1>1, <1>2, <1>5, <1>6, <1>7, <1>8, <1>9 DEF FramesInv

LEMMA FramesStep == FramesInv /\ [NextDecoding]_decodingVars => FramesInv'
<1> SUFFICES ASSUME FramesInv, [NextDecoding]_decodingVars, decoder' # None PROVE FramesInv'
  BY DEF FramesInv
<1>1. CASE UNCHANGED <<source, wire, acc, decoder, held>>
  BY <1>1 DEF FramesInv, Rest
<1>2. CASE BytesArrive
  <2>1. /\ decoder # None /\ ~decoder.raised /\ UNCHANGED <<source, acc, held>>
    BY <1>2 DEF BytesArrive
  <2>2. PICK n \in 1..Len(wire) :
            /\ decoder' = FeedDecoder(decoder, SubSeq(wire, 1, n))
            /\ wire' = SubSeq(wire, n + 1, Len(wire))
    BY <1>2 DEF BytesArrive
  <2> DEFINE all == Len(Stream(source))
             chunk == SubSeq(wire, 1, n)
             arrived == all - Len(wire)
  <2>3. /\ acc = None /\ held = <<>> /\ source \in FrameSets /\ source \in Seq(Payloads)
        /\ decoder \in Decoders /\ Len(decoder.frames) <= Len(source)
        /\ \A i \in 1..Len(decoder.frames) : decoder.frames[i] = source[i]
        /\ Reads(decoder, source, arrived)
    BY <2>1, FrameSetsArePayloads DEF FramesInv
  <2>4. /\ wire \in Seq(Nat) /\ Len(wire) \in Nat /\ Len(wire) <= all
        /\ \A i \in 1..Len(wire) : wire[i] = Stream(source)[arrived + i]
    BY <2>1 DEF FramesInv, Rest
  <2>5. all \in Nat
    <3>1. Stream(source) \in Seq(Nat)
      BY <2>3, Layout
    <3> QED BY <3>1
  <2> HIDE DEF all
  <2>6. /\ chunk \in Seq(Nat) /\ Len(chunk) = n /\ \A i \in 1..n : chunk[i] = wire[i]
        /\ wire' \in Seq(Nat) /\ Len(wire') = Len(wire) - n
        /\ \A i \in 1..(Len(wire) - n) : wire'[i] = wire[n + i]
    BY <2>2, <2>4
  <2>7. arrived \in Nat /\ arrived + n = all - Len(wire') /\ arrived + n <= all
    BY <2>4, <2>5, <2>6
  <2> HIDE DEF chunk
  <2>8. \A i \in 1..Len(chunk) : chunk[i] = Stream(source)[arrived + i]
    BY <2>4, <2>6
  <2>9. Rest(source, wire)'
    <3>1. ASSUME NEW i \in 1..Len(wire') PROVE wire'[i] = Stream(source)[all - Len(wire') + i]
      <4>1. wire'[i] = wire[n + i] /\ n + i \in 1..Len(wire)
        BY <2>4, <2>6
      <4>2. arrived + (n + i) = all - Len(wire') + i
        BY <2>4, <2>5, <2>6
      <4> QED BY <2>4, <4>1, <4>2
    <3>2. Len(wire') <= all
      BY <2>4, <2>5, <2>6
    <3> QED BY <2>1, <2>6, <3>1, <3>2 DEF Rest, all
  <2> HIDE DEF arrived
  <2>10. \/ /\ Reads(decoder', source, all - Len(wire')) /\ ~decoder'.raised
            /\ ~HoldsFrame(decoder'.buffer) /\ ~IsOversize(decoder'.buffer)
         \/ decoder' \in Decoders /\ decoder'.raised /\ decoder'.frames = decoder.frames
    <3>1. arrived + Len(chunk) = all - Len(wire') /\ arrived + Len(chunk) <= Len(Stream(source))
      BY <2>6, <2>7 DEF all
    <3>2. \/ /\ Reads(decoder', source, arrived + Len(chunk)) /\ ~decoder'.raised
             /\ ~HoldsFrame(decoder'.buffer) /\ ~IsOversize(decoder'.buffer)
          \/ decoder' \in Decoders /\ decoder'.raised /\ decoder'.frames = decoder.frames
      <4>1. decoder' = FeedDecoder(decoder, chunk)
        BY <2>2 DEF chunk
      <4>2. /\ source \in Seq(Payloads) /\ arrived \in Nat /\ Reads(decoder, source, arrived)
            /\ chunk \in Seq(Nat) /\ arrived + Len(chunk) <= Len(Stream(source))
            /\ ~decoder.raised
        BY <2>1, <2>3, <2>6, <2>7, <3>1
      <4> QED BY <2>8, <4>1, <4>2, Feeding
    <3> QED BY <3>1, <3>2
  <2>11. CASE Reads(decoder', source, all - Len(wire')) /\ ~decoder'.raised
              /\ ~HoldsFrame(decoder'.buffer) /\ ~IsOversize(decoder'.buffer)
    <3>1. /\ decoder' \in Decoders /\ Len(decoder'.frames) <= Len(source)
          /\ \A i \in 1..Len(decoder'.frames) : decoder'.frames[i] = source[i]
      BY <2>11 DEF Reads
    <3> QED BY <2>1, <2>3, <2>9, <2>11, <3>1 DEF FramesInv, all
  <2>12. CASE decoder' \in Decoders /\ decoder'.raised /\ decoder'.frames = decoder.frames
    BY <2>1, <2>3, <2>9, <2>12 DEF FramesInv
  <2> QED BY <2>10, <2>11, <2>12
<1>3. CASE ChunkArrives \/ ChunkIsHeld \/ HeldChunkArrives \/ StreamCloses \/ BlocksAreTaken
  <2>1. decoder' = decoder /\ (acc # None \/ held # <<>>)
    BY <1>3 DEF ChunkArrives, ChunkIsHeld, HeldChunkArrives, StreamCloses, BlocksAreTaken, IsReply
  <2> QED BY <2>1 DEF FramesInv
<1> QED BY <1>1, <1>2, <1>3 DEF NextDecoding, decodingVars

LEMMA FramesInvIsWhole == FramesInv => FramesAreWhole
<1> SUFFICES ASSUME FramesInv, decoder # None PROVE FramesAreWhole
  BY DEF FramesAreWhole
<1> DEFINE B(n) == Len(FlattenSeq([i \in 1..n |-> EncodeFrame(source[i])]))
           n == Len(decoder.frames)
           arrived == Len(Stream(source)) - Len(wire)
<1>1. /\ source \in Seq(Payloads) /\ decoder \in Decoders /\ n <= Len(source)
      /\ \A i \in 1..n : decoder.frames[i] = source[i]
      /\ Rest(source, wire)
      /\ ~decoder.raised =>
            /\ Reads(decoder, source, arrived)
            /\ ~HoldsFrame(decoder.buffer) /\ ~IsOversize(decoder.buffer)
  BY FrameSetsArePayloads DEF FramesInv
<1>2. /\ Len(source) \in Nat /\ n \in Nat /\ decoder.buffer \in Seq(Nat)
      /\ Len(decoder.buffer) \in Nat /\ decoder.frames \in Seq(Seq(Nat))
  BY <1>1, DecoderTypes
<1>3. ASSUME NEW k \in 0..Len(source) PROVE B(k) = Bytes(source, k)
  <2>1. \A i \in 1..k : Encoded(source)[i] = EncodeFrame(source[i])
    BY <1>1, <1>2 DEF Encoded
  <2>2. [i \in 1..k |-> EncodeFrame(source[i])] = Upto(Encoded(source), k)
    BY <2>1 DEF Upto
  <2> QED BY <2>2 DEF Bytes, Before
<1>4. B(Len(source)) = Len(Stream(source))
  <2>1. Len(source) \in 0..Len(source)
    BY <1>2
  <2> QED BY <1>1, <1>3, <2>1, Layout
<1>5. IsPrefix(decoder.frames, source)
  <2>1. SubSeq(decoder.frames, 1, n) = SubSeq(source, 1, n)
    BY <1>1, <1>2
  <2> QED BY <1>1, <1>2, <2>1 DEF IsPrefix
<1>6. Len(Stream(source)) \in Nat /\ Len(wire) \in Nat /\ Len(wire) <= Len(Stream(source))
  <2>1. Stream(source) \in Seq(Nat) /\ wire \in Seq(Nat)
    BY <1>1, Layout DEF Rest
  <2> QED BY <1>1, <2>1 DEF Rest
<1>7. arrived \in Nat
  BY <1>6
<1>8. n \in 0..Len(source)
  BY <1>1, <1>2
<1> HIDE DEF n
<1>9. ASSUME ~decoder.raised
      PROVE  /\ arrived = B(n) + Len(decoder.buffer)
             /\ n < Len(source) => arrived < B(n + 1)
  <2>1. arrived = Bytes(source, n) + Len(decoder.buffer)
    BY <1>1, <1>9 DEF Reads, n
  <2>2. ASSUME n < Len(source) PROVE arrived < Bytes(source, n + 1)
    <3>1. n + 1 \in 1..Len(source) /\ (n + 1) - 1 = n
      BY <1>2, <2>2
    <3>2. /\ source[n + 1] \in Payloads
          /\ Bytes(source, n + 1) = Bytes(source, n) + 4 + Len(source[n + 1])
      BY <1>1, <3>1, Layout
    <3>3. Bytes(source, n) \in Nat /\ Len(source[n + 1]) \in Nat
      <4>1. Len(source[n + 1]) \in Nat
        BY <3>2 DEF Payloads
      <4> QED BY <1>1, <1>8, <4>1, Layout
    <3>4. CASE Len(decoder.buffer) < 4
      BY <1>2, <2>1, <3>2, <3>3, <3>4
    <3>5. CASE 4 <= Len(decoder.buffer)
      <4>1. PayloadLen(decoder.buffer) = Len(source[n + 1])
        BY <1>1, <1>7, <1>9, <3>5, HeaderIsNext DEF n
      <4>2. Len(decoder.buffer) < 4 + Len(source[n + 1])
        <5>1. \A x, y, z \in Nat : ~(y > z) /\ ~(y <= z /\ x >= 4 + y) => x < 4 + y
          OBVIOUS
        <5>2. MaxFrame \in Nat
          BY StreamsAssumption
        <5>3. Len(decoder.buffer) >= 4
          BY <1>2, <3>5
        <5> QED BY <1>1, <1>2, <1>9, <3>3, <4>1, <5>1, <5>2, <5>3 DEF HoldsFrame, IsOversize
      <4> QED BY <1>2, <2>1, <3>2, <3>3, <4>2
    <3> QED BY <1>2, <3>4, <3>5
  <2>3. n < Len(source) => n + 1 \in 0..Len(source)
    BY <1>2
  <2> QED BY <1>3, <1>8, <2>1, <2>2, <2>3
<1> HIDE DEF B
<1> QED BY <1>4, <1>5, <1>9 DEF FramesAreWhole, B, n

\* However the socket cuts the stream, the core's decoder puts out the sender's frames in order
\* and unaltered, and each as soon as its last byte has arrived, for frames of any number and
\* size; a header beyond max_frame_size ends it, and then what it had put out stays right.
THEOREM FramesHold == SpecDecoding => []FramesAreWhole
<1>1. InitDecoding => FramesInv
  BY FramesInit
<1>2. FramesInv /\ [NextDecoding]_decodingVars => FramesInv'
  BY FramesStep
<1>3. FramesInv => FramesAreWhole
  BY FramesInvIsWhole
<1> QED BY <1>1, <1>2, <1>3, PTL DEF SpecDecoding

=============================================================================
