---------------------------- MODULE FramingProofs ----------------------------
(***************************************************************************)
(* For any number of pipes, any messages and any way the bytes are cut:    *)
(* the reader never loses the boundary between messages, leaves nothing    *)
(* behind that it could handle, and so implements an ordered channel.      *)
(*                                                                         *)
(* The argument: frames lie in the stream one behind the other, each as    *)
(* long as its length field says unless that is not valid (PipeInv), so    *)
(* that the one frame that begins where the reader is, is the one after    *)
(* those it has taken (AtReader); retrieving it leads to the next.         *)
(***************************************************************************)
EXTENDS Framing, Integers, TLAPS

(* The queues, position by position. *)

\* Append to a queue.
LEMMA BackFacts ==
    ASSUME NEW S, NEW q \in Seq(S), NEW e \in S
    PROVE  /\ Append(q, e) \in Seq(S)
           /\ Len(Append(q, e)) = Len(q) + 1
           /\ DOMAIN Append(q, e) = DOMAIN q \cup {Len(q) + 1}
           /\ Len(q) + 1 \notin DOMAIN q
           /\ \A i \in DOMAIN q : Append(q, e)[i] = q[i]
           /\ Append(q, e)[Len(q) + 1] = e
OBVIOUS

FrameEnd(f) == f.start + Size(f)

PipeInv(p) ==
    /\ \A i \in DOMAIN stream[p] :
          Valid(stream[p][i].len) => /\ stream[p][i].len = Size(stream[p][i])
                                     /\ stream[p][i].body \in Bodies
    /\ \A i, j \in DOMAIN stream[p] :
          i < j => FrameEnd(stream[p][i]) <= stream[p][j].start
    /\ \A i \in DOMAIN stream[p] :
          i + 1 \in DOMAIN stream[p] => stream[p][i + 1].start = FrameEnd(stream[p][i])
    /\ consumed[p] <= received[p] /\ received[p] <= Written(p)
    /\ refused[p] => /\ taken[p] < Len(stream[p])
                     /\ ~Valid(stream[p][taken[p] + 1].len)
    /\ AlignedAt(p)
    /\ QuietAt(p)

IInv == TypeOK /\ \A p \in Pipes : PipeInv(p)

-----------------------------------------------------------------------------
\* A frame has four bytes at least.
LEMMA SizeFacts ==
    ASSUME NEW f \in Frame
    PROVE  /\ Len(f.body) \in Nat /\ Size(f) \in Nat /\ Size(f) >= LenField
           /\ f.start \in Nat /\ f.len \in Nat
           /\ FrameEnd(f) \in Nat /\ FrameEnd(f) >= f.start + 4
<1>1. f.body \in Seq(Nat)
  <2>1. f.body \in Bodies \/ f.body = <<>>
    BY DEF Frame
  <2>2. Bodies \subseteq Seq(Nat)
    BY FramingAssumption
  <2>3. <<>> \in Seq(Nat)
    OBVIOUS
  <2>. QED
    BY <2>1, <2>2, <2>3
<1>2. Len(f.body) \in Nat
  BY <1>1
<1>. QED
  BY <1>2 DEF Frame, Size, LenField, FrameEnd

\* What TypeOK says of one pipe.
LEMMA PipeTypes ==
    ASSUME TypeOK, NEW p \in Pipes
    PROVE  /\ stream[p] \in Seq(Frame)
           /\ \A i \in DOMAIN stream[p] : stream[p][i] \in Frame
           /\ received[p] \in Nat /\ consumed[p] \in Nat /\ taken[p] \in Nat
           /\ reading[p] \in BOOLEAN /\ refused[p] \in BOOLEAN
           /\ handled[p] \in Seq(Bodies)
           /\ Len(stream[p]) \in Nat /\ DOMAIN stream[p] = 1..Len(stream[p])
           /\ Written(p) \in Nat
<1>1. stream[p] \in Seq(Frame)
  BY DEF TypeOK
<1>2. /\ \A i \in DOMAIN stream[p] : stream[p][i] \in Frame
      /\ Len(stream[p]) \in Nat /\ DOMAIN stream[p] = 1..Len(stream[p])
  BY <1>1
<1>3. Written(p) \in Nat
  <2>1. CASE stream[p] = <<>>
    BY <2>1 DEF Written
  <2>2. CASE stream[p] # <<>>
    <3>1. Len(stream[p]) \in DOMAIN stream[p]
      BY <1>1, <2>2
    <3>. QED
      BY <1>2, <2>2, <3>1, SizeFacts DEF Written, FrameEnd
  <2>. QED
    BY <2>1, <2>2
<1>. QED
  BY <1>1, <1>2, <1>3 DEF TypeOK

\* The frame that begins where the reader is, is the first it has not taken.
LEMMA AtReader ==
    ASSUME TypeOK, NEW p \in Pipes, PipeInv(p),
           NEW f \in Frames(p), f.start = consumed[p]
    PROVE  /\ taken[p] < Len(stream[p])
           /\ taken[p] + 1 \in DOMAIN stream[p]
           /\ f = stream[p][taken[p] + 1]
           /\ f \in Frame
<1>. DEFINE s == stream[p]
            t == taken[p]
<1>1. PICK i \in DOMAIN s : f = s[i]
  BY DEF Frames
<1>2. /\ \A j \in DOMAIN s : s[j] \in Frame
      /\ t \in Nat /\ Len(s) \in Nat /\ DOMAIN s = 1..Len(s)
  BY PipeTypes
<1>3. \A j \in DOMAIN s : /\ s[j].start \in Nat /\ FrameEnd(s[j]) \in Nat
                         /\ FrameEnd(s[j]) > s[j].start
  BY <1>2, SizeFacts
<1>4. /\ \A j, k \in DOMAIN s : j < k => FrameEnd(s[j]) <= s[k].start
      /\ AlignedAt(p)
  BY DEF PipeInv
<1>5. t # Len(s)
  <2>. SUFFICES ASSUME t = Len(s) PROVE FALSE
    OBVIOUS
  <2>1. s # <<>> /\ Len(s) \in DOMAIN s
    BY <1>1, <1>2
  <2>2. consumed[p] = FrameEnd(s[Len(s)])
    BY <1>4, <2>1 DEF AlignedAt, Written, FrameEnd
  <2>3. FrameEnd(s[i]) <= FrameEnd(s[Len(s)])
    <3>1. CASE i = Len(s)
      BY <1>3, <2>1, <3>1
    <3>2. CASE i < Len(s)
      <4>1. FrameEnd(s[i]) <= s[Len(s)].start
        BY <1>4, <2>1, <3>2
      <4>. HIDE DEF s
      <4>. QED
        BY <4>1, <1>3, <2>1
    <3>. QED
      BY <1>2, <3>1, <3>2
  <2>. HIDE DEF s
  <2>. QED
    BY <2>1, <2>2, <2>3, <1>1, <1>3
<1>6. t < Len(s) /\ t + 1 \in DOMAIN s /\ s[t + 1].start = consumed[p]
  BY <1>2, <1>4, <1>5 DEF AlignedAt
<1>7. i = t + 1
  <2>1. ~(i < t + 1) /\ ~(t + 1 < i)
    <3>. HIDE DEF s, t
    <3>. QED
      BY <1>1, <1>3, <1>4, <1>6
  <2>. QED
    BY <1>2, <1>6, <2>1
<1>. QED
  BY <1>1, <1>2, <1>6, <1>7

\* Where the next frame will begin, once the first one not taken is retrieved.
LEMMA BehindTaken ==
    ASSUME TypeOK, NEW p \in Pipes, PipeInv(p), taken[p] < Len(stream[p])
    PROVE  FrameEnd(stream[p][taken[p] + 1])
              = IF taken[p] + 1 = Len(stream[p]) THEN Written(p)
                ELSE stream[p][taken[p] + 2].start
<1>. DEFINE s == stream[p]
            t == taken[p]
<1>1. t \in Nat /\ Len(s) \in Nat /\ DOMAIN s = 1..Len(s) /\ s \in Seq(Frame)
  BY PipeTypes
<1>2. CASE t + 1 = Len(s)
  <2>1. s # <<>>
    BY <1>1, <1>2
  <2>. QED
    BY <1>2, <2>1 DEF Written, FrameEnd
<1>3. CASE t + 1 # Len(s)
  <2>1. t + 1 \in DOMAIN s /\ (t + 1) + 1 \in DOMAIN s
    BY <1>1, <1>3
  <2>2. s[(t + 1) + 1].start = FrameEnd(s[t + 1])
    BY <2>1 DEF PipeInv
  <2>3. (t + 1) + 1 = t + 2
    BY <1>1
  <2>. QED
    BY <1>3, <2>2, <2>3
<1>. QED
  BY <1>2, <1>3

\* Retrieving a complete frame leads to the end of it.
LEMMA RetrieveFacts ==
    ASSUME TypeOK, NEW p \in Pipes, PipeInv(p),
           NEW f \in Frames(p), Complete(p, f), Retrieve(p, f)
    PROVE  /\ f = stream[p][taken[p] + 1] /\ f \in Frame
           /\ taken[p] < Len(stream[p]) /\ taken[p] + 1 \in DOMAIN stream[p]
           /\ taken' = [taken EXCEPT ![p] = @ + 1]
           /\ consumed' = [consumed EXCEPT ![p] = FrameEnd(f)]
           /\ FrameEnd(f) <= received[p]
           /\ UNCHANGED <<stream, received, refused>>
           /\ ~refused[p]
<1>1. /\ f = stream[p][taken[p] + 1] /\ f \in Frame
      /\ taken[p] < Len(stream[p]) /\ taken[p] + 1 \in DOMAIN stream[p]
  BY AtReader DEF Complete, Peeked
<1>2. f.len = Size(f) /\ Valid(f.len)
  BY <1>1 DEF PipeInv, Complete
<1>3. /\ f.start = consumed[p] /\ f.len <= readableBytes(p)
      /\ readableBytes(p) = received[p] - consumed[p]
  BY <1>1, SizeFacts, PipeTypes DEF Complete, Peeked, readableBytes
<1>4. /\ consumed[p] + LenField + (f.len - LenField) = FrameEnd(f)
      /\ FrameEnd(f) <= received[p]
  <2>1. /\ consumed[p] \in Nat /\ received[p] \in Nat
        /\ f.start \in Nat /\ f.len \in Nat /\ Size(f) \in Nat
    BY <1>1, SizeFacts, PipeTypes
  <2>2. f.len <= received[p] - consumed[p]
    BY <1>3
  <2>3. LenField \in Nat
    BY DEF LenField
  <2>4. FrameEnd(f) = consumed[p] + f.len
    BY <1>2, <1>3 DEF FrameEnd
  <2>. QED
    BY <2>1, <2>2, <2>3, <2>4
<1>5. ~refused[p]
  BY <1>1, <1>2 DEF PipeInv
<1>. QED
  BY <1>1, <1>4, <1>5 DEF Retrieve, LenField

-----------------------------------------------------------------------------
(* Each action preserves the invariant of its pipe. *)

\* A pipe on which nothing happens.
LEMMA Elsewhere ==
    ASSUME NEW p \in Pipes, PipeInv(p),
           stream'[p] = stream[p], received'[p] = received[p], consumed'[p] = consumed[p],
           reading'[p] = reading[p], refused'[p] = refused[p], taken'[p] = taken[p]
    PROVE  PipeInv(p)'
BY DEF PipeInv, FrameEnd, Size, AlignedAt, QuietAt, Frames, Complete, Peeked,
       readableBytes, Written

\* The frame that Write appends.
NewFrame(p, n, b) == [start |-> Written(p), len |-> n, body |-> b]

LEMMA WriteFacts ==
    ASSUME TypeOK, NEW p \in Pipes, NEW n \in Nat, NEW b \in Bodies \cup {<<>>}, Write(p, n, b)
    PROVE  /\ NewFrame(p, n, b) \in Frame
           /\ stream' = [stream EXCEPT ![p] = Append(stream[p], NewFrame(p, n, b))]
           /\ stream'[p] = Append(stream[p], NewFrame(p, n, b))
           /\ stream'[p] \in Seq(Frame)
           /\ Len(stream'[p]) = Len(stream[p]) + 1
           /\ DOMAIN stream'[p] = DOMAIN stream[p] \cup {Len(stream[p]) + 1}
           /\ \A i \in DOMAIN stream[p] : stream'[p][i] = stream[p][i]
           /\ stream'[p][Len(stream[p]) + 1] = NewFrame(p, n, b)
           /\ Written(p)' = FrameEnd(NewFrame(p, n, b))
           /\ Written(p)' \in Nat /\ Written(p)' > Written(p)
<1>. DEFINE e == NewFrame(p, n, b)
<1>1. e \in Frame
  BY PipeTypes DEF NewFrame, Frame
<1>2. stream[p] \in Seq(Frame)
  BY PipeTypes
<1>3. stream' = [stream EXCEPT ![p] = Append(stream[p], e)]
  BY DEF Write, NewFrame
<1>4. stream'[p] = Append(stream[p], e)
  BY <1>3 DEF TypeOK
<1>5. /\ stream'[p] \in Seq(Frame)
      /\ Len(stream'[p]) = Len(stream[p]) + 1
      /\ DOMAIN stream'[p] = DOMAIN stream[p] \cup {Len(stream[p]) + 1}
      /\ \A i \in DOMAIN stream[p] : stream'[p][i] = stream[p][i]
      /\ stream'[p][Len(stream[p]) + 1] = e
  <2>. HIDE DEF e
  <2>. QED
    BY <1>1, <1>2, <1>4, BackFacts
<1>6. stream'[p] # <<>>
  BY <1>5, <1>2
<1>7. Written(p)' = FrameEnd(e)
  BY <1>5, <1>6 DEF Written, FrameEnd, Size
<1>8. e.start = Written(p)
  BY DEF NewFrame
<1>. HIDE DEF e
<1>9. FrameEnd(e) \in Nat /\ FrameEnd(e) > Written(p)
  BY <1>1, <1>8, SizeFacts
<1>. QED
  BY <1>1, <1>3, <1>4, <1>5, <1>7, <1>9 DEF e

\* Every frame ends at or before the end of the stream.
LEMMA FramesEnd ==
    ASSUME TypeOK, NEW p \in Pipes, PipeInv(p), NEW i \in DOMAIN stream[p]
    PROVE  FrameEnd(stream[p][i]) <= Written(p)
<1>. DEFINE s == stream[p]
<1>. SUFFICES FrameEnd(s[i]) <= Written(p)
  OBVIOUS
<1>1. /\ \A j \in DOMAIN s : s[j] \in Frame
      /\ Len(s) \in Nat /\ DOMAIN s = 1..Len(s)
  BY PipeTypes
<1>2. s # <<>> /\ Len(s) \in DOMAIN s
  BY <1>1
<1>3. Written(p) = FrameEnd(s[Len(s)])
  BY <1>2 DEF Written, FrameEnd
<1>4. /\ FrameEnd(s[i]) \in Nat /\ FrameEnd(s[Len(s)]) \in Nat /\ s[Len(s)].start \in Nat
      /\ FrameEnd(s[Len(s)]) >= s[Len(s)].start
  <2>1. \A j \in DOMAIN s : /\ s[j].start \in Nat /\ FrameEnd(s[j]) \in Nat
                           /\ FrameEnd(s[j]) >= s[j].start + 4
    BY <1>1, SizeFacts
  <2>2. i \in DOMAIN s /\ Len(s) \in DOMAIN s
    BY <1>2
  <2>. HIDE DEF s
  <2>. QED
    BY <2>1, <2>2
<1>5. CASE i = Len(s)
  BY <1>3, <1>4, <1>5
<1>6. CASE i # Len(s)
  <2>1. FrameEnd(s[i]) <= s[Len(s)].start
    BY <1>1, <1>2, <1>6 DEF PipeInv
  <2>. HIDE DEF s
  <2>. QED
    BY <2>1, <1>3, <1>4
<1>. QED
  BY <1>5, <1>6

\* Send and SendBadLength: a length is either bad or that of the frame.
LEMMA WriteKeeps ==
    ASSUME TypeOK, NEW p \in Pipes, PipeInv(p),
           NEW n \in Nat, NEW b \in Bodies \cup {<<>>}, Write(p, n, b),
           Valid(n) => n = LenField + Len(b) /\ b \in Bodies
    PROVE  PipeInv(p)'
<1>. DEFINE s == stream[p]
            s2 == stream'[p]
            e == NewFrame(p, n, b)
            k == Len(s) + 1
<1>1. /\ e \in Frame /\ Len(s2) = k /\ DOMAIN s2 = DOMAIN s \cup {k}
      /\ \A i \in DOMAIN s : s2[i] = s[i]
      /\ s2[k] = e
      /\ Written(p)' = FrameEnd(e) /\ Written(p)' \in Nat /\ Written(p)' > Written(p)
  BY WriteFacts
<1>2. /\ e.start = Written(p) /\ e.len = n /\ e.body = b
  BY DEF NewFrame
<1>3. /\ \A j \in DOMAIN s : s[j] \in Frame
      /\ Len(s) \in Nat /\ DOMAIN s = 1..Len(s) /\ Written(p) \in Nat
      /\ taken[p] \in Nat /\ consumed[p] \in Nat /\ received[p] \in Nat
  BY PipeTypes
<1>4. /\ taken' = taken /\ consumed' = consumed /\ received' = received
      /\ refused' = refused /\ reading' = reading
  BY DEF Write
<1>5. \A i \in DOMAIN s : FrameEnd(s[i]) <= Written(p)
  BY FramesEnd
<1>6. /\ taken[p] <= Len(s) /\ consumed[p] <= received[p] /\ received[p] <= Written(p)
      /\ consumed[p] = IF taken[p] = Len(s) THEN Written(p) ELSE s[taken[p] + 1].start
  BY DEF PipeInv, AlignedAt
<1>7. \A i \in DOMAIN s2 : Valid(s2[i].len) => s2[i].len = Size(s2[i]) /\ s2[i].body \in Bodies
  <2>1. Valid(e.len) => e.len = Size(e) /\ e.body \in Bodies
    BY <1>2 DEF Size
  <2>2. \A i \in DOMAIN s : Valid(s[i].len) => s[i].len = Size(s[i]) /\ s[i].body \in Bodies
    BY DEF PipeInv
  <2>. HIDE DEF s, s2, e, k
  <2>. QED
    BY <1>1, <2>1, <2>2
<1>8. \A i, j \in DOMAIN s2 : i < j => FrameEnd(s2[i]) <= s2[j].start
  <2>1. \A i, j \in DOMAIN s : i < j => FrameEnd(s[i]) <= s[j].start
    BY DEF PipeInv
  <2>2. \A i \in DOMAIN s2 : i # k => i \in DOMAIN s
    BY <1>1
  <2>3. \A i \in DOMAIN s : ~(k < i)
    BY <1>3
  <2>. HIDE DEF s, s2, e
  <2>. QED
    BY <1>1, <1>2, <1>3, <1>5, <2>1, <2>2, <2>3
<1>9. \A i \in DOMAIN s2 : i + 1 \in DOMAIN s2 => s2[i + 1].start = FrameEnd(s2[i])
  <2>. SUFFICES ASSUME NEW i \in DOMAIN s2, i + 1 \in DOMAIN s2
                PROVE  s2[i + 1].start = FrameEnd(s2[i])
    OBVIOUS
  <2>1. i \in DOMAIN s
    BY <1>1, <1>3
  <2>2. CASE i + 1 \in DOMAIN s
    BY <2>1, <2>2, <1>1 DEF PipeInv
  <2>3. CASE i + 1 \notin DOMAIN s
    <3>1. i + 1 = k /\ i = Len(s)
      BY <1>1, <1>3, <2>1, <2>3
    <3>2. s # <<>>
      BY <2>1
    <3>3. FrameEnd(s[i]) = Written(p)
      BY <3>1, <3>2 DEF Written, FrameEnd
    <3>. HIDE DEF s, s2, e, k
    <3>. QED
      BY <1>1, <1>2, <2>1, <3>1, <3>3
  <2>. QED
    BY <2>2, <2>3
<1>10. received[p]' <= Written(p)' /\ consumed[p]' <= received[p]'
  BY <1>1, <1>3, <1>4, <1>6
<1>11. (taken[p] < Len(s)) => taken[p] + 1 \in DOMAIN s /\ s2[taken[p] + 1] = s[taken[p] + 1]
  <2>1. taken[p] < Len(s) => taken[p] + 1 \in DOMAIN s
    BY <1>3
  <2>. QED
    BY <1>1, <2>1
<1>12. refused[p]' => /\ taken[p]' < Len(s2)
                      /\ ~Valid(s2[taken[p]' + 1].len)
  <2>1. refused[p] => taken[p] < Len(s) /\ ~Valid(s[taken[p] + 1].len)
    BY DEF PipeInv
  <2>. HIDE DEF s, s2, e
  <2>. QED
    BY <1>1, <1>3, <1>4, <1>11, <2>1
<1>13. AlignedAt(p)'
  <2>1. taken[p] < Len(s2) /\ taken[p] # Len(s2)
    <3>. HIDE DEF s, s2, e
    <3>. QED
      BY <1>1, <1>3, <1>6
  <2>2. consumed[p] = s2[taken[p] + 1].start
    <3>1. CASE taken[p] = Len(s)
      <4>. HIDE DEF s, s2, e
      <4>. QED
        BY <1>1, <1>2, <1>6, <3>1
    <3>2. CASE taken[p] # Len(s)
      <4>. HIDE DEF s, s2, e
      <4>. QED
        BY <1>3, <1>6, <1>11, <3>2
    <3>. QED
      BY <3>1, <3>2
  <2>. QED
    BY <1>1, <1>3, <1>4, <2>1, <2>2 DEF AlignedAt
<1>14. QuietAt(p)'
  <2>. SUFFICES ASSUME ~reading[p], NEW f \in Frames(p)', Complete(p, f)'
                PROVE  taken[p] > 0 /\ ~Parses(s2[taken[p]].body)
    BY <1>4 DEF QuietAt
  <2>0. PICK i \in DOMAIN s2 : f = s2[i]
    BY DEF Frames
  <2>1. /\ f.start = consumed[p] /\ received[p] - consumed[p] >= LenField
        /\ Valid(f.len) /\ received[p] - consumed[p] >= f.len
    BY <1>4 DEF Complete, Peeked, readableBytes
  <2>2. i \in DOMAIN s
    <3>1. i # k
      <4>. SUFFICES ASSUME i = k PROVE FALSE
        OBVIOUS
      <4>1. consumed[p] = Written(p)
        BY <1>1, <1>2, <2>0, <2>1
      <4>. QED
        BY <4>1, <2>1, <1>3, <1>6 DEF LenField
    <3>. QED
      BY <3>1, <1>1
  <2>3. s2[i] = s[i] /\ s[i] \in Frames(p)
    BY <1>1, <2>2 DEF Frames
  <2>4. Complete(p, s[i])
    BY <2>0, <2>1, <2>3 DEF Complete, Peeked, readableBytes
  <2>5. taken[p] > 0 /\ ~Parses(s[taken[p]].body)
    BY <2>3, <2>4 DEF PipeInv, QuietAt
  <2>6. taken[p] \in DOMAIN s
    BY <1>3, <1>6, <2>5
  <2>. QED
    BY <1>1, <2>5, <2>6
<1>. QED
  BY <1>7, <1>8, <1>9, <1>10, <1>12, <1>13, <1>14 DEF PipeInv

\* Arrive
LEMMA ArriveKeeps ==
    ASSUME TypeOK, NEW p \in Pipes, PipeInv(p), NEW to \in Nat, Arrive(p, to)
    PROVE  PipeInv(p)'
<1>1. /\ received'[p] = to /\ to > received[p] /\ to <= Written(p) /\ reading'[p] = TRUE
      /\ stream' = stream /\ consumed' = consumed /\ refused' = refused /\ taken' = taken
  BY DEF Arrive, TypeOK
<1>2. received[p] \in Nat /\ consumed[p] \in Nat /\ Written(p) \in Nat
  BY PipeTypes
<1>3. Written(p)' = Written(p)
  BY <1>1 DEF Written, Size
<1>4. consumed[p]' <= received[p]' /\ received[p]' <= Written(p)'
  BY <1>1, <1>2, <1>3 DEF PipeInv
<1>5. AlignedAt(p)'
  BY <1>1, <1>3 DEF PipeInv, AlignedAt
<1>6. QuietAt(p)'
  BY <1>1 DEF QuietAt
<1>. QED
  BY <1>1, <1>4, <1>5, <1>6 DEF PipeInv, FrameEnd, Size

\* HalfPacket and InvalidLength leave the loop without touching the buffer.
LEMMA LeaveKeeps ==
    ASSUME TypeOK, NEW p \in Pipes, PipeInv(p), HalfPacket(p) \/ InvalidLength(p)
    PROVE  PipeInv(p)'
<1>1. /\ stream' = stream /\ consumed' = consumed /\ received' = received /\ taken' = taken
  BY DEF HalfPacket, InvalidLength
<1>2. received[p] \in Nat /\ consumed[p] \in Nat /\ taken[p] \in Nat
  BY PipeTypes
<1>3. Written(p)' = Written(p)
  BY <1>1 DEF Written, Size
<1>4. ASSUME NEW f \in Frames(p), NEW g \in Frames(p), Peeked(p, f), Peeked(p, g)
      PROVE  f = g
  BY <1>4, AtReader DEF Peeked
<1>5. ~\E f \in Frames(p) : Complete(p, f)
  <2>. SUFFICES ASSUME NEW f \in Frames(p), Complete(p, f) PROVE FALSE
    OBVIOUS
  <2>1. f \in Frame /\ f.len \in Nat
    BY AtReader, SizeFacts DEF Complete, Peeked
  <2>2. Peeked(p, f) /\ Valid(f.len) /\ readableBytes(p) >= f.len /\ readableBytes(p) >= LenField
        /\ readableBytes(p) \in Int /\ LenField \in Nat
    BY <1>2 DEF Complete, Peeked, readableBytes, LenField
  <2>3. CASE HalfPacket(p)
    <3>1. PICK g \in Frames(p) : Peeked(p, g) /\ Valid(g.len) /\ readableBytes(p) < g.len
      BY <2>2, <2>3 DEF HalfPacket
    <3>. QED
      BY <3>1, <1>4, <2>1, <2>2
  <2>4. CASE InvalidLength(p)
    BY <2>4, <1>4, <2>2 DEF InvalidLength
  <2>. QED
    BY <2>3, <2>4
<1>6. QuietAt(p)'
  BY <1>1, <1>5 DEF QuietAt, Frames, Complete, Peeked, readableBytes
<1>7. refused'[p] => /\ taken[p] < Len(stream[p])
                     /\ ~Valid(stream[p][taken[p] + 1].len)
  <2>1. CASE HalfPacket(p)
    BY <2>1 DEF HalfPacket, PipeInv
  <2>2. CASE InvalidLength(p)
    <3>1. PICK f \in Frames(p) : Peeked(p, f) /\ ~Valid(f.len)
      BY <2>2 DEF InvalidLength
    <3>. QED
      BY <3>1, AtReader DEF Peeked
  <2>. QED
    BY <2>1, <2>2
<1>. QED
  BY <1>1, <1>3, <1>6, <1>7 DEF PipeInv, AlignedAt, FrameEnd, Size

\* ParseFails and TakeMessage retrieve a complete frame; the first ends the loop.
LEMMA RetrieveKeeps ==
    ASSUME TypeOK, NEW p \in Pipes, PipeInv(p),
           NEW f \in Frames(p), Complete(p, f), Retrieve(p, f),
           ~Parses(f.body) \/ reading'[p]
    PROVE  PipeInv(p)'
<1>1. /\ f = stream[p][taken[p] + 1] /\ f \in Frame
      /\ taken[p] < Len(stream[p]) /\ taken[p] + 1 \in DOMAIN stream[p]
      /\ taken'[p] = taken[p] + 1 /\ consumed'[p] = FrameEnd(f)
      /\ FrameEnd(f) <= received[p]
      /\ stream' = stream /\ received' = received /\ refused' = refused
      /\ ~refused[p]
  BY RetrieveFacts DEF TypeOK
<1>2. taken[p] \in Nat /\ Len(stream[p]) \in Nat
  BY PipeTypes
<1>3. Written(p)' = Written(p)
  BY <1>1 DEF Written, Size
<1>4. AlignedAt(p)'
  <2>1. FrameEnd(f) = IF taken[p] + 1 = Len(stream[p]) THEN Written(p)
                      ELSE stream[p][taken[p] + 2].start
    BY <1>1, BehindTaken
  <2>2. (taken[p] + 1) + 1 = taken[p] + 2 /\ taken[p] + 1 <= Len(stream[p])
    BY <1>1, <1>2
  <2>. QED
    BY <1>1, <1>3, <2>1, <2>2 DEF AlignedAt
<1>5. QuietAt(p)'
  BY <1>1, <1>2 DEF QuietAt
<1>. QED
  BY <1>1, <1>3, <1>4, <1>5 DEF PipeInv, FrameEnd, Size

-----------------------------------------------------------------------------
(* The invariant, for every step. *)

\* The steps of one pipe.
PipeStep(p) ==
    \/ \E b \in Bodies : Send(p, b)
    \/ \E n \in BadLengths : SendBadLength(p, n)
    \/ \E to \in 1..Written(p) : Arrive(p, to)
    \/ HalfPacket(p) \/ InvalidLength(p) \/ ParseFails(p)
    \/ \E f \in Frames(p) : TakeMessage(p, f)

\* The writes are those of good and of bad lengths.
LEMMA Writes ==
    ASSUME NEW p \in Pipes,
           (\E b \in Bodies : Send(p, b)) \/ (\E n \in BadLengths : SendBadLength(p, n))
    PROVE  \E n \in Nat, b \in Bodies \cup {<<>>} :
              Write(p, n, b) /\ (Valid(n) => n = LenField + Len(b) /\ b \in Bodies)
<1>1. ASSUME NEW b \in Bodies, Send(p, b)
      PROVE  \E n \in Nat : Write(p, n, b) /\ n = LenField + Len(b)
  <2>1. b \in Seq(Nat)
    BY FramingAssumption DEF FramingAssumption
  <2>2. LenField + Len(b) \in Nat
    BY <2>1 DEF LenField
  <2>. QED
    BY <1>1, <2>2 DEF Send
<1>2. ASSUME NEW n \in BadLengths, SendBadLength(p, n)
      PROVE  n \in Nat /\ Write(p, n, <<>>) /\ ~Valid(n)
  BY <1>2, FramingAssumption DEF SendBadLength
<1>. QED
  BY <1>1, <1>2

\* A step changes the state of its pipe only, and keeps the types.
LEMMA StepTypes ==
    ASSUME TypeOK, NEW p \in Pipes, PipeInv(p), PipeStep(p)
    PROVE  /\ TypeOK'
           /\ \A q \in Pipes : q # p =>
                 /\ stream'[q] = stream[q] /\ received'[q] = received[q]
                 /\ consumed'[q] = consumed[q] /\ reading'[q] = reading[q]
                 /\ refused'[q] = refused[q] /\ taken'[q] = taken[q]
<1>1. ASSUME NEW n \in Nat, NEW b \in Bodies \cup {<<>>}, Write(p, n, b)
      PROVE  TypeOK' /\ \A q \in Pipes : q # p => stream'[q] = stream[q]
  <2>0. /\ stream' = [stream EXCEPT ![p] = Append(stream[p], NewFrame(p, n, b))]
        /\ stream'[p] = Append(stream[p], NewFrame(p, n, b))
        /\ stream'[p] \in Seq(Frame)
    BY <1>1, WriteFacts
  <2>1. /\ stream' = [stream EXCEPT ![p] = Append(stream[p], NewFrame(p, n, b))]
        /\ Append(stream[p], NewFrame(p, n, b)) \in Seq(Frame)
    BY <2>0
  <2>2. stream' \in [Pipes -> Seq(Frame)] /\ \A q \in Pipes : q # p => stream'[q] = stream[q]
    BY <2>1 DEF TypeOK
  <2>. QED
    BY <1>1, <2>2 DEF TypeOK, Write
<1>2. ASSUME NEW f \in Frames(p), Complete(p, f), Retrieve(p, f),
             reading' \in [Pipes -> BOOLEAN], handled' \in [Pipes -> Seq(Bodies)]
      PROVE  TypeOK' /\ \A q \in Pipes : q # p => consumed'[q] = consumed[q] /\ taken'[q] = taken[q]
  <2>1. /\ consumed' = [consumed EXCEPT ![p] = FrameEnd(f)]
        /\ taken' = [taken EXCEPT ![p] = taken[p] + 1]
        /\ UNCHANGED <<stream, received, refused>>
        /\ FrameEnd(f) \in Nat /\ taken[p] + 1 \in Nat
    BY <1>2, RetrieveFacts, SizeFacts, PipeTypes
  <2>. QED
    BY <1>2, <2>1 DEF TypeOK
<1>3. CASE \E b \in Bodies : Send(p, b)
  BY <1>3, <1>1, Writes DEF Write
<1>4. CASE \E n \in BadLengths : SendBadLength(p, n)
  BY <1>4, <1>1, Writes DEF Write
<1>5. CASE \E to \in 1..Written(p) : Arrive(p, to)
  <2>1. PICK to \in Nat : Arrive(p, to)
    BY <1>5
  <2>. QED
    BY <2>1 DEF Arrive, TypeOK
<1>6. CASE HalfPacket(p) \/ InvalidLength(p)
  BY <1>6 DEF HalfPacket, InvalidLength, Leave, TypeOK
<1>7. CASE ParseFails(p)
  <2>1. PICK f \in Frames(p) : Complete(p, f) /\ Retrieve(p, f)
    BY <1>7 DEF ParseFails
  <2>2. /\ reading' = [reading EXCEPT ![p] = FALSE] /\ handled' = handled
    BY <1>7 DEF ParseFails, Leave
  <2>3. reading' \in [Pipes -> BOOLEAN] /\ handled' \in [Pipes -> Seq(Bodies)]
        /\ \A q \in Pipes : q # p => reading'[q] = reading[q]
    BY <2>2 DEF TypeOK
  <2>4. UNCHANGED <<stream, received, refused>>
    BY <2>1 DEF Retrieve
  <2>. QED
    BY <1>2, <2>1, <2>3, <2>4
<1>8. CASE \E f \in Frames(p) : TakeMessage(p, f)
  <2>1. PICK f \in Frames(p) : TakeMessage(p, f)
    BY <1>8
  <2>2. /\ Complete(p, f) /\ Retrieve(p, f) /\ reading' = reading
        /\ handled' = [handled EXCEPT ![p] = Append(handled[p], f.body)]
    BY <2>1 DEF TakeMessage
  <2>3. f.body \in Bodies
    BY <2>1, <2>2, RetrieveFacts DEF Complete, PipeInv
  <2>4. Append(handled[p], f.body) \in Seq(Bodies)
    BY <2>3, PipeTypes
  <2>5. reading' \in [Pipes -> BOOLEAN] /\ handled' \in [Pipes -> Seq(Bodies)]
    BY <2>2, <2>4 DEF TypeOK
  <2>6. UNCHANGED <<stream, received, refused>>
    BY <2>2 DEF Retrieve
  <2>. QED
    BY <1>2, <2>2, <2>5, <2>6
<1>. QED
  BY <1>3, <1>4, <1>5, <1>6, <1>7, <1>8 DEF PipeStep

LEMMA StepKeeps ==
    ASSUME TypeOK, NEW p \in Pipes, PipeInv(p), PipeStep(p)
    PROVE  PipeInv(p)'
<1>1. CASE (\E b \in Bodies : Send(p, b)) \/ (\E n \in BadLengths : SendBadLength(p, n))
  BY <1>1, Writes, WriteKeeps
<1>2. CASE \E to \in 1..Written(p) : Arrive(p, to)
  <2>1. PICK to \in Nat : Arrive(p, to)
    BY <1>2
  <2>. QED
    BY <2>1, ArriveKeeps
<1>3. CASE HalfPacket(p) \/ InvalidLength(p)
  BY <1>3, LeaveKeeps
<1>4. CASE ParseFails(p)
  BY <1>4, RetrieveKeeps DEF ParseFails
<1>5. CASE \E f \in Frames(p) : TakeMessage(p, f)
  BY <1>5, RetrieveKeeps DEF TakeMessage, TypeOK
<1>. QED
  BY <1>1, <1>2, <1>3, <1>4, <1>5 DEF PipeStep

LEMMA InitInv == FrameInit => IInv
<1>. SUFFICES ASSUME FrameInit PROVE IInv
  OBVIOUS
<1>1. TypeOK
  BY DEF FrameInit, TypeOK
<1>2. ASSUME NEW p \in Pipes PROVE PipeInv(p)
  <2>1. /\ stream[p] = <<>> /\ received[p] = 0 /\ consumed[p] = 0 /\ taken[p] = 0
        /\ reading[p] = FALSE /\ refused[p] = FALSE
    BY DEF FrameInit
  <2>2. DOMAIN <<>> = {} /\ Len(<<>>) = 0
    OBVIOUS
  <2>3. DOMAIN stream[p] = {} /\ Len(stream[p]) = 0 /\ Written(p) = 0
    BY <2>1, <2>2 DEF Written
  <2>4. Frames(p) = {}
    BY <2>3 DEF Frames
  <2>5. AlignedAt(p) /\ QuietAt(p)
    BY <2>1, <2>3, <2>4 DEF AlignedAt, QuietAt
  <2>. QED
    BY <2>1, <2>3, <2>5 DEF PipeInv
<1>. QED
  BY <1>1, <1>2 DEF IInv

LEMMA NextInv == IInv /\ [FrameNext]_frameVars => IInv'
<1>. SUFFICES ASSUME IInv, [FrameNext]_frameVars PROVE IInv'
  OBVIOUS
<1>1. CASE FrameNext
  <2>1. PICK p \in Pipes : PipeStep(p)
    BY <1>1 DEF FrameNext, PipeStep
  <2>2. PipeInv(p) /\ TypeOK
    BY DEF IInv
  <2>3. TypeOK' /\ PipeInv(p)'
    BY <2>1, <2>2, StepTypes, StepKeeps
  <2>4. ASSUME NEW q \in Pipes, q # p PROVE PipeInv(q)'
    <3>1. PipeInv(q)
      BY DEF IInv
    <3>. QED
      BY <2>1, <2>2, <2>4, <3>1, StepTypes, Elsewhere
  <2>. QED
    BY <2>3, <2>4 DEF IInv
<1>2. CASE UNCHANGED frameVars
  <2>1. TypeOK'
    BY <1>2 DEF frameVars, TypeOK, IInv
  <2>2. ASSUME NEW p \in Pipes PROVE PipeInv(p)'
    BY <1>2, Elsewhere DEF frameVars, IInv
  <2>. QED
    BY <2>1, <2>2 DEF IInv
<1>. QED
  BY <1>1, <1>2

LEMMA Invariance == FrameSpec => []IInv
BY InitInv, NextInv, PTL DEF FrameSpec

(* Type correctness of the streams, the buffers and the readers
   (RPCChannel::onMessage and the two senders). *)
THEOREM FramingTypeOK == FrameSpec => []TypeOK
<1>1. IInv => TypeOK
  BY DEF IInv
<1>. QED
  BY <1>1, Invariance, PTL

(* onMessage never takes the bytes inside a message for a length: between two
   iterations of its loop it stands at the first byte of a message. *)
THEOREM FramingAligned == FrameSpec => []Aligned
<1>1. IInv => Aligned
  BY DEF IInv, PipeInv, Aligned
<1>. QED
  BY <1>1, Invariance, PTL

(* When onMessage returns, no message is left that it could have handled,
   unless the header of the one before did not parse. *)
THEOREM FramingNothingLingers == FrameSpec => []NothingLingers
<1>1. IInv => NothingLingers
  BY DEF IInv, PipeInv, NothingLingers
<1>. QED
  BY <1>1, Invariance, PTL

-----------------------------------------------------------------------------
(* The refinement. *)

\* The queue of a pipe, as OrderedPipe sees it.
Queue(s) == [i \in 1..Len(s) |-> [body |-> s[i].body, sound |-> Valid(s[i].len)]]

Queues == [p \in Pipes |-> [i \in 1..Len(stream[p]) |->
                [body |-> stream[p][i].body, sound |-> Valid(stream[p][i].len)]]]

LEMMA QueueOf ==
    ASSUME TypeOK, NEW p \in Pipes
    PROVE  /\ Queues[p] = Queue(stream[p])
           /\ Len(Queues[p]) = Len(stream[p])
           /\ \A i \in DOMAIN stream[p] : Queues[p][i].body = stream[p][i].body
                                          /\ Queues[p][i].sound = Valid(stream[p][i].len)
BY PipeTypes DEF Queues, Queue

\* Writing a frame puts it behind the queue.
LEMMA QueueAppend ==
    ASSUME NEW s \in Seq(Frame), NEW e \in Frame
    PROVE  Queue(Append(s, e)) = Append(Queue(s), [body |-> e.body, sound |-> Valid(e.len)])
<1>. DEFINE E == [body |-> Frame, sound |-> BOOLEAN]
            r(f) == [body |-> f.body, sound |-> Valid(f.len)]
<1>1. /\ Len(Append(s, e)) = Len(s) + 1 /\ Len(s) \in Nat
      /\ \A i \in 1..Len(s) : Append(s, e)[i] = s[i]
      /\ Append(s, e)[Len(s) + 1] = e
  BY BackFacts
<1>2. Queue(Append(s, e)) = [i \in 1..(Len(s) + 1) |-> r(Append(s, e)[i])]
  BY <1>1 DEF Queue
<1>3. Queue(s) = [i \in 1..Len(s) |-> r(s[i])]
  BY DEF Queue
<1>4. Queue(s) \in Seq({r(f) : f \in Frame}) /\ Len(Queue(s)) = Len(s)
      /\ r(e) \in {r(f) : f \in Frame}
  <2>1. \A i \in 1..Len(s) : s[i] \in Frame
    OBVIOUS
  <2>2. \A i \in 1..Len(s) : r(s[i]) \in {r(f) : f \in Frame}
    BY <2>1
  <2>. HIDE DEF r
  <2>. QED
    BY <1>1, <1>3, <2>2
<1>. HIDE DEF r
<1>5. /\ Len(Append(Queue(s), r(e))) = Len(s) + 1
      /\ DOMAIN Append(Queue(s), r(e)) = 1..(Len(s) + 1)
      /\ \A i \in 1..Len(s) : Append(Queue(s), r(e))[i] = r(s[i])
      /\ Append(Queue(s), r(e))[Len(s) + 1] = r(e)
  BY <1>1, <1>3, <1>4
<1>6. Append(Queue(s), r(e)) = [i \in 1..(Len(s) + 1) |-> Append(Queue(s), r(e))[i]]
  <2>1. Append(Queue(s), r(e)) \in Seq({r(f) : f \in Frame})
    BY <1>4
  <2>2. ASSUME NEW S, NEW q \in Seq(S), NEW n, DOMAIN q = 1..n
        PROVE  q = [i \in 1..n |-> q[i]]
    BY <2>2
  <2>. QED
    BY <2>1, <2>2, <1>5
<1>7. \A i \in 1..(Len(s) + 1) : Append(Queue(s), r(e))[i] = r(Append(s, e)[i])
  BY <1>1, <1>5
<1>8. Append(Queue(s), r(e)) = Queue(Append(s, e))
  BY <1>2, <1>6, <1>7
<1>. QED
  BY <1>8 DEF r

\* What does not write leaves the queues alone; what writes, appends to one.
LEMMA QueuesOfWrite ==
    ASSUME TypeOK, NEW p \in Pipes, NEW n \in Nat, NEW b \in Bodies \cup {<<>>}, Write(p, n, b)
    PROVE  Queues' = [Queues EXCEPT ![p] = Append(@, [body |-> b, sound |-> Valid(n)])]
<1>. DEFINE e == NewFrame(p, n, b)
<1>1. /\ e \in Frame
      /\ stream' = [stream EXCEPT ![p] = Append(stream[p], e)]
  BY WriteFacts
<1>2. Queue(Append(stream[p], e)) = Append(Queue(stream[p]), [body |-> e.body, sound |-> Valid(e.len)])
  BY <1>1, QueueAppend, PipeTypes
<1>3. e.body = b /\ e.len = n
  BY DEF NewFrame
<1>4. Queues = [q \in Pipes |-> Queue(stream[q])]
  BY DEF Queues, Queue
<1>5. Queues' = [q \in Pipes |-> Queue(stream'[q])]
  BY DEF Queues, Queue
<1>6. stream'[p] = Append(stream[p], e) /\ \A q \in Pipes : q # p => stream'[q] = stream[q]
  BY <1>1 DEF TypeOK
<1>7. \A q \in Pipes : Queue(stream'[q]) =
         IF q = p THEN Append(Queue(stream[p]), [body |-> b, sound |-> Valid(n)])
         ELSE Queue(stream[q])
  BY <1>2, <1>3, <1>6
<1>. QED
  BY <1>4, <1>5, <1>7

LEMMA InitRefines == FrameInit => Ordered!PipeInit
<1>. SUFFICES ASSUME FrameInit PROVE Ordered!PipeInit
  OBVIOUS
<1>1. ASSUME NEW p \in Pipes PROVE Queue(stream[p]) = <<>>
  <2>1. stream[p] = <<>> /\ 1..Len(<<>>) = {}
    BY DEF FrameInit
  <2>. QED
    BY <2>1 DEF Queue
<1>2. Queues = [p \in Pipes |-> <<>>]
  BY <1>1 DEF Queues, Queue
<1>. QED
  BY <1>2 DEF FrameInit, Ordered!PipeInit, Queues

LEMMA NextRefines ==
    IInv /\ [FrameNext]_frameVars => [Ordered!PipeNext]_(Ordered!pipeVars)
<1>. SUFFICES ASSUME IInv, [FrameNext]_frameVars
              PROVE  [Ordered!PipeNext]_(Ordered!pipeVars)
  OBVIOUS
<1>0. /\ TypeOK
      /\ Ordered!pipeVars = <<Queues, taken, handled, refused>>
      /\ Ordered!pipeVars' = <<Queues', taken', handled', refused'>>
  BY DEF IInv, Ordered!pipeVars, Queues
<1>1. stream' = stream => Queues' = Queues
  BY DEF Queues
<1>2. ASSUME NEW p \in Pipes, NEW n \in Nat, NEW b \in Bodies \cup {<<>>}, Write(p, n, b)
      PROVE  Ordered!Put(p)
  <2>1. /\ Queues' = [Queues EXCEPT ![p] = Append(@, [body |-> b, sound |-> Valid(n)])]
        /\ UNCHANGED <<taken, handled, refused>>
    BY <1>0, <1>2, QueuesOfWrite DEF Write
  <2>2. Valid(n) \in BOOLEAN
    BY DEF Valid
  <2>. QED
    BY <2>1, <2>2 DEF Ordered!Put, Queues
<1>3. ASSUME NEW p \in Pipes, NEW f \in Frames(p), Complete(p, f), Retrieve(p, f)
      PROVE  /\ Ordered!Pending(p) /\ ~refused[p]
             /\ Queues[p][taken[p] + 1].body = f.body
             /\ Queues[p][taken[p] + 1].sound
             /\ taken' = [taken EXCEPT ![p] = @ + 1]
             /\ UNCHANGED <<stream, refused>> /\ Queues' = Queues
  <2>1. /\ f = stream[p][taken[p] + 1] /\ taken[p] < Len(stream[p])
        /\ taken[p] + 1 \in DOMAIN stream[p] /\ ~refused[p]
        /\ taken' = [taken EXCEPT ![p] = @ + 1]
        /\ UNCHANGED <<stream, refused>>
    BY <1>0, <1>3, RetrieveFacts DEF IInv
  <2>2. Valid(f.len)
    BY <1>3 DEF Complete
  <2>3. Ordered!Pending(p)
    BY <1>0, <2>1, QueueOf DEF Ordered!Pending, Queues
  <2>. QED
    BY <1>0, <1>1, <2>1, <2>2, <2>3, QueueOf
<1>4. CASE FrameNext
  <2>1. PICK p \in Pipes : PipeStep(p)
    BY <1>4 DEF FrameNext, PipeStep
  <2>2. CASE (\E b \in Bodies : Send(p, b)) \/ (\E n \in BadLengths : SendBadLength(p, n))
    BY <2>2, <1>2, Writes DEF Ordered!PipeNext
  <2>3. CASE \E to \in 1..Written(p) : Arrive(p, to)
    BY <2>3, <1>0, <1>1 DEF Arrive
  <2>4. CASE HalfPacket(p)
    BY <2>4, <1>0, <1>1 DEF HalfPacket
  <2>5. CASE InvalidLength(p)
    <3>1. PICK f \in Frames(p) : Peeked(p, f) /\ ~Valid(f.len)
      BY <2>5 DEF InvalidLength
    <3>2. /\ f = stream[p][taken[p] + 1] /\ taken[p] < Len(stream[p])
          /\ taken[p] + 1 \in DOMAIN stream[p]
      BY <3>1, <1>0, AtReader DEF IInv, Peeked
    <3>3. Ordered!Pending(p) /\ ~Queues[p][taken[p] + 1].sound
      BY <3>1, <3>2, <1>0, QueueOf DEF Ordered!Pending, Queues
    <3>4. /\ refused' = [refused EXCEPT ![p] = TRUE]
          /\ UNCHANGED <<stream, handled, taken>>
      BY <2>5 DEF InvalidLength
    <3>5. Ordered!Close(p)
      BY <3>3, <3>4, <1>1 DEF Ordered!Close, Queues
    <3>. QED
      BY <3>5 DEF Ordered!PipeNext
  <2>6. CASE ParseFails(p)
    <3>1. PICK f \in Frames(p) : Complete(p, f) /\ ~Parses(f.body) /\ Retrieve(p, f)
      BY <2>6 DEF ParseFails
    <3>2. UNCHANGED handled
      BY <2>6 DEF ParseFails
    <3>3. Ordered!Skip(p)
      BY <1>3, <3>1, <3>2 DEF Ordered!Skip, Ordered!Step, Queues
    <3>. QED
      BY <3>3 DEF Ordered!PipeNext
  <2>7. CASE \E f \in Frames(p) : TakeMessage(p, f)
    <3>1. PICK f \in Frames(p) : TakeMessage(p, f)
      BY <2>7
    <3>2. /\ Complete(p, f) /\ Parses(f.body) /\ Retrieve(p, f)
          /\ handled' = [handled EXCEPT ![p] = Append(@, f.body)]
      BY <3>1 DEF TakeMessage
    <3>3. Ordered!Deliver(p)
      BY <1>3, <3>2 DEF Ordered!Deliver, Ordered!Step, Queues
    <3>. QED
      BY <3>3 DEF Ordered!PipeNext
  <2>. QED
    BY <2>1, <2>2, <2>3, <2>4, <2>5, <2>6, <2>7 DEF PipeStep
<1>5. CASE UNCHANGED frameVars
  BY <1>5, <1>0, <1>1 DEF frameVars
<1>. QED
  BY <1>4, <1>5

(* However the bytes are cut, each pipe hands over the messages that parse,
   in order and once, and stops for good at a bad length: the length prefix of
   CallMethod and doneCallback with the loop of onMessage is an ordered
   channel of messages. *)
THEOREM FramingRefinement == FrameSpec => ImplementsOrderedPipe
<1>1. FrameInit => Ordered!PipeInit
  BY InitRefines
<1>2. IInv /\ [FrameNext]_frameVars => [Ordered!PipeNext]_(Ordered!pipeVars)
  BY NextRefines
<1>. QED
  BY <1>1, <1>2, Invariance, PTL DEF FrameSpec, ImplementsOrderedPipe, Ordered!PipeSpec
=============================================================================
