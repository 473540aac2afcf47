--------------------------- MODULE PeerStreamProofs --------------------------
(***************************************************************************)
(* For all clips, limits, pipes, notices and faults: no end of a peer      *)
(* connection gives it up for what it read (FramesAlwaysHold), and each    *)
(* direction is step by step a queue of whole messages (StreamIsQueue).    *)
(***************************************************************************)
EXTENDS PeerStream, SequenceTheorems, WellFoundedInduction, TLAPS

\* After one piece comes the next of its message, then the head of another: the
\* hello after the command, and then neither again.
Follows(p, q) ==
    IF p.part < p.of.size THEN q = Piece(p.of, p.part + 1)
    ELSE /\ q.part = 0
         /\ IF p = Command THEN q.of = Hello ELSE q.of \notin {Nothing, Hello}

Chained(s) == \A i \in 1 .. Len(s) - 1 : Follows(s[i], s[i + 1])

\* The last message in s is there to its end.
Whole(s) == s # <<>> => s[Len(s)].of # Nothing /\ s[Len(s)].part = s[Len(s)].of.size

\* What may come first on the way to an end, by its stage.
Opens(at, p) ==
    /\ p.part = 0
    /\ at = "command" => p = Command
    /\ at = "hello" => p.of = Hello
    /\ at = "up" => p.of \notin {Nothing, Hello}

LineInOrder(e) ==
    /\ Chained(Line(e))
    /\ Line(e) # <<>> => Opens(stage[e], Line(e)[1])
    /\ e \in old => \A i \in 1 .. Len(Line(e)) : Line(e)[i].of # News
    /\ ~cut => Whole(Line(e))

\* What has been read of a message is its beginning.
PartRead(e) ==
    /\ \A i \in 1 .. Len(reading[e]) : reading[e][i] = Piece(reading[e][1].of, i - 1)
    /\ reading[e] # <<>> => stage[e] = "up" /\ Len(reading[e]) <= reading[e][1].of.size

StagesInOrder ==
    /\ \A e \in End : stage[e] = "down" =>
          cut /\ pipe[e] = <<>> /\ reading[e] = <<>> /\ writing[e] = <<>>
    /\ stage["dialer"] # "command"
    /\ stage["acceptor"] = "command" => reading["acceptor"] = <<>> /\ writing["acceptor"] = <<>>
    /\ stage["acceptor"] \in {"down", "command"} => ahead = <<>>

\* Until something breaks, an end that has no hello of the other yet has it on its
\* way, but for the one the command is on its way to.
Handshake ==
    ~cut => /\ stage["acceptor"] = "command" =>
                  /\ Line("dialer") = <<>> /\ stage["dialer"] = "hello"
                  /\ pipe["acceptor"] # <<>>
            /\ \A e \in End : stage[e] = "hello" /\ Line(e) = <<>> => stage[Other(e)] = "command"

Orderly ==
    /\ \A e \in End : LineInOrder(e) /\ PartRead(e)
    /\ StagesInOrder /\ Handshake

IInv == TypeOK /\ ~misread /\ Orderly

-----------------------------------------------------------------------------
(* Pieces and chains of them. *)

LEMMA Sizes == \A m \in Message \cup {Nothing} : m.size \in Nat
<1>1. Size \subseteq Nat
  BY StreamAssumption DEF Size
<1>2. QED
  BY <1>1 DEF Message, Hello, News, Clip, Nothing

LEMMA PieceTyped ==
    ASSUME NEW p \in PieceSet
    PROVE  /\ p.of \in Message \cup {Nothing} /\ p.of.size \in Nat
           /\ p.part \in 0 .. p.of.size
           /\ p = Piece(p.of, p.part)
           /\ p.of = Nothing => p = Command
<1>1. CASE p = Command
  BY <1>1, Sizes DEF Command, Nothing, Piece
<1>2. ASSUME NEW m \in Message, NEW k \in 0 .. m.size, p = Piece(m, k)
      PROVE  /\ p.of \in Message /\ p.of.size \in Nat
             /\ p.part \in 0 .. p.of.size
             /\ p = Piece(p.of, p.part)
  BY <1>2, Sizes DEF Piece
<1>3. Nothing \notin Message
  BY DEF Nothing, Message, Hello, News, Clip
<1>4. QED
  BY <1>1, <1>2, <1>3 DEF PieceSet

LEMMA FrameTyped ==
    ASSUME NEW m \in Message
    PROVE  /\ Frame(m) \in Seq(PieceSet) /\ Len(Frame(m)) = 1 + m.size
           /\ m.size \in Nat /\ Frame(m) # <<>>
           /\ \A i \in 1 .. 1 + m.size : Frame(m)[i] = Piece(m, i - 1)
<1>1. m.size \in Nat
  BY Sizes
<1>2. \A i \in 1 .. 1 + m.size : Piece(m, i - 1) \in PieceSet
  <2>1. \A i \in 1 .. 1 + m.size : i - 1 \in 0 .. m.size
    BY <1>1
  <2>2. QED
    BY <2>1 DEF PieceSet
<1>3. Frame(m) \in [1 .. 1 + m.size -> PieceSet] /\ 1 + m.size \in Nat
  BY <1>1, <1>2 DEF Frame
<1>4. Frame(m) \in Seq(PieceSet) /\ Len(Frame(m)) = 1 + m.size
  BY <1>3, IsASeq, LenProperties
<1>5. QED
  BY <1>1, <1>4, EmptySeq DEF Frame

LEMMA ChainedPart ==
    ASSUME NEW s \in Seq(PieceSet), Chained(s), NEW a \in 1 .. Len(s) + 1, NEW b \in 0 .. Len(s)
    PROVE  SubSeq(s, a, b) \in Seq(PieceSet) /\ Chained(SubSeq(s, a, b))
<1> DEFINE t == SubSeq(s, a, b)
<1>0. Len(s) \in Nat /\ a \in Int /\ b \in Int /\ \A i \in a .. b : s[i] \in PieceSet
  BY ElementOfSeq, LenProperties
<1>1. /\ t \in Seq(PieceSet) /\ Len(t) = (IF a <= b THEN b - a + 1 ELSE 0)
      /\ \A i \in 1 .. b - a + 1 : t[i] = s[a + i - 1]
  BY <1>0, SubSeqProperties
<1>2. ASSUME NEW i \in 1 .. Len(t) - 1 PROVE Follows(t[i], t[i + 1])
  <2>1. t[i] = s[a + i - 1] /\ t[i + 1] = s[a + i - 1 + 1] /\ a + i - 1 \in 1 .. Len(s) - 1
    BY <1>0, <1>1
  <2>2. QED
    BY <2>1 DEF Chained
<1>3. QED
  BY <1>1, <1>2 DEF Chained

\* A frame may be appended to whole ones that it may follow.
LEMMA ChainedFrame ==
    ASSUME NEW s \in Seq(PieceSet), Chained(s), NEW m \in Message,
           s # <<>> => Follows(s[Len(s)], Piece(m, 0))
    PROVE  Chained(s \o Frame(m)) /\ Whole(s \o Frame(m))
<1> DEFINE f == Frame(m)
           t == s \o f
           n == m.size
<1>0. /\ f \in Seq(PieceSet) /\ Len(f) = 1 + n /\ n \in Nat /\ Len(s) \in Nat
      /\ \A i \in 1 .. 1 + n : f[i] = Piece(m, i - 1)
  BY FrameTyped, LenProperties
<1> HIDE DEF f, n
<1>1. /\ t \in Seq(PieceSet) /\ Len(t) = Len(s) + 1 + n
      /\ \A i \in 1 .. Len(s) + 1 + n :
             t[i] = IF i <= Len(s) THEN s[i] ELSE f[i - Len(s)]
  <2>1. /\ t \in Seq(PieceSet) /\ Len(t) = Len(s) + Len(f)
        /\ \A i \in 1 .. Len(s) + Len(f) : t[i] = IF i <= Len(s) THEN s[i] ELSE f[i - Len(s)]
    BY <1>0, ConcatProperties, Zenon
  <2>2. Len(s) + Len(f) = Len(s) + 1 + n
    BY <1>0
  <2>3. QED
    BY <2>1, <2>2
<1> HIDE DEF t
<1>2. ASSUME NEW i \in 1 .. Len(t) - 1 PROVE Follows(t[i], t[i + 1])
  <2>0. i \in 1 .. Len(s) + n /\ Len(s) \in Nat /\ n \in Nat
    <3>1. Len(t) - 1 = Len(s) + n
      BY <1>0, <1>1
    <3>2. QED
      BY <1>0, <3>1
  <2>1. CASE i < Len(s)
    <3>1. t[i] = s[i] /\ t[i + 1] = s[i + 1] /\ i \in 1 .. Len(s) - 1
      BY <1>0, <1>1, <2>1
    <3>2. QED
      BY <3>1 DEF Chained
  <2>2. CASE i = Len(s)
    <3>1. t[i] = s[Len(s)] /\ t[i + 1] = f[1] /\ s # <<>>
      BY <1>0, <1>1, <2>2, EmptySeq
    <3>2. f[1] = Piece(m, 0)
      BY <1>0
    <3>3. QED
      BY <3>1, <3>2
  <2>3. CASE i > Len(s)
    <3>1. /\ t[i] = f[i - Len(s)] /\ t[i + 1] = f[i - Len(s) + 1]
          /\ i - Len(s) \in 1 .. n
      <4>1. /\ i \in 1 .. Len(s) + 1 + n /\ i + 1 \in 1 .. Len(s) + 1 + n
            /\ ~(i <= Len(s)) /\ ~(i + 1 <= Len(s)) /\ i + 1 - Len(s) = i - Len(s) + 1
            /\ i - Len(s) \in 1 .. n
        BY <2>0, <2>3
      <4>2. QED
        BY <1>1, <4>1
    <3>2. f[i - Len(s)] = Piece(m, i - Len(s) - 1) /\ f[i - Len(s) + 1] = Piece(m, i - Len(s))
      BY <1>0, <3>1
    <3>3. QED
      BY <1>0, <3>1, <3>2 DEF Follows, Piece, n
  <2>4. QED
    BY <1>0, <1>1, <2>1, <2>2, <2>3
<1>3. t[Len(t)] = Piece(m, n)
  <2>1. t[Len(t)] = f[1 + n]
    BY <1>0, <1>1
  <2>2. QED
    BY <1>0, <2>1
<1>4. m # Nothing
  BY DEF Message, Hello, News, Clip, Nothing
<1>5. Whole(t)
  BY <1>3, <1>4 DEF Whole, Piece, n
<1>6. QED
  BY <1>2, <1>5 DEF Chained, t, f

-----------------------------------------------------------------------------
(* Sequences put together of three: what was read, what can be read, and what is *)
(* still to be written.                                                          *)

Cat(r, a) == r \o a
Joined(r, a, w) == r \o a \o w

LEMMA Triple ==
    ASSUME NEW S, NEW r \in Seq(S), NEW a \in Seq(S), NEW w \in Seq(S)
    PROVE  /\ Len(r) \in Nat /\ Len(a) \in Nat /\ Len(w) \in Nat
           /\ Joined(r, a, w) \in Seq(S) /\ Len(Joined(r, a, w)) = Len(r) + Len(a) + Len(w)
           /\ \A i \in 1 .. Len(r) + Len(a) + Len(w) :
                 Joined(r, a, w)[i] = IF i <= Len(r) THEN r[i]
                                      ELSE IF i <= Len(r) + Len(a) THEN a[i - Len(r)]
                                      ELSE w[i - Len(r) - Len(a)]
<1> DEFINE b == r \o a
<1>0. Len(r) \in Nat /\ Len(a) \in Nat /\ Len(w) \in Nat
  BY LenProperties
<1>1. /\ b \in Seq(S) /\ Len(b) = Len(r) + Len(a)
      /\ \A i \in 1 .. Len(r) + Len(a) : b[i] = IF i <= Len(r) THEN r[i] ELSE a[i - Len(r)]
  BY ConcatProperties
<1> HIDE DEF b
<1>2. /\ b \o w \in Seq(S) /\ Len(b \o w) = Len(b) + Len(w)
      /\ \A i \in 1 .. Len(b) + Len(w) : (b \o w)[i] = IF i <= Len(b) THEN b[i] ELSE w[i - Len(b)]
  <2>1. b \in Seq(S)
    BY <1>1
  <2>2. QED
    BY <2>1, ConcatProperties, Zenon
<1>3. ASSUME NEW i \in 1 .. Len(r) + Len(a) + Len(w)
      PROVE  (b \o w)[i] = IF i <= Len(r) THEN r[i]
                           ELSE IF i <= Len(r) + Len(a) THEN a[i - Len(r)]
                           ELSE w[i - Len(r) - Len(a)]
  <2>1. i \in Int /\ i \in 1 .. Len(b) + Len(w)
    BY <1>0, <1>1
  <2>2. CASE i <= Len(r) + Len(a)
    <3>1. i \in 1 .. Len(r) + Len(a) /\ i <= Len(b)
      BY <1>1, <2>1, <2>2
    <3>2. QED
      BY <1>1, <1>2, <2>1, <2>2, <3>1
  <2>3. CASE i > Len(r) + Len(a)
    <3>1. ~(i <= Len(b)) /\ ~(i <= Len(r)) /\ i - Len(b) = i - Len(r) - Len(a)
      BY <1>0, <1>1, <2>1, <2>3
    <3>2. QED
      BY <1>0, <1>2, <2>1, <2>3, <3>1
  <2>4. QED
    BY <1>0, <2>1, <2>2, <2>3
<1>4. Len(b \o w) = Len(r) + Len(a) + Len(w)
  BY <1>1, <1>2
<1>5. QED
  BY <1>0, <1>2, <1>3, <1>4 DEF b, Joined

\* Reading a piece leaves the line as it is.
LEMMA ReadShifts ==
    ASSUME NEW S, NEW r \in Seq(S), NEW a \in Seq(S), NEW w \in Seq(S), a # <<>>
    PROVE  /\ Head(a) \in S /\ Tail(a) \in Seq(S)
           /\ Joined(Append(r, Head(a)), Tail(a), w) = Joined(r, a, w)
           /\ Joined(r, a, w)[Len(r) + 1] = Head(a)
<1> DEFINE h == Head(a)  t == Tail(a)  q == Append(r, h)
<1>1. /\ h \in S /\ h = a[1] /\ t \in Seq(S) /\ Len(t) = Len(a) - 1 /\ Len(a) \in Nat \ {0}
      /\ \A i \in 1 .. Len(t) : t[i] = a[i + 1]
  BY HeadTailProperties, EmptySeq
<1> HIDE DEF h, t
<1>2. /\ q \in Seq(S) /\ Len(q) = Len(r) + 1 /\ q[Len(r) + 1] = h
      /\ \A i \in 1 .. Len(r) : q[i] = r[i]
  BY <1>1, AppendProperties
<1> HIDE DEF q
<1>3. /\ Len(q) \in Nat /\ Len(t) \in Nat /\ Len(w) \in Nat /\ Len(r) \in Nat
      /\ q \o t \o w \in Seq(S) /\ Len(q \o t \o w) = Len(q) + Len(t) + Len(w)
      /\ \A i \in 1 .. Len(q) + Len(t) + Len(w) :
             (q \o t \o w)[i] = IF i <= Len(q) THEN q[i]
                                ELSE IF i <= Len(q) + Len(t) THEN t[i - Len(q)]
                                ELSE w[i - Len(q) - Len(t)]
  <2>1. q \in Seq(S) /\ t \in Seq(S)
    BY <1>1, <1>2
  <2>2. Len(r) \in Nat
    BY LenProperties
  <2>3. QED
    BY <2>1, <2>2, Triple DEF Joined
<1>4. /\ r \o a \o w \in Seq(S) /\ Len(r \o a \o w) = Len(r) + Len(a) + Len(w)
      /\ \A i \in 1 .. Len(r) + Len(a) + Len(w) :
             (r \o a \o w)[i] = IF i <= Len(r) THEN r[i]
                                ELSE IF i <= Len(r) + Len(a) THEN a[i - Len(r)]
                                ELSE w[i - Len(r) - Len(a)]
  BY Triple DEF Joined
<1>5. Len(q) + Len(t) + Len(w) = Len(r) + Len(a) + Len(w)
  BY <1>1, <1>2, <1>3
<1>6. ASSUME NEW i \in 1 .. Len(r) + Len(a) + Len(w)
      PROVE  (q \o t \o w)[i] = (r \o a \o w)[i]
  <2>0. i \in Int /\ i \in 1 .. Len(q) + Len(t) + Len(w)
    BY <1>3, <1>5
  <2>1. CASE i <= Len(r)
    <3>1. i \in 1 .. Len(r) /\ i <= Len(q)
      BY <1>2, <1>3, <2>0, <2>1
    <3>2. QED
      BY <1>2, <1>3, <1>4, <2>0, <2>1, <3>1
  <2>2. CASE i = Len(r) + 1
    <3>1. i <= Len(q) /\ ~(i <= Len(r)) /\ i <= Len(r) + Len(a) /\ i - Len(r) = 1
      BY <1>1, <1>2, <1>3, <2>0, <2>2
    <3>2. QED
      BY <1>1, <1>2, <1>3, <1>4, <2>0, <2>2, <3>1
  <2>3. CASE i > Len(r) + 1 /\ i <= Len(r) + Len(a)
    <3>1. /\ ~(i <= Len(q)) /\ i <= Len(q) + Len(t) /\ i - Len(q) \in 1 .. Len(t)
          /\ ~(i <= Len(r)) /\ i - Len(q) + 1 = i - Len(r)
      BY <1>1, <1>2, <1>3, <2>0, <2>3
    <3>2. (q \o t \o w)[i] = t[i - Len(q)] /\ (r \o a \o w)[i] = a[i - Len(r)]
      BY <1>3, <1>4, <2>0, <2>3, <3>1
    <3>3. QED
      BY <1>1, <3>1, <3>2
  <2>4. CASE i > Len(r) + Len(a)
    <3>1. /\ ~(i <= Len(q)) /\ ~(i <= Len(q) + Len(t)) /\ ~(i <= Len(r))
          /\ i - Len(q) - Len(t) = i - Len(r) - Len(a)
      BY <1>1, <1>2, <1>3, <2>0, <2>4
    <3>2. (q \o t \o w)[i] = w[i - Len(q) - Len(t)] /\ (r \o a \o w)[i] = w[i - Len(r) - Len(a)]
      BY <1>3, <1>4, <2>0, <2>4, <3>1
    <3>3. QED
      BY <3>1, <3>2
  <2>5. i <= Len(r) \/ i = Len(r) + 1 \/ (i > Len(r) + 1 /\ i <= Len(r) + Len(a)) \/ i > Len(r) + Len(a)
    <3>1. i \in Int /\ Len(r) \in Nat /\ Len(a) \in Nat
      BY <1>1, <1>3, <2>0
    <3>2. QED
      BY <3>1
  <2>6. QED
    BY <2>1, <2>2, <2>3, <2>4, <2>5
<1>7. q \o t \o w = r \o a \o w
  BY <1>3, <1>4, <1>5, <1>6, SeqEqual
<1>8. (r \o a \o w)[Len(r) + 1] = a[1]
  <2>1. /\ Len(r) + 1 \in 1 .. Len(r) + Len(a) + Len(w) /\ ~(Len(r) + 1 <= Len(r))
        /\ Len(r) + 1 <= Len(r) + Len(a) /\ Len(r) + 1 - Len(r) = 1
    BY <1>1, <1>3
  <2>2. QED
    BY <1>4, <2>1
<1>9. QED
  BY <1>1, <1>7, <1>8 DEF q, h, t, Joined

\* So does writing one.
LEMMA WriteShifts ==
    ASSUME NEW S, NEW r \in Seq(S), NEW a \in Seq(S), NEW w \in Seq(S), w # <<>>
    PROVE  Joined(r, Append(a, Head(w)), Tail(w)) = Joined(r, a, w)
<1> DEFINE b == r \o a  h == Head(w)  t == Tail(w)
<1>1. b \in Seq(S) /\ h \in S /\ t \in Seq(S) /\ <<>> \in Seq(S) /\ <<h>> \in Seq(S)
  BY ConcatProperties, HeadTailProperties, EmptySeq
<1>2. Append(b, h) \o t \o <<>> = b \o w \o <<>>
  <2>1. b \in Seq(S) /\ <<>> \in Seq(S)
    BY <1>1
  <2> HIDE DEF b
  <2>2. QED
    BY <2>1, ReadShifts DEF Joined
<1>3. Append(b, h) \in Seq(S) /\ Append(a, h) \in Seq(S)
  BY <1>1, AppendProperties
<1>4. Append(b, h) \o t \in Seq(S) /\ b \o w \in Seq(S)
  <2> HIDE DEF b, t, h
  <2> QED
    BY <1>1, <1>3, ConcatProperties
<1>5. Append(b, h) \o t = b \o w
  <2> HIDE DEF b, t, h
  <2> QED
    BY <1>2, <1>4, ConcatEmptySeq
<1>6. Append(b, h) = r \o Append(a, h)
  <2>1. Append(a, h) = a \o <<h>> /\ Append(b, h) = b \o <<h>>
    BY <1>1, AppendIsConcat
  <2>2. (r \o a) \o <<h>> = r \o (a \o <<h>>)
    BY <1>1, ConcatAssociative
  <2>3. QED
    BY <2>1, <2>2
<1>7. QED
  BY <1>5, <1>6 DEF Joined

\* What gets through when a connection ends is the beginning of the line.
LEMMA CutIsPrefix ==
    ASSUME NEW S, NEW r \in Seq(S), NEW a \in Seq(S), NEW w \in Seq(S), NEW k \in 0 .. Len(a)
    PROVE  /\ SubSeq(a, 1, k) \in Seq(S) /\ Len(SubSeq(a, 1, k)) = k
           /\ Len(r) + k \in 0 .. Len(Joined(r, a, w))
           /\ Cat(r, SubSeq(a, 1, k)) = SubSeq(Joined(r, a, w), 1, Len(r) + k)
<1> DEFINE b == SubSeq(a, 1, k)
           s == r \o a \o w
           n == Len(r) + k
           p == SubSeq(s, 1, n)
<1>1. /\ Len(r) \in Nat /\ Len(a) \in Nat /\ Len(w) \in Nat
      /\ s \in Seq(S) /\ Len(s) = Len(r) + Len(a) + Len(w)
      /\ \A i \in 1 .. Len(r) + Len(a) + Len(w) :
            s[i] = IF i <= Len(r) THEN r[i]
                   ELSE IF i <= Len(r) + Len(a) THEN a[i - Len(r)]
                   ELSE w[i - Len(r) - Len(a)]
  BY Triple DEF Joined
<1>2. b \in Seq(S) /\ Len(b) = k /\ \A i \in 1 .. k : b[i] = a[i]
  <2>1. k \in Nat /\ \A i \in 1 .. k : a[i] \in S
    BY <1>1, ElementOfSeq
  <2>2. k \in Int /\ 1 \in Int /\ k - 1 + 1 = k /\ (1 <= k \/ k = 0) /\ \A i \in 1 .. k : 1 + i - 1 = i
    BY <2>1
  <2>3. /\ b \in Seq(S) /\ Len(b) = (IF 1 <= k THEN k - 1 + 1 ELSE 0)
        /\ \A i \in 1 .. k - 1 + 1 : b[i] = a[1 + i - 1]
    BY <2>1, <2>2, SubSeqProperties
  <2> HIDE DEF b
  <2>4. QED
    BY <2>2, <2>3
<1>3. n \in 0 .. Len(s) /\ n \in Nat
  BY <1>1
<1>4. p \in Seq(S) /\ Len(p) = n /\ \A i \in 1 .. n : p[i] = s[i]
  <2> HIDE DEF s, n
  <2>1. n \in Nat /\ \A i \in 1 .. n : s[i] \in S
    BY <1>1, <1>3, ElementOfSeq
  <2>2. n \in Int /\ 1 \in Int /\ n - 1 + 1 = n /\ (1 <= n \/ n = 0) /\ \A i \in 1 .. n : 1 + i - 1 = i
    BY <2>1
  <2>3. /\ p \in Seq(S) /\ Len(p) = (IF 1 <= n THEN n - 1 + 1 ELSE 0)
        /\ \A i \in 1 .. n - 1 + 1 : p[i] = s[1 + i - 1]
    BY <2>1, <2>2, SubSeqProperties
  <2> HIDE DEF p
  <2>4. QED
    BY <2>2, <2>3
<1> HIDE DEF b, s, p
<1>5. /\ r \o b \in Seq(S) /\ Len(r \o b) = Len(r) + Len(b)
      /\ \A i \in 1 .. Len(r) + Len(b) : (r \o b)[i] = IF i <= Len(r) THEN r[i] ELSE b[i - Len(r)]
  <2>1. b \in Seq(S)
    BY <1>2
  <2>2. /\ r \o b \in Seq(S) /\ Len(r \o b) = Len(r) + Len(b)
        /\ \A i \in 1 .. Len(r) + Len(b) : (r \o b)[i] = IF i <= Len(r) THEN r[i] ELSE b[i - Len(r)]
    BY <2>1, ConcatProperties, Zenon
  <2>3. QED
    BY <2>2
<1>6. ASSUME NEW i \in 1 .. n PROVE (r \o b)[i] = p[i]
  <2>1. /\ i \in Int /\ i \in 1 .. Len(r) + Len(b) /\ i \in 1 .. Len(r) + Len(a) + Len(w)
        /\ i <= Len(r) + Len(a) /\ p[i] = s[i] /\ (~(i <= Len(r)) => i - Len(r) \in 1 .. k)
    BY <1>1, <1>2, <1>4
  <2>2. QED
    BY <1>1, <1>2, <1>5, <2>1
<1>7. Len(r \o b) = Len(p)
  BY <1>2, <1>4, <1>5
<1>8. r \o b = p
  <2>1. Len(r \o b) = n
    BY <1>2, <1>5
  <2>2. QED
    BY <1>4, <1>5, <1>6, <1>7, <2>1, SeqEqual
<1>9. QED
  BY <1>2, <1>3, <1>5, <1>8 DEF b, s, p, Joined, Cat

LEMMA ConcatCut ==
    ASSUME NEW S, NEW a \in Seq(S), NEW p \in Seq(S), NEW k \in 0 .. Len(p)
    PROVE  \E n \in 0 .. Len(Cat(a, p)) : Cat(a, SubSeq(p, 1, k)) = SubSeq(Cat(a, p), 1, n)
<1>1. PICK w \in Seq(S) : w = <<>>
  BY EmptySeq
<1>2. /\ Len(a) + k \in 0 .. Len(Joined(a, p, w))
      /\ Cat(a, SubSeq(p, 1, k)) = SubSeq(Joined(a, p, w), 1, Len(a) + k)
  BY CutIsPrefix
<1>3. Joined(a, p, w) = Cat(a, p)
  <2>1. a \o p \in Seq(S)
    BY ConcatProperties
  <2>2. QED
    BY <1>1, <2>1, ConcatEmptySeq DEF Joined, Cat
<1>4. QED
  BY <1>2, <1>3

\* Once a message is complete, the rest of the line is what follows it.
LEMMA RestOfLine ==
    ASSUME NEW S, NEW r \in Seq(S), NEW a \in Seq(S), NEW w \in Seq(S), a # <<>>
    PROVE  /\ Len(r) + 2 \in 1 .. Len(Joined(r, a, w)) + 1
           /\ Joined(<<>>, Tail(a), w) = SubSeq(Joined(r, a, w), Len(r) + 2, Len(Joined(r, a, w)))
<1> DEFINE q == Append(r, Head(a))
           t == Tail(a) \o w
           s == r \o a \o w
<1>1. /\ Head(a) \in S /\ Tail(a) \in Seq(S) /\ q \o Tail(a) \o w = s
  BY ReadShifts DEF Joined
<1>2. q \in Seq(S) /\ Len(q) = Len(r) + 1 /\ Len(r) \in Nat
  BY <1>1, AppendProperties, LenProperties
<1>3. t \in Seq(S) /\ q \o t = s
  <2> DEFINE x == Tail(a)
  <2>1. x \in Seq(S) /\ q \in Seq(S) /\ w \in Seq(S)
    BY <1>1, <1>2
  <2>2. (q \o x) \o w = s /\ t = x \o w
    BY <1>1
  <2> HIDE DEF q, x, s, t
  <2>3. x \o w \in Seq(S)
    BY <2>1, ConcatProperties
  <2>4. (q \o x) \o w = q \o (x \o w)
    BY <2>1, ConcatAssociative, Z3
  <2>5. QED
    BY <2>2, <2>3, <2>4
<1>4. <<>> \o Tail(a) \o w = t
  BY <1>1, ConcatEmptySeq
<1> HIDE DEF q, t, s
<1>5. /\ s \in Seq(S) /\ Len(s) = Len(q) + Len(t) /\ Len(t) \in Nat
      /\ \A i \in 1 .. Len(q) + Len(t) : s[i] = IF i <= Len(q) THEN q[i] ELSE t[i - Len(q)]
  BY <1>2, <1>3, ConcatProperties, LenProperties
<1> DEFINE m == Len(r) + 2
           u == SubSeq(s, m, Len(s))
<1>6. m \in Nat \ {0} /\ m <= Len(s) + 1 /\ Len(s) \in Nat /\ Len(s) - m + 1 = Len(t)
      /\ m - 1 = Len(q) /\ (m <= Len(s) \/ Len(t) = 0)
  BY <1>2, <1>5
<1> HIDE DEF m
<1>7. /\ u \in Seq(S) /\ Len(u) = (IF m <= Len(s) THEN Len(s) - m + 1 ELSE 0)
      /\ \A i \in 1 .. Len(s) - m + 1 : u[i] = s[m + i - 1]
  <2>1. \A i \in m .. Len(s) : s[i] \in S
    BY <1>5, <1>6, ElementOfSeq
  <2>2. m \in Int /\ Len(s) \in Int
    BY <1>6
  <2>3. QED
    BY <2>1, <2>2, SubSeqProperties
<1> HIDE DEF u
<1>8. Len(u) = Len(t)
  BY <1>6, <1>7
<1>9. ASSUME NEW i \in 1 .. Len(u) PROVE u[i] = t[i]
  <2> DEFINE j == m + i - 1
  <2>1. i \in 1 .. Len(s) - m + 1 /\ j \in 1 .. Len(q) + Len(t) /\ ~(j <= Len(q)) /\ j - Len(q) = i
    BY <1>5, <1>6, <1>8
  <2>2. u[i] = s[j]
    BY <1>7, <2>1
  <2> HIDE DEF j
  <2>3. s[j] = t[j - Len(q)]
    BY <1>5, <2>1
  <2>4. QED
    BY <2>1, <2>2, <2>3
<1>10. u = t
  BY <1>3, <1>7, <1>8, <1>9, SeqEqual
<1>11. QED
  BY <1>4, <1>6, <1>10 DEF u, s, m, Joined

-----------------------------------------------------------------------------
(* Types. *)

LEMMA Ends2 == /\ End = {"dialer", "acceptor"}
               /\ \A e \in End : Other(e) \in End /\ Other(e) # e /\ Other(Other(e)) = e
               /\ \A e, o \in End : o # e => o = Other(e)
BY DEF End, Other

LEMMA HelloNews == /\ Hello \in Message /\ News \in Message /\ Hello # News
                   /\ Hello.size = 0 /\ News.size = 0 /\ Nothing.size = 0
                   /\ Nothing \notin Message /\ Mangled \notin Message
BY DEF Message, Hello, News, Clip, Nothing, Mangled

LEMMA ClipMessage ==
    ASSUME NEW n \in Size
    PROVE  /\ Clip(n) \in Message /\ Clip(n) \notin {Nothing, Hello, News}
           /\ n # NoClip
<1>1. n # 0
  BY StreamAssumption DEF Size
<1>2. QED
  BY <1>1 DEF Message, Hello, News, Clip, Nothing, NoClip

LEMMA CopySize ==
    ASSUME NEW e \in End, NEW n \in Nat, n < Len(Copies[e])
    PROVE  Copies[e][n + 1] \in Size
<1>1. Copies[e] \in Seq(1 .. Limit[e])
  BY StreamAssumption
<1>2. n + 1 \in DOMAIN Copies[e]
  BY <1>1, LenProperties
<1>3. QED
  BY <1>2 DEF Size

LEMMA PrefixTyped ==
    ASSUME NEW s \in Seq(PieceSet), NEW q \in Prefixes(s)
    PROVE  /\ q \in Seq(PieceSet) /\ Len(q) <= Len(s)
           /\ \E k \in 0 .. Len(s) : q = SubSeq(s, 1, k)
<1>1. PICK k \in 0 .. Len(s) : q = SubSeq(s, 1, k)
  BY DEF Prefixes
<1>2. <<>> \in Seq(PieceSet)
  BY EmptySeq
<1>3. SubSeq(s, 1, k) \in Seq(PieceSet) /\ Len(SubSeq(s, 1, k)) = k
  BY <1>2, CutIsPrefix
<1>4. k <= Len(s)
  BY LenProperties
<1>5. QED
  BY <1>1, <1>3, <1>4

LEMMA ArrivedTyped ==
    ASSUME TypeOK, NEW e \in End
    PROVE  /\ Arrived(e) \in Seq(PieceSet)
           /\ Line(e) \in Seq(PieceSet)
           /\ <<>> \in Seq(PieceSet)
           /\ reading[e] \in Seq(PieceSet)
           /\ writing[Other(e)] \in Seq(PieceSet)
<1>1. Arrived(e) \in Seq(PieceSet)
  BY ConcatProperties DEF TypeOK, Arrived
<1>2. <<>> \in Seq(PieceSet) /\ reading[e] \in Seq(PieceSet) /\ writing[Other(e)] \in Seq(PieceSet)
  BY EmptySeq, Ends2 DEF TypeOK
<1>3. QED
  BY <1>1, <1>2, Triple DEF Line, Joined

LEMMA TypeInit == Init => TypeOK
<1>1. <<>> \in Seq(PieceSet) /\ Len(<<>>) = 0
  BY EmptySeq
<1>2. PipeCap \in Nat /\ MaxNews \in Nat /\ MaxFaults \in Nat
  BY StreamAssumption
<1>3. SUFFICES ASSUME Init PROVE TypeOK
  OBVIOUS
<1>4. /\ pipe \in [End -> Seq(PieceSet)] /\ ahead \in Seq(PieceSet)
      /\ writing \in [End -> Seq(PieceSet)] /\ reading \in [End -> Seq(PieceSet)]
      /\ \A e \in End : Len(pipe[e]) <= PipeCap
  BY <1>1, <1>2, <1>3 DEF Init
<1>5. /\ stage \in [End -> {"down", "command", "hello", "up"}] /\ cut \in BOOLEAN
      /\ busy \in [End -> BOOLEAN] /\ last \in [End -> Message \cup {Nothing, Mangled}]
      /\ slot \in [End -> Size \cup {NoClip}] /\ news \in [End -> BOOLEAN]
      /\ copied \in [End -> Nat] /\ misread \in BOOLEAN /\ old \in SUBSET End
  BY <1>3 DEF Init
<1>6. changes \in 0 .. MaxNews /\ faults \in 0 .. MaxFaults
  BY <1>2, <1>3 DEF Init
<1>7. QED
  BY <1>4, <1>5, <1>6 DEF TypeOK

\* What TakePiece does to what can be read.
LEMMA Takings ==
    ASSUME TypeOK, NEW e \in End, Arrived(e) # <<>>, TakePiece(e)
    PROVE  /\ pipe' \in [End -> Seq(PieceSet)] /\ ahead' \in Seq(PieceSet)
           /\ \A o \in End : Len(pipe'[o]) <= PipeCap
           /\ Arrived(e)' = Tail(Arrived(e))
           /\ Arrived(Other(e))' = Arrived(Other(e))
           /\ Head(Arrived(e)) \in PieceSet
<1>0. /\ pipe \in [End -> Seq(PieceSet)] /\ ahead \in Seq(PieceSet) /\ pipe[e] \in Seq(PieceSet)
      /\ \A o \in End : Len(pipe[o]) <= PipeCap /\ Len(pipe[o]) \in Nat
      /\ PipeCap \in Nat
  BY StreamAssumption, LenProperties DEF TypeOK
<1>1. CASE e = "acceptor" /\ ahead # <<>>
  <2>1. ahead' = Tail(ahead) /\ pipe' = pipe
    BY <1>1 DEF TakePiece
  <2>2. Tail(ahead) \in Seq(PieceSet) /\ Head(ahead) \in PieceSet
    BY <1>0, <1>1, HeadTailProperties
  <2>3. /\ Len(ahead) \in Nat \ {0} /\ Len(ahead \o pipe[e]) = Len(ahead) + Len(pipe[e])
        /\ ahead \o pipe[e] \in Seq(PieceSet)
        /\ \A i \in 1 .. Len(ahead) + Len(pipe[e]) :
              (ahead \o pipe[e])[i] = IF i <= Len(ahead) THEN ahead[i] ELSE pipe[e][i - Len(ahead)]
    BY <1>0, <1>1, ConcatProperties, EmptySeq
  <2>4. <<>> \o Tail(ahead) \o pipe[e] = SubSeq(<<>> \o ahead \o pipe[e], Len(<<>>) + 2, Len(<<>> \o ahead \o pipe[e]))
    BY <1>0, <1>1, RestOfLine, EmptySeq DEF Joined
  <2>5. /\ <<>> \o Tail(ahead) = Tail(ahead) /\ <<>> \o ahead = ahead /\ Len(<<>>) + 2 = 2
    BY <1>0, <2>2, ConcatEmptySeq, EmptySeq
  <2>6. Tail(ahead) \o pipe[e] = SubSeq(ahead \o pipe[e], 2, Len(ahead \o pipe[e]))
    BY <2>4, <2>5, Zenon
  <2>7. ahead \o pipe[e] # <<>>
    BY <1>0, <2>3, EmptySeq
  <2>8. Tail(ahead \o pipe[e]) = SubSeq(ahead \o pipe[e], 2, Len(ahead \o pipe[e]))
    BY <2>3, <2>7, TailIsSubSeq
  <2>9. Arrived(e) \in Seq(PieceSet) /\ Arrived(e) # <<>>
    BY ArrivedTyped
  <2>10. Head(Arrived(e)) \in PieceSet
    BY <2>9, HeadTailProperties
  <2>11. QED
    BY <1>0, <1>1, <2>1, <2>2, <2>6, <2>8, <2>10, Ends2 DEF Arrived, Other
<1>2. CASE ~(e = "acceptor" /\ ahead # <<>>)
  <2>1. ahead' = ahead /\ pipe' = [pipe EXCEPT ![e] = Tail(@)]
    BY <1>2 DEF TakePiece
  <2>2. Arrived(e) = pipe[e] /\ pipe[e] # <<>>
    <3>1. CASE e = "acceptor"
      <4>1. ahead = <<>> /\ ahead \o pipe[e] = pipe[e]
        BY <1>0, <1>2, <3>1, ConcatEmptySeq
      <4>2. QED
        BY <3>1, <4>1 DEF Arrived
    <3>2. CASE e # "acceptor"
      BY <3>2 DEF Arrived
    <3>3. QED
      BY <3>1, <3>2
  <2>3. Tail(pipe[e]) \in Seq(PieceSet) /\ Len(Tail(pipe[e])) = Len(pipe[e]) - 1 /\ Head(pipe[e]) \in PieceSet
    BY <1>0, <2>2, HeadTailProperties
  <2>4. pipe' \in [End -> Seq(PieceSet)] /\ pipe'[e] = Tail(pipe[e]) /\ pipe'[Other(e)] = pipe[Other(e)]
    BY <1>0, <2>1, <2>3, Ends2
  <2>5. Arrived(e)' = Tail(Arrived(e))
    <3>1. CASE e = "acceptor"
      <4>1. ahead' = <<>> /\ ahead' \o Tail(pipe[e]) = Tail(pipe[e])
        BY <1>2, <2>1, <2>3, <3>1, ConcatEmptySeq
      <4>2. QED
        BY <2>2, <2>4, <3>1, <4>1 DEF Arrived
    <3>2. CASE e # "acceptor"
      BY <2>2, <2>4, <3>2 DEF Arrived
    <3>3. QED
      BY <3>1, <3>2
  <2>6. ASSUME NEW o \in End PROVE Len(pipe'[o]) <= PipeCap
    <3>1. CASE o = e
      BY <1>0, <2>3, <2>4, <3>1
    <3>2. CASE o # e
      BY <1>0, <2>1, <3>2
    <3>3. QED
      BY <3>1, <3>2
  <2>7. Arrived(Other(e))' = Arrived(Other(e))
    BY <2>1, <2>4, Ends2 DEF Arrived, Other
  <2>8. QED
    BY <1>0, <2>1, <2>2, <2>3, <2>4, <2>5, <2>6, <2>7
<1>3. QED
  BY <1>1, <1>2

LEMMA EndsTyped ==
    ASSUME TypeOK, NEW e \in End, Ends(e), misread' \in BOOLEAN
    PROVE  TypeOK'
<1>1. /\ pipe \in [End -> Seq(PieceSet)] /\ \A o \in End : Len(pipe[o]) <= PipeCap
      /\ \A o \in End : Len(pipe[o]) \in Nat
      /\ PipeCap \in Nat /\ <<>> \in Seq(PieceSet) /\ Len(<<>>) = 0
  BY StreamAssumption, EmptySeq, LenProperties DEF TypeOK
<1>2. PICK rest \in Prefixes(pipe[Other(e)]) : pipe' = [pipe EXCEPT ![e] = <<>>, ![Other(e)] = rest]
  BY DEF Ends
<1>3. Other(e) \in End /\ Other(e) # e /\ \A o \in End : o = e \/ o = Other(e)
  BY Ends2
<1>4. rest \in Seq(PieceSet) /\ Len(rest) <= Len(pipe[Other(e)]) /\ Len(rest) \in Nat
  BY <1>1, <1>3, PrefixTyped, LenProperties
<1>5. pipe' \in [End -> Seq(PieceSet)] /\ pipe'[e] = <<>> /\ pipe'[Other(e)] = rest
  BY <1>1, <1>2, <1>3, <1>4
<1>6. Len(rest) <= PipeCap
  BY <1>1, <1>3, <1>4
<1>7. ASSUME NEW o \in End PROVE Len(pipe'[o]) <= PipeCap
  <2>1. CASE o = e
    <3>1. pipe'[o] = <<>>
      BY <1>5, <2>1
    <3>2. Len(pipe'[o]) = 0
      BY <1>1, <3>1
    <3>3. QED
      BY <1>1, <3>2
  <2>2. CASE o # e
    <3>1. pipe'[o] = rest
      BY <1>3, <1>5, <2>2
    <3>2. QED
      BY <1>6, <3>1
  <2>3. QED
    BY <2>1, <2>2
<1>8. ahead' \in Seq(PieceSet) /\ writing' \in [End -> Seq(PieceSet)] /\ reading' \in [End -> Seq(PieceSet)]
  BY <1>1 DEF Ends, TypeOK
<1>9. /\ stage' \in [End -> {"down", "command", "hello", "up"}] /\ cut' \in BOOLEAN
      /\ busy' \in [End -> BOOLEAN] /\ slot' \in [End -> Size \cup {NoClip}] /\ news' \in [End -> BOOLEAN]
  BY DEF Ends, TypeOK
<1>10. /\ old' = old /\ last' = last /\ copied' = copied /\ changes' = changes /\ faults' = faults
  BY DEF Ends, bounds
<1>11. QED
  BY <1>5, <1>7, <1>8, <1>9, <1>10 DEF TypeOK

\* The read half.
LEMMA ReadsTyped ==
    ASSUME TypeOK, NEW e \in End, ReadPart(e) \/ Meet(e) \/ ReceiveClip(e) \/ ReceiveNews(e)
    PROVE  TypeOK'
<1>1. Arrived(e) # <<>> /\ TakePiece(e)
  BY DEF ReadPart, Meet, ReceiveClip, ReceiveNews, ReadsMessage, Takes
<1>2. /\ pipe' \in [End -> Seq(PieceSet)] /\ ahead' \in Seq(PieceSet)
      /\ \A o \in End : Len(pipe'[o]) <= PipeCap
      /\ Head(Arrived(e)) \in PieceSet
  BY <1>1, Takings
<1>3. reading \in [End -> Seq(PieceSet)] /\ <<>> \in Seq(PieceSet)
  BY EmptySeq DEF TypeOK
<1>4. Taken(e) \in Seq(PieceSet) /\ Taken(e) # <<>>
  <2> DEFINE h == Head(Arrived(e))  r == reading[e]
  <2>1. h \in PieceSet /\ r \in Seq(PieceSet)
    BY <1>2, <1>3
  <2> HIDE DEF h, r
  <2>2. Append(r, h) \in Seq(PieceSet) /\ Append(r, h) # <<>>
    BY <2>1, AppendProperties
  <2>3. QED
    BY <2>2 DEF Taken, h, r
<1>5. CASE ReadPart(e)
  <2>1. reading' \in [End -> Seq(PieceSet)]
    BY <1>3, <1>4, <1>5 DEF ReadPart
  <2>2. UNCHANGED <<old, stage, cut, writing, busy, last, slot, news, misread, copied, changes, faults>>
    BY <1>5 DEF ReadPart, offers, bounds
  <2>3. QED
    BY <1>2, <2>1, <2>2 DEF TypeOK
<1>6. CASE Meet(e) \/ ReceiveClip(e) \/ ReceiveNews(e)
  <2>1. ReadsMessage(e)
    BY <1>6 DEF Meet, ReceiveClip, ReceiveNews
  <2>2. reading' \in [End -> Seq(PieceSet)]
    BY <1>3, <2>1 DEF ReadsMessage
  <2>3. Head(Taken(e)) \in PieceSet /\ ~NoMessage(Taken(e))
    BY <1>4, <2>1, HeadTailProperties DEF ReadsMessage, Complete
  <2>4. MessageOf(Taken(e)) \in Message \cup {Nothing, Mangled}
    BY <2>3, PieceTyped DEF MessageOf
  <2>5. last' \in [End -> Message \cup {Nothing, Mangled}]
    BY <2>1, <2>4 DEF ReadsMessage, TypeOK
  <2>6. UNCHANGED <<old, cut, writing, misread, copied, changes, faults>>
    BY <2>1 DEF ReadsMessage, bounds
  <2>7. /\ stage' \in [End -> {"down", "command", "hello", "up"}]
        /\ busy' \in [End -> BOOLEAN] /\ slot' \in [End -> Size \cup {NoClip}] /\ news' \in [End -> BOOLEAN]
    BY <1>6 DEF Meet, ReceiveClip, ReceiveNews, FirstOffer, offers, TypeOK
  <2>8. QED
    BY <1>2, <2>2, <2>5, <2>6, <2>7 DEF TypeOK
<1>7. QED
  BY <1>5, <1>6

LEMMA WritesTyped ==
    ASSUME TypeOK, NEW e \in End, SendClip(e) \/ SendNews(e) \/ WritePiece(e)
    PROVE  TypeOK'
<1>0. writing \in [End -> Seq(PieceSet)] /\ writing[e] \in Seq(PieceSet)
  BY DEF TypeOK
<1>1. CASE SendClip(e)
  <2>1. slot[e] \in Size
    BY <1>1 DEF SendClip, TypeOK
  <2>2. Frame(Clip(slot[e])) \in Seq(PieceSet)
    BY <2>1, ClipMessage, FrameTyped
  <2>3. writing' \in [End -> Seq(PieceSet)] /\ slot' \in [End -> Size \cup {NoClip}]
    BY <1>0, <1>1, <2>2 DEF SendClip, TypeOK
  <2>4. UNCHANGED <<old, stage, cut, pipe, ahead, reading, busy, last, news, misread, copied, changes, faults>>
    BY <1>1 DEF SendClip, bounds
  <2>5. QED
    BY <2>3, <2>4 DEF TypeOK
<1>2. CASE SendNews(e)
  <2>2. Frame(News) \in Seq(PieceSet)
    BY HelloNews, FrameTyped
  <2>3. writing' \in [End -> Seq(PieceSet)] /\ news' \in [End -> BOOLEAN]
    BY <1>0, <1>2, <2>2 DEF SendNews, TypeOK
  <2>4. UNCHANGED <<old, stage, cut, pipe, ahead, reading, busy, last, slot, misread, copied, changes, faults>>
    BY <1>2 DEF SendNews, bounds
  <2>5. QED
    BY <2>3, <2>4 DEF TypeOK
<1>3. CASE WritePiece(e)
  <2> DEFINE o == Other(e)
  <2>1. /\ pipe \in [End -> Seq(PieceSet)] /\ o \in End /\ pipe[o] \in Seq(PieceSet)
        /\ \A i \in End : Len(pipe[i]) <= PipeCap
        /\ Len(pipe[o]) < PipeCap /\ PipeCap \in Nat /\ Len(pipe[o]) \in Nat
    BY <1>3, StreamAssumption, Ends2, LenProperties DEF TypeOK, WritePiece
  <2>2. Head(writing[e]) \in PieceSet /\ Tail(writing[e]) \in Seq(PieceSet)
    BY <1>0, <1>3, HeadTailProperties DEF WritePiece
  <2>3. /\ Append(pipe[o], Head(writing[e])) \in Seq(PieceSet)
        /\ Len(Append(pipe[o], Head(writing[e]))) = Len(pipe[o]) + 1
    BY <2>1, <2>2, AppendProperties
  <2>4. /\ pipe' = [pipe EXCEPT ![o] = Append(pipe[o], Head(writing[e]))]
        /\ writing' = [writing EXCEPT ![e] = Tail(writing[e])]
    BY <1>3 DEF WritePiece
  <2> HIDE DEF o
  <2>5. pipe' \in [End -> Seq(PieceSet)] /\ writing' \in [End -> Seq(PieceSet)]
    BY <1>0, <2>1, <2>2, <2>3, <2>4
  <2>6. ASSUME NEW i \in End PROVE Len(pipe'[i]) <= PipeCap
    BY <2>1, <2>3, <2>4
  <2>7. UNCHANGED <<old, stage, cut, ahead, reading, busy, last, slot, news, misread, copied, changes, faults>>
    BY <1>3 DEF WritePiece, offers, bounds
  <2>8. QED
    BY <2>5, <2>6, <2>7 DEF TypeOK
<1>4. QED
  BY <1>1, <1>2, <1>3

LEMMA CommandTyped == ASSUME TypeOK, ReadCommand PROVE TypeOK'
<1> DEFINE a == pipe["acceptor"]
<1>1. /\ pipe \in [End -> Seq(PieceSet)] /\ "acceptor" \in End /\ a \in Seq(PieceSet)
      /\ \A i \in End : Len(pipe[i]) <= PipeCap /\ Len(pipe[i]) \in Nat
      /\ PipeCap \in Nat /\ Len(a) \in Nat
  BY StreamAssumption, LenProperties DEF TypeOK, End
<1>2. PICK k \in 1 .. Len(a) : /\ ahead' = SubSeq(a, 2, k)
                               /\ pipe' = [pipe EXCEPT !["acceptor"] = SubSeq(a, k + 1, Len(a))]
  BY DEF ReadCommand
<1>3. /\ \A i \in 2 .. k : a[i] \in PieceSet
      /\ \A i \in k + 1 .. Len(a) : a[i] \in PieceSet
      /\ k \in Int /\ k + 1 \in Int /\ Len(a) \in Int
  BY <1>1, ElementOfSeq
<1> HIDE DEF a
<1>4. /\ SubSeq(a, 2, k) \in Seq(PieceSet)
      /\ SubSeq(a, k + 1, Len(a)) \in Seq(PieceSet)
      /\ Len(SubSeq(a, k + 1, Len(a))) = IF k + 1 <= Len(a) THEN Len(a) - (k + 1) + 1 ELSE 0
  BY <1>3, SubSeqProperties
<1>5. pipe' \in [End -> Seq(PieceSet)] /\ ahead' \in Seq(PieceSet)
  BY <1>1, <1>2, <1>4
<1>6. Len(a) <= PipeCap
  BY <1>1 DEF a
<1>7. Len(SubSeq(a, k + 1, Len(a))) <= PipeCap
  BY <1>1, <1>3, <1>4, <1>6
<1>8. ASSUME NEW i \in End PROVE Len(pipe'[i]) <= PipeCap
  BY <1>1, <1>2, <1>7
<1>9. Frame(Hello) \in Seq(PieceSet)
  BY HelloNews, FrameTyped
<1>10. writing' \in [End -> Seq(PieceSet)] /\ stage' \in [End -> {"down", "command", "hello", "up"}]
  BY <1>9 DEF ReadCommand, TypeOK
<1>11. UNCHANGED <<old, cut, reading, busy, last, slot, news, misread, copied, changes, faults>>
  BY DEF ReadCommand, offers, bounds
<1>12. QED
  BY <1>5, <1>8, <1>10, <1>11 DEF TypeOK

LEMMA ConnectTyped == ASSUME TypeOK, Connect PROVE TypeOK'
<1>1. Command \in PieceSet /\ <<>> \in Seq(PieceSet) /\ Len(<<>>) = 0 /\ PipeCap \in Nat \ {0}
  BY StreamAssumption, EmptySeq DEF PieceSet
<1>2. <<Command>> \in Seq(PieceSet) /\ Len(<<Command>>) = 1
  BY <1>1
<1>3. pipe' \in [End -> Seq(PieceSet)] /\ \A e \in End : pipe'[e] \in {<<>>, <<Command>>}
  BY <1>1, <1>2 DEF Connect
<1>4. ASSUME NEW e \in End PROVE Len(pipe'[e]) <= PipeCap
  <2>1. pipe'[e] = <<>> \/ pipe'[e] = <<Command>>
    BY <1>3
  <2>2. Len(pipe'[e]) = 0 \/ Len(pipe'[e]) = 1
    BY <1>1, <1>2, <2>1
  <2>3. 0 <= PipeCap /\ 1 <= PipeCap
    BY StreamAssumption
  <2>4. QED
    BY <2>2, <2>3
<1>5. Frame(Hello) \in Seq(PieceSet)
  BY HelloNews, FrameTyped
<1>6. /\ writing' \in [End -> Seq(PieceSet)] /\ stage' \in [End -> {"down", "command", "hello", "up"}]
      /\ cut' \in BOOLEAN
  BY <1>5 DEF Connect, TypeOK
<1>7. UNCHANGED <<old, ahead, reading, busy, last, slot, news, misread, copied, changes, faults>>
  BY DEF Connect, offers, bounds
<1>8. QED
  BY <1>3, <1>4, <1>6, <1>7 DEF TypeOK

LEMMA BreakTyped == ASSUME TypeOK, Break PROVE TypeOK'
<1>1. /\ pipe \in [End -> Seq(PieceSet)] /\ \A o \in End : Len(pipe[o]) <= PipeCap /\ Len(pipe[o]) \in Nat
      /\ PipeCap \in Nat
  BY StreamAssumption, LenProperties DEF TypeOK
<1>2. pipe' \in [End -> Prefixes(pipe["dialer"]) \cup Prefixes(pipe["acceptor"])]
  BY DEF Break
<1>3. ASSUME NEW o \in End PROVE pipe'[o] \in Seq(PieceSet) /\ Len(pipe'[o]) <= PipeCap
  <2>1. pipe'[o] \in Prefixes(pipe[o]) /\ pipe[o] \in Seq(PieceSet)
    BY <1>1 DEF Break
  <2>2. pipe'[o] \in Seq(PieceSet) /\ Len(pipe'[o]) <= Len(pipe[o]) /\ Len(pipe'[o]) \in Nat
    BY <2>1, PrefixTyped, LenProperties
  <2>3. QED
    BY <1>1, <2>2
<1>4. pipe' \in [End -> Seq(PieceSet)]
  BY <1>2, <1>3
<1>5. cut' \in BOOLEAN /\ faults' \in 0 .. MaxFaults
  BY StreamAssumption DEF Break, TypeOK
<1>6. UNCHANGED <<old, stage, ahead, writing, reading, busy, last, slot, news, misread, copied, changes>>
  BY DEF Break, offers
<1>7. QED
  BY <1>3, <1>4, <1>5, <1>6 DEF TypeOK

LEMMA DaemonTyped ==
    ASSUME TypeOK, NEW e \in End, Copy(e) \/ Desire(e) \/ Handled(e)
    PROVE  TypeOK'
<1>1. CASE Copy(e)
  <2>1. copied[e] \in Nat /\ copied[e] < Len(Copies[e])
    BY <1>1 DEF Copy, TypeOK
  <2>2. Copies[e][copied[e] + 1] \in Size
    BY <2>1, CopySize
  <2>3. copied' \in [End -> Nat] /\ slot' \in [End -> Size \cup {NoClip}]
    BY <1>1, <2>1, <2>2 DEF Copy, TypeOK
  <2>4. UNCHANGED <<old, stage, cut, pipe, ahead, writing, reading, busy, last, news, misread, changes, faults>>
    BY <1>1 DEF Copy, streams
  <2>5. QED
    BY <2>3, <2>4 DEF TypeOK
<1>2. CASE Desire(e)
  <2>1. changes' \in 0 .. MaxNews /\ news' \in [End -> BOOLEAN]
    BY <1>2, StreamAssumption DEF Desire, TypeOK
  <2>2. UNCHANGED <<old, stage, cut, pipe, ahead, writing, reading, busy, last, slot, misread, copied, faults>>
    BY <1>2 DEF Desire, streams
  <2>3. QED
    BY <2>1, <2>2 DEF TypeOK
<1>3. CASE Handled(e)
  <2>1. UNCHANGED <<old, stage, cut, pipe, ahead, writing, reading, last, slot, news, misread, copied, changes, faults>>
    BY <1>3 DEF Handled, streams, offers, bounds
  <2>2. busy' \in [End -> BOOLEAN]
    BY <1>3 DEF Handled, TypeOK
  <2>3. QED
    BY <2>1, <2>2 DEF TypeOK
<1>4. QED
  BY <1>1, <1>2, <1>3

LEMMA TypeStep == ASSUME TypeOK, [Next]_vars PROVE TypeOK'
<1>1. CASE UNCHANGED vars
  BY <1>1 DEF vars, streams, offers, bounds, TypeOK
<1>2. ASSUME NEW e \in End, WriteFails(e) \/ ReadFails(e) \/ SeesEnd(e) PROVE TypeOK'
  <2>1. Ends(e) /\ misread' \in BOOLEAN
    BY <1>2 DEF WriteFails, ReadFails, SeesEnd, TypeOK
  <2>2. QED
    BY <2>1, EndsTyped
<1>3. QED
  BY <1>1, <1>2, ReadsTyped, WritesTyped, CommandTyped, ConnectTyped, BreakTyped, DaemonTyped
     DEF Next, WriteHalf, ReadHalf

-----------------------------------------------------------------------------
(* What the steps do to what is on its way. *)

LEMMA LineStays ==
    ASSUME NEW e \in End, UNCHANGED <<pipe, ahead, reading, cut>>,
           cut \/ writing'[Other(e)] = writing[Other(e)]
    PROVE  Line(e)' = Line(e)
BY DEF Line, Arrived

LEMMA PartStays ==
    ASSUME TypeOK, NEW e \in End, ReadPart(e)
    PROVE  \A o \in End : Line(o)' = Line(o)
<1>1. Arrived(e) # <<>> /\ TakePiece(e) /\ UNCHANGED <<cut, writing>>
  BY DEF ReadPart, Takes
<1>2. /\ Arrived(e)' = Tail(Arrived(e)) /\ Arrived(Other(e))' = Arrived(Other(e))
  BY <1>1, Takings
<1>3. reading \in [End -> Seq(PieceSet)] /\ Other(e) \in End /\ Other(e) # e
  BY Ends2 DEF TypeOK
<1>4. /\ reading'[e] = Append(reading[e], Head(Arrived(e)))
      /\ reading'[Other(e)] = reading[Other(e)]
  BY <1>3 DEF ReadPart, Taken
<1>5. Line(Other(e))' = Line(Other(e))
  BY <1>1, <1>2, <1>4 DEF Line
<1>6. Line(e)' = Line(e)
  <2> DEFINE r == reading[e]  a == Arrived(e)  w == IF cut THEN <<>> ELSE writing[Other(e)]
  <2>1. r \in Seq(PieceSet) /\ a \in Seq(PieceSet) /\ w \in Seq(PieceSet) /\ a # <<>>
    BY <1>1, ArrivedTyped
  <2>2. Line(e) = Joined(r, a, w) /\ Line(e)' = Joined(Append(r, Head(a)), Tail(a), w)
    BY <1>1, <1>2, <1>4 DEF Line, Joined
  <2> HIDE DEF r, a, w
  <2>3. Joined(Append(r, Head(a)), Tail(a), w) = Joined(r, a, w)
    BY <2>1, ReadShifts
  <2>4. QED
    BY <2>2, <2>3
<1>7. QED
  BY <1>5, <1>6, Ends2

LEMMA MessageLeaves ==
    ASSUME TypeOK, NEW e \in End, ReadsMessage(e)
    PROVE  /\ Len(reading[e]) + 2 \in 1 .. Len(Line(e)) + 1
           /\ Line(e)' = SubSeq(Line(e), Len(reading[e]) + 2, Len(Line(e)))
           /\ Line(Other(e))' = Line(Other(e))
<1>1. Arrived(e) # <<>> /\ TakePiece(e) /\ UNCHANGED <<cut, writing>>
  BY DEF ReadsMessage, Takes
<1>2. /\ Arrived(e)' = Tail(Arrived(e)) /\ Arrived(Other(e))' = Arrived(Other(e))
  BY <1>1, Takings
<1>3. reading \in [End -> Seq(PieceSet)] /\ Other(e) \in End /\ Other(e) # e
  BY Ends2 DEF TypeOK
<1>4. reading'[e] = <<>> /\ reading'[Other(e)] = reading[Other(e)]
  BY <1>3 DEF ReadsMessage
<1>5. Line(Other(e))' = Line(Other(e))
  BY <1>1, <1>2, <1>4 DEF Line
<1> DEFINE r == reading[e]  a == Arrived(e)  w == IF cut THEN <<>> ELSE writing[Other(e)]
<1>6. r \in Seq(PieceSet) /\ a \in Seq(PieceSet) /\ w \in Seq(PieceSet) /\ a # <<>>
  BY <1>1, ArrivedTyped
<1>7. Line(e) = Joined(r, a, w) /\ Line(e)' = Joined(<<>>, Tail(a), w)
  BY <1>1, <1>2, <1>4 DEF Line, Joined
<1>8. /\ Len(r) + 2 \in 1 .. Len(Joined(r, a, w)) + 1
      /\ Joined(<<>>, Tail(a), w) = SubSeq(Joined(r, a, w), Len(r) + 2, Len(Joined(r, a, w)))
  <2> HIDE DEF r, a, w
  <2> QED
    BY <1>6, RestOfLine
<1>9. QED
  BY <1>5, <1>7, <1>8, Zenon

LEMMA PieceStays ==
    ASSUME TypeOK, NEW e \in End, WritePiece(e)
    PROVE  \A o \in End : Line(o)' = Line(o)
<1> DEFINE o == Other(e)
           r == reading[o]  a == Arrived(o)  w == writing[e]  p == pipe[o]
<1>1. o \in End /\ o # e /\ Other(o) = e
  BY Ends2
<1>2. ~cut /\ w # <<>> /\ UNCHANGED <<cut, ahead, reading>>
  BY DEF WritePiece
<1>3. /\ pipe' = [pipe EXCEPT ![o] = Append(p, Head(w))]
      /\ writing' = [writing EXCEPT ![e] = Tail(w)]
  BY DEF WritePiece
<1>4. pipe'[o] = Append(p, Head(w)) /\ pipe'[e] = pipe[e] /\ writing'[e] = Tail(w) /\ writing'[o] = writing[o]
  BY <1>1, <1>3 DEF TypeOK
<1>5. Line(e)' = Line(e)
  BY <1>2, <1>4 DEF Line, Arrived
<1>6. /\ r \in Seq(PieceSet) /\ a \in Seq(PieceSet) /\ w \in Seq(PieceSet) /\ p \in Seq(PieceSet)
      /\ ahead \in Seq(PieceSet)
  BY <1>1, ArrivedTyped DEF TypeOK
<1>7. Head(w) \in PieceSet /\ <<Head(w)>> \in Seq(PieceSet)
  <2>1. Head(w) \in PieceSet
    BY <1>2, <1>6, HeadTailProperties
  <2> HIDE DEF w
  <2>2. QED
    BY <2>1
<1>8. Arrived(o)' = Append(a, Head(w))
  <2>1. CASE o = "acceptor"
    <3> DEFINE h == Head(w)
    <3>0. Append(p, h) = p \o <<h>> /\ h \in PieceSet /\ <<h>> \in Seq(PieceSet)
      BY <1>6, <1>7, AppendIsConcat
    <3>1. ahead \o p \in Seq(PieceSet) /\ a = ahead \o p /\ Arrived(o)' = ahead \o Append(p, h)
      BY <1>2, <1>4, <1>6, <2>1, ConcatProperties DEF Arrived
    <3> HIDE DEF h, p, a
    <3>2. Append(ahead \o p, h) = (ahead \o p) \o <<h>>
      BY <3>0, <3>1, AppendIsConcat
    <3>3. (ahead \o p) \o <<h>> = ahead \o (p \o <<h>>)
      BY <1>6, <3>0, ConcatAssociative, Z3
    <3>4. QED
      BY <3>0, <3>1, <3>2, <3>3 DEF h
  <2>2. CASE o # "acceptor"
    BY <1>4, <2>2 DEF Arrived
  <2>3. QED
    BY <2>1, <2>2
<1>9. Line(o)' = Line(o)
  <2>1. Line(o) = Joined(r, a, w) /\ Line(o)' = Joined(r, Append(a, Head(w)), Tail(w))
    BY <1>1, <1>2, <1>4, <1>8 DEF Line, Joined
  <2> HIDE DEF r, a, w
  <2>2. QED
    BY <1>2, <1>6, <2>1, WriteShifts
<1>10. QED
  BY <1>5, <1>9, Ends2

\* Whoever has written what it had to can begin another message.
LEMMA FrameJoins ==
    ASSUME TypeOK, NEW e \in End, NEW m \in Message, writing[e] = <<>>,
           writing' = [writing EXCEPT ![e] = Frame(m)],
           UNCHANGED <<cut, reading>>, Arrived(Other(e))' = Arrived(Other(e))
    PROVE  Line(Other(e))' = IF cut THEN Line(Other(e)) ELSE Line(Other(e)) \o Frame(m)
<1> DEFINE o == Other(e)
           r == reading[o]  a == Arrived(o)
<1>1. o \in End /\ o # e /\ Other(o) = e /\ writing'[e] = Frame(m)
  BY Ends2 DEF TypeOK
<1>2. CASE cut
  BY <1>1, <1>2 DEF Line
<1>3. CASE ~cut
  <2>1. r \in Seq(PieceSet) /\ a \in Seq(PieceSet) /\ r \o a \in Seq(PieceSet)
    BY <1>1, ArrivedTyped, ConcatProperties
  <2>2. Line(o) = r \o a \o <<>> /\ Line(o)' = r \o a \o Frame(m)
    BY <1>1, <1>3 DEF Line
  <2>3. (r \o a) \o <<>> = r \o a
    BY <2>1, ConcatEmptySeq
  <2>4. QED
    BY <1>3, <2>2, <2>3
<1>4. QED
  BY <1>2, <1>3

\* When a connection ends, the beginning of what is on its way still arrives.
LEMMA PipeCut ==
    ASSUME TypeOK, NEW o \in End, NEW k \in 0 .. Len(pipe[o]), pipe'[o] = SubSeq(pipe[o], 1, k),
           o = "acceptor" => ahead' = ahead, reading'[o] = reading[o], cut'
    PROVE  \E n \in 0 .. Len(Line(o)) : Line(o)' = SubSeq(Line(o), 1, n)
<1> DEFINE r == reading[o]  a == Arrived(o)  w == IF cut THEN <<>> ELSE writing[Other(o)]
           p == pipe[o]
<1>1. /\ r \in Seq(PieceSet) /\ a \in Seq(PieceSet) /\ w \in Seq(PieceSet) /\ p \in Seq(PieceSet)
      /\ ahead \in Seq(PieceSet) /\ <<>> \in Seq(PieceSet)
  BY ArrivedTyped DEF TypeOK
<1>2. PICK n \in 0 .. Len(a) : Arrived(o)' = SubSeq(a, 1, n)
  <2>1. CASE o = "acceptor"
    <3>1. a = Cat(ahead, p) /\ Arrived(o)' = Cat(ahead, SubSeq(p, 1, k))
      BY <2>1 DEF Arrived, Cat
    <3> HIDE DEF a, p
    <3>2. k \in 0 .. Len(p) /\ p \in Seq(PieceSet) /\ ahead \in Seq(PieceSet)
      BY <1>1 DEF p
    <3>3. \E n \in 0 .. Len(Cat(ahead, p)) : Cat(ahead, SubSeq(p, 1, k)) = SubSeq(Cat(ahead, p), 1, n)
      BY <3>2, ConcatCut
    <3>4. QED
      BY <3>1, <3>3
  <2>2. CASE o # "acceptor"
    BY <2>2 DEF Arrived
  <2>3. QED
    BY <2>1, <2>2
<1>3. Line(o) = Joined(r, a, w) /\ Line(o)' = Cat(r, SubSeq(a, 1, n))
  <2>1. Line(o)' = r \o SubSeq(a, 1, n) \o <<>>
    BY <1>2 DEF Line
  <2> HIDE DEF r, a, w
  <2>2. SubSeq(a, 1, n) \in Seq(PieceSet)
    BY <1>1, <1>2, CutIsPrefix
  <2>3. r \o SubSeq(a, 1, n) \in Seq(PieceSet)
    BY <1>1, <2>2, ConcatProperties
  <2>4. Line(o)' = Cat(r, SubSeq(a, 1, n))
    BY <2>1, <2>3, ConcatEmptySeq DEF Cat
  <2>5. Line(o) = Joined(r, a, w)
    BY DEF Line, Joined, r, a, w
  <2>6. QED
    BY <2>4, <2>5
<1> HIDE DEF r, a, w
<1>4. /\ Len(r) + n \in 0 .. Len(Joined(r, a, w))
      /\ Cat(r, SubSeq(a, 1, n)) = SubSeq(Joined(r, a, w), 1, Len(r) + n)
  BY <1>1, <1>2, CutIsPrefix
<1>5. QED
  BY <1>3, <1>4

LEMMA EndCuts ==
    ASSUME TypeOK, NEW e \in End, Ends(e)
    PROVE  /\ Line(e)' = <<>> /\ cut'
           /\ \E n \in 0 .. Len(Line(Other(e))) : Line(Other(e))' = SubSeq(Line(Other(e)), 1, n)
<1> DEFINE o == Other(e)
<1>1. o \in End /\ o # e /\ Other(o) = e
  BY Ends2
<1>2. PICK rest \in Prefixes(pipe[o]) : pipe' = [pipe EXCEPT ![e] = <<>>, ![o] = rest]
  BY DEF Ends
<1>3. /\ pipe \in [End -> Seq(PieceSet)] /\ reading \in [End -> Seq(PieceSet)] /\ pipe[o] \in Seq(PieceSet)
      /\ <<>> \in Seq(PieceSet)
  BY <1>1, EmptySeq DEF TypeOK
<1>4. pipe'[e] = <<>> /\ pipe'[o] = rest /\ reading'[e] = <<>> /\ reading'[o] = reading[o]
  BY <1>1, <1>2, <1>3 DEF Ends
<1>5. cut' /\ (e = "acceptor" => ahead' = <<>>) /\ (o = "acceptor" => ahead' = ahead)
  BY <1>1 DEF Ends
<1>6. PICK k \in 0 .. Len(pipe[o]) : pipe'[o] = SubSeq(pipe[o], 1, k)
  BY <1>2, <1>3, <1>4, PrefixTyped
<1>7. \E n \in 0 .. Len(Line(o)) : Line(o)' = SubSeq(Line(o), 1, n)
  <2> HIDE DEF o
  <2> QED
    BY <1>1, <1>4, <1>5, <1>6, PipeCut
<1>8. Line(e)' = <<>>
  <2>1. Arrived(e)' = <<>>
    BY <1>3, <1>4, <1>5, ConcatEmptySeq DEF Arrived
  <2>2. Line(e)' = <<>> \o <<>> \o <<>>
    BY <1>4, <1>5, <2>1 DEF Line
  <2>3. QED
    BY <1>3, <2>2, ConcatEmptySeq
<1>9. QED
  BY <1>5, <1>7, <1>8

LEMMA BreakCuts ==
    ASSUME TypeOK, Break, NEW o \in End
    PROVE  \E n \in 0 .. Len(Line(o)) : Line(o)' = SubSeq(Line(o), 1, n)
<1>1. pipe'[o] \in Prefixes(pipe[o]) /\ pipe[o] \in Seq(PieceSet)
  BY DEF Break, TypeOK
<1>2. PICK k \in 0 .. Len(pipe[o]) : pipe'[o] = SubSeq(pipe[o], 1, k)
  BY <1>1, PrefixTyped
<1>3. ahead' = ahead /\ reading' = reading /\ cut'
  BY DEF Break
<1>4. QED
  BY <1>2, <1>3, PipeCut

LEMMA ConnectLines ==
    ASSUME IInv, Connect
    PROVE  /\ \A e \in End : Line(e) = <<>>
           /\ Line("dialer")' = <<>>
           /\ Line("acceptor")' = <<Command>> \o Frame(Hello)
<1>1. /\ \A e \in End : stage[e] = "down" /\ pipe[e] = <<>> /\ reading[e] = <<>> /\ writing[e] = <<>>
      /\ cut /\ ahead = <<>> /\ "dialer" \in End /\ "acceptor" \in End
  BY DEF Connect, IInv, Orderly, StagesInOrder, End
<1>2. <<>> \in Seq(PieceSet) /\ <<>> \o <<>> = <<>>
  BY EmptySeq, ConcatEmptySeq
<1>3. \A e \in End : Line(e) = <<>>
  BY <1>1, <1>2 DEF Line, Arrived
<1>4. /\ ahead' = <<>> /\ reading' = reading /\ ~cut'
      /\ pipe'["dialer"] = <<>> /\ pipe'["acceptor"] = <<Command>>
      /\ writing'["dialer"] = Frame(Hello) /\ writing'["acceptor"] = <<>>
  BY <1>1 DEF Connect, IInv, TypeOK
<1>5. Line("dialer")' = <<>>
  BY <1>1, <1>2, <1>4 DEF Line, Arrived, Other
<1>6. Line("acceptor")' = <<Command>> \o Frame(Hello)
  <2>1. Command \in PieceSet
    BY DEF PieceSet
  <2>2. <<Command>> \in Seq(PieceSet)
    BY <2>1
  <2>3. <<>> \o <<Command>> = <<Command>>
    BY <2>2, ConcatEmptySeq
  <2>4. Line("acceptor")' = (<<>> \o (<<>> \o <<Command>>)) \o Frame(Hello)
    BY <1>1, <1>4 DEF Line, Arrived, Other
  <2>5. QED
    BY <2>3, <2>4
<1>7. QED
  BY <1>3, <1>5, <1>6

LEMMA CommandLines ==
    ASSUME IInv, ReadCommand
    PROVE  /\ 2 \in 1 .. Len(Line("acceptor")) + 1
           /\ Line("acceptor")' = SubSeq(Line("acceptor"), 2, Len(Line("acceptor")))
           /\ Line("dialer")' = IF cut THEN Line("dialer") ELSE Line("dialer") \o Frame(Hello)
<1> DEFINE a == pipe["acceptor"]
           w == IF cut THEN <<>> ELSE writing["dialer"]
<1>0. "acceptor" \in End /\ "dialer" \in End /\ Other("acceptor") = "dialer" /\ Other("dialer") = "acceptor"
  BY DEF End, Other
<1>1. /\ a \in Seq(PieceSet) /\ a # <<>> /\ w \in Seq(PieceSet) /\ Len(a) \in Nat \ {0}
      /\ <<>> \in Seq(PieceSet) /\ Len(<<>>) = 0
      /\ ahead = <<>> /\ reading["acceptor"] = <<>> /\ writing["acceptor"] = <<>>
  BY <1>0, EmptySeq DEF IInv, Orderly, TypeOK, ReadCommand, StagesInOrder
<1>2. PICK k \in 1 .. Len(a) : /\ ahead' = SubSeq(a, 2, k)
                               /\ pipe' = [pipe EXCEPT !["acceptor"] = SubSeq(a, k + 1, Len(a))]
  BY DEF ReadCommand
<1>3. UNCHANGED <<cut, reading>> /\ writing' = [writing EXCEPT !["acceptor"] = Frame(Hello)]
  BY DEF ReadCommand
<1>4. /\ pipe'["acceptor"] = SubSeq(a, k + 1, Len(a)) /\ pipe'["dialer"] = pipe["dialer"]
      /\ writing'["dialer"] = writing["dialer"]
  BY <1>0, <1>2, <1>3 DEF IInv, TypeOK
<1>5. Arrived("acceptor")' = Tail(a)
  <2> HIDE DEF a
  <2>1. 2 \in 1 .. Len(a) + 1 /\ k \in 2 - 1 .. Len(a) /\ Len(a) \in k .. Len(a)
    BY <1>1
  <2>2. SubSeq(a, 2, k) \o SubSeq(a, k + 1, Len(a)) = SubSeq(a, 2, Len(a))
    BY <1>1, <2>1, ConcatAdjacentSubSeq
  <2>3. Tail(a) = SubSeq(a, 2, Len(a))
    BY <1>1, TailIsSubSeq
  <2>4. QED
    BY <1>2, <1>4, <2>2, <2>3 DEF Arrived
<1>6. Arrived("acceptor") = a
  BY <1>0, <1>1, ConcatEmptySeq DEF Arrived
<1>7. PICK r \in Seq(PieceSet) : r = <<>>
  BY <1>1
<1>8. Line("acceptor") = Joined(r, a, w) /\ Line("acceptor")' = Joined(<<>>, Tail(a), w) /\ Len(r) = 0
  BY <1>0, <1>1, <1>3, <1>4, <1>5, <1>6, <1>7 DEF Line, Joined
<1>9. /\ Len(r) + 2 \in 1 .. Len(Joined(r, a, w)) + 1
      /\ Joined(<<>>, Tail(a), w) = SubSeq(Joined(r, a, w), Len(r) + 2, Len(Joined(r, a, w)))
  <2>1. a \in Seq(PieceSet) /\ w \in Seq(PieceSet) /\ a # <<>>
    BY <1>1
  <2> HIDE DEF a, w
  <2>2. QED
    BY <2>1, RestOfLine
<1>10. /\ 2 \in 1 .. Len(Line("acceptor")) + 1
       /\ Line("acceptor")' = SubSeq(Line("acceptor"), 2, Len(Line("acceptor")))
  <2>1. Len(r) + 2 = 2
    BY <1>8
  <2>2. QED
    BY <1>8, <1>9, <2>1, Zenon
<1>11. Arrived("dialer")' = Arrived("dialer")
  BY <1>4 DEF Arrived
<1>12. Line("dialer")' = IF cut THEN Line("dialer") ELSE Line("dialer") \o Frame(Hello)
  BY <1>0, <1>1, <1>3, <1>11, HelloNews, FrameJoins DEF IInv
<1>13. QED
  BY <1>10, <1>12

-----------------------------------------------------------------------------
(* Lines stay in order. *)

LEMMA InOrderStays ==
    ASSUME NEW e \in End, LineInOrder(e), Line(e)' = Line(e), old' = old,
           stage'[e] = stage[e], cut' \/ ~cut
    PROVE  LineInOrder(e)'
BY DEF LineInOrder, Opens, Whole, Chained

LEMMA InOrderEmpty ==
    ASSUME NEW e \in End, Line(e)' = <<>>
    PROVE  LineInOrder(e)'
<1>1. <<>> \in Seq(PieceSet) /\ Len(<<>>) = 0
  BY EmptySeq
<1>2. Chained(<<>>) /\ Whole(<<>>)
  BY <1>1 DEF Chained, Whole
<1>3. \A i \in 1 .. Len(Line(e)') : FALSE
  BY <1>1
<1>4. QED
  BY <1>2, <1>3 DEF LineInOrder, Chained, Whole

LEMMA InOrderCut ==
    ASSUME TypeOK, NEW e \in End, LineInOrder(e), old' = old, stage'[e] = stage[e], cut',
           NEW n \in 0 .. Len(Line(e)), Line(e)' = SubSeq(Line(e), 1, n)
    PROVE  LineInOrder(e)'
<1> DEFINE s == Line(e)  t == SubSeq(s, 1, n)
<1>1. s \in Seq(PieceSet) /\ Len(s) \in Nat
  BY ArrivedTyped, LenProperties
<1>2. t \in Seq(PieceSet) /\ Chained(t)
  <2> HIDE DEF s
  <2>1. 1 \in 1 .. Len(s) + 1 /\ n \in 0 .. Len(s)
    BY <1>1 DEF s
  <2>2. Chained(s)
    BY DEF LineInOrder, s
  <2>3. QED
    BY <1>1, <2>1, <2>2, ChainedPart
<1>3. Len(t) = n /\ \A i \in 1 .. n : t[i] = s[i]
  <2> HIDE DEF s
  <2>1. n \in Nat /\ n <= Len(s)
    BY <1>1 DEF s
  <2>2. \A i \in 1 .. n : s[i] \in PieceSet
    BY <1>1, <2>1, ElementOfSeq
  <2>3. n \in Int /\ 1 \in Int /\ n - 1 + 1 = n /\ (1 <= n \/ n = 0) /\ \A i \in 1 .. n : 1 + i - 1 = i
    BY <2>1
  <2>4. /\ Len(t) = (IF 1 <= n THEN n - 1 + 1 ELSE 0)
        /\ \A i \in 1 .. n - 1 + 1 : t[i] = s[1 + i - 1]
    BY <2>2, <2>3, SubSeqProperties
  <2> HIDE DEF t
  <2>5. QED
    BY <2>3, <2>4
<1>4. Line(e)' = t
  OBVIOUS
<1>5. Line(e)' # <<>> => Opens(stage'[e], Line(e)'[1])
  <2>1. SUFFICES ASSUME t # <<>> PROVE Opens(stage'[e], Line(e)'[1])
    BY <1>4
  <2>2. Len(t) \in Nat \ {0}
    BY <1>2, <2>1, EmptySeq
  <2>3. t[1] = s[1] /\ s # <<>>
    <3>1. 1 \in 1 .. n
      BY <1>3, <2>2
    <3>2. Len(s) # 0
      BY <1>1, <3>1
    <3>3. QED
      BY <1>3, <3>1, <3>2, EmptySeq
  <2>4. Opens(stage[e], s[1])
    BY <2>3 DEF LineInOrder
  <2>5. QED
    BY <1>4, <2>3, <2>4 DEF Opens
<1>6. ASSUME e \in old, NEW i \in 1 .. Len(Line(e)') PROVE Line(e)'[i].of # News
  <2>1. i \in 1 .. n /\ i \in 1 .. Len(s)
    BY <1>1, <1>3, <1>4, <1>6
  <2>2. QED
    BY <1>3, <1>4, <1>6, <2>1 DEF LineInOrder
<1>7. QED
  BY <1>2, <1>4, <1>5, <1>6 DEF LineInOrder, Chained

LEMMA InOrderRest ==
    ASSUME TypeOK, NEW e \in End, LineInOrder(e), old' = old, cut' = cut,
           NEW k \in 2 .. Len(Line(e)) + 1, Line(e)' = SubSeq(Line(e), k, Len(Line(e))),
           k <= Len(Line(e)) => Opens(stage'[e], Line(e)[k])
    PROVE  LineInOrder(e)'
<1> DEFINE s == Line(e)  n == Len(s)  t == SubSeq(s, k, n)
<1>1. s \in Seq(PieceSet) /\ n \in Nat /\ k \in Nat /\ 2 <= k /\ k <= n + 1
  BY ArrivedTyped, LenProperties
<1>2. t \in Seq(PieceSet) /\ Chained(t)
  <2> HIDE DEF s
  <2>1. k \in 1 .. Len(s) + 1 /\ n \in 0 .. Len(s)
    BY <1>1
  <2>2. Chained(s)
    BY DEF LineInOrder, s
  <2>3. QED
    BY <1>1, <2>1, <2>2, ChainedPart
<1>3. Len(t) = n - k + 1 /\ \A i \in 1 .. n - k + 1 : t[i] = s[k + i - 1]
  <2> HIDE DEF s
  <2>1. \A i \in k .. n : s[i] \in PieceSet
    BY <1>1, ElementOfSeq
  <2>2. n \in Int /\ k \in Int
    BY <1>1
  <2>3. /\ Len(t) = (IF k <= n THEN n - k + 1 ELSE 0)
        /\ \A i \in 1 .. n - k + 1 : t[i] = s[k + i - 1]
    BY <2>1, <2>2, SubSeqProperties
  <2> HIDE DEF t, n
  <2>4. QED
    BY <1>1, <2>3
<1>4. Line(e)' = t
  OBVIOUS
<1>5. ASSUME t # <<>> PROVE k <= n /\ Len(t) = n - k + 1 /\ t[1] = s[k] /\ t[Len(t)] = s[n] /\ s # <<>>
  <2>1. Len(t) \in Nat \ {0}
    BY <1>2, <1>5, EmptySeq
  <2>2. k <= n /\ 1 \in 1 .. n - k + 1 /\ Len(t) \in 1 .. n - k + 1 /\ k + 1 - 1 = k /\ k + Len(t) - 1 = n
    BY <1>1, <1>3, <2>1
  <2>3. n # 0
    BY <1>1, <2>2
  <2>4. QED
    BY <1>3, <2>2, <2>3, EmptySeq
<1>6. ASSUME e \in old, NEW i \in 1 .. Len(Line(e)') PROVE Line(e)'[i].of # News
  <2>1. i \in 1 .. n - k + 1 /\ k + i - 1 \in 1 .. n
    BY <1>1, <1>3, <1>4, <1>6
  <2>2. QED
    BY <1>3, <1>4, <1>6, <2>1 DEF LineInOrder
<1>7. ~cut' => Whole(Line(e))'
  BY <1>4, <1>5 DEF LineInOrder, Whole
<1>8. Line(e)' # <<>> => Opens(stage'[e], Line(e)'[1])
  BY <1>4, <1>5
<1>9. QED
  BY <1>2, <1>4, <1>6, <1>7, <1>8 DEF LineInOrder, Chained

LEMMA InOrderFrame ==
    ASSUME TypeOK, NEW e \in End, LineInOrder(e), ~cut, old' = old, stage'[e] = stage[e], cut' = cut,
           NEW m \in Message, Line(e)' = Line(e) \o Frame(m),
           IF Line(e) = <<>> THEN Opens(stage[e], Piece(m, 0)) ELSE m # Hello,
           e \in old => m # News
    PROVE  LineInOrder(e)' /\ Line(e)' # <<>>
<1> DEFINE s == Line(e)  f == Frame(m)  t == s \o f  n == Len(s)  d == Len(f)
<1>1. /\ s \in Seq(PieceSet) /\ n \in Nat /\ f \in Seq(PieceSet) /\ f # <<>> /\ d \in Nat \ {0}
      /\ f[1] = Piece(m, 0) /\ \A i \in 1 .. d : f[i].of = m
  <2>1. s \in Seq(PieceSet) /\ n \in Nat
    BY ArrivedTyped, LenProperties
  <2>2. /\ f \in Seq(PieceSet) /\ f # <<>> /\ d = 1 + m.size /\ m.size \in Nat
        /\ \A i \in 1 .. 1 + m.size : f[i] = Piece(m, i - 1)
    BY FrameTyped
  <2> HIDE DEF f, s
  <2>3. d \in Nat \ {0} /\ 1 \in 1 .. 1 + m.size
    BY <2>2, EmptySeq
  <2>4. f[1] = Piece(m, 0) /\ \A i \in 1 .. d : f[i].of = m
    <3>1. f[1] = Piece(m, 0)
      <4>1. f[1] = Piece(m, 1 - 1) /\ 1 - 1 = 0
        BY <2>2, <2>3
      <4>2. QED
        BY <4>1
    <3>2. ASSUME NEW i \in 1 .. d PROVE f[i].of = m
      <4>1. f[i] = Piece(m, i - 1)
        BY <2>2
      <4>2. QED
        BY <4>1 DEF Piece
    <3>3. QED
      BY <3>1, <3>2
  <2>5. QED
    BY <2>1, <2>2, <2>3, <2>4
<1>2. s # <<>> => s[n].of # Nothing /\ s[n].part = s[n].of.size /\ s[n] \in PieceSet
  <2>1. s # <<>> => n \in 1 .. n
    BY <1>1, EmptySeq
  <2>2. QED
    BY <1>1, <2>1, ElementOfSeq DEF LineInOrder, Whole
<1>3. s # <<>> => Follows(s[n], Piece(m, 0))
  <2>1. SUFFICES ASSUME s # <<>> PROVE Follows(s[n], Piece(m, 0))
    OBVIOUS
  <2>2. s[n] # Command /\ s[n].of.size \in Nat
    BY <1>2, <2>1, PieceTyped DEF Command
  <2>3. m # Nothing /\ m # Hello
    BY <2>1, HelloNews
  <2>4. QED
    BY <1>2, <2>1, <2>2, <2>3 DEF Follows, Piece
<1>4. Chained(t) /\ Whole(t)
  <2>1. Chained(s)
    BY DEF LineInOrder
  <2> HIDE DEF s
  <2>2. QED
    BY <1>1, <1>3, <2>1, ChainedFrame
<1>5. /\ Len(t) = n + d
      /\ \A i \in 1 .. n + d : t[i] = IF i <= n THEN s[i] ELSE f[i - n]
  <2> HIDE DEF s, f
  <2>1. QED
    BY <1>1, ConcatProperties
<1>6. Line(e)' = t
  OBVIOUS
<1>7. t # <<>>
  <2>1. Len(t) # 0
    BY <1>1, <1>5
  <2>2. QED
    BY <2>1, EmptySeq
<1>8. Opens(stage'[e], t[1])
  <2>1. CASE s = <<>>
    <3>1. n = 0
      BY <2>1, EmptySeq
    <3>2. 1 \in 1 .. n + d /\ ~(1 <= n) /\ 1 - n = 1
      BY <1>1, <3>1
    <3>3. t[1] = Piece(m, 0)
      BY <1>1, <1>5, <3>2
    <3>4. QED
      BY <2>1, <3>3 DEF Opens
  <2>2. CASE s # <<>>
    <3>1. n # 0
      BY <1>1, <2>2, EmptySeq
    <3>2. 1 \in 1 .. n + d /\ 1 <= n
      BY <1>1, <3>1
    <3>3. t[1] = s[1]
      BY <1>5, <3>2
    <3>4. QED
      BY <2>2, <3>3 DEF Opens, LineInOrder
  <2>3. QED
    BY <2>1, <2>2
<1>9. ASSUME e \in old, NEW i \in 1 .. n + d PROVE t[i].of # News
  <2>1. CASE i <= n
    <3>1. i \in 1 .. n /\ t[i] = s[i]
      BY <1>1, <1>5, <2>1
    <3>2. QED
      BY <1>9, <3>1 DEF LineInOrder
  <2>2. CASE ~(i <= n)
    <3>1. i - n \in 1 .. d /\ t[i] = f[i - n]
      BY <1>1, <1>5, <2>2
    <3>2. QED
      BY <1>1, <1>9, <3>1
  <2>3. QED
    BY <2>1, <2>2
<1> HIDE DEF t
<1>10. QED
  BY <1>4, <1>5, <1>6, <1>7, <1>8, <1>9 DEF LineInOrder

-----------------------------------------------------------------------------
(* What an end reads. *)

\* The message that the pieces in s are the beginning of.
Beginning(s, m) ==
    /\ s # <<>> /\ Len(s) \in 1 .. 1 + m.size /\ m \in Message
    /\ \A i \in 1 .. Len(s) : s[i] = Piece(m, i - 1)

LEMMA ReadNext ==
    ASSUME IInv, NEW e \in End, Reads(e), Arrived(e) # <<>>
    PROVE  /\ Len(reading[e]) + 1 \in 1 .. Len(Line(e))
           /\ Len(Taken(e)) = Len(reading[e]) + 1
           /\ \A i \in 1 .. Len(Taken(e)) : Taken(e)[i] = Line(e)[i]
           /\ \E m \in Message : /\ Beginning(Taken(e), m)
                                 /\ stage[e] = "hello" => m = Hello
                                 /\ stage[e] = "up" => m # Hello
                                 /\ e \in old => m # News
<1> DEFINE r == reading[e]  a == Arrived(e)  w == IF cut THEN <<>> ELSE writing[Other(e)]
           n == Len(r)  s == Line(e)  h == Head(a)  t == Append(r, h)
<1>1. /\ r \in Seq(PieceSet) /\ a \in Seq(PieceSet) /\ w \in Seq(PieceSet) /\ a # <<>> /\ n \in Nat
      /\ s \in Seq(PieceSet) /\ Len(s) \in Nat
  BY ArrivedTyped, LenProperties DEF IInv
<1>2. s = r \o a \o w /\ s = Joined(r, a, w)
  BY DEF Line, Joined
<1>3. h \in PieceSet /\ s[n + 1] = h
  <2> HIDE DEF r, a, w, s
  <2>1. h \in PieceSet /\ Joined(r, a, w)[Len(r) + 1] = h
    BY <1>1, ReadShifts
  <2>2. QED
    BY <1>2, <2>1
<1>4. /\ Len(s) = n + Len(a) + Len(w) /\ Len(a) \in Nat \ {0} /\ Len(w) \in Nat
      /\ \A i \in 1 .. n : s[i] = r[i]
  <2> HIDE DEF r, a, w, s
  <2>1. /\ Len(s) = n + Len(a) + Len(w) /\ Len(w) \in Nat
        /\ \A i \in 1 .. n + Len(a) + Len(w) :
              s[i] = IF i <= n THEN r[i] ELSE IF i <= n + Len(a) THEN a[i - n] ELSE w[i - n - Len(a)]
    <3>1. r \in Seq(PieceSet) /\ a \in Seq(PieceSet) /\ w \in Seq(PieceSet)
      BY <1>1
    <3>2. /\ Len(Joined(r, a, w)) = Len(r) + Len(a) + Len(w) /\ Len(w) \in Nat
          /\ \A i \in 1 .. Len(r) + Len(a) + Len(w) :
                 Joined(r, a, w)[i] = IF i <= Len(r) THEN r[i]
                                      ELSE IF i <= Len(r) + Len(a) THEN a[i - Len(r)]
                                      ELSE w[i - Len(r) - Len(a)]
      BY <3>1, Triple
    <3>3. QED
      BY <1>2, <3>2
  <2>2. Len(a) \in Nat \ {0}
    BY <1>1, EmptySeq
  <2>3. \A i \in 1 .. n : i \in 1 .. n + Len(a) + Len(w) /\ i <= n
    BY <1>1, <2>1, <2>2
  <2>4. QED
    BY <2>1, <2>2, <2>3
<1>5. n + 1 \in 1 .. Len(s)
  <2>1. n \in Nat /\ Len(a) \in Nat \ {0} /\ Len(w) \in Nat /\ Len(s) = n + Len(a) + Len(w)
    BY <1>1, <1>4
  <2> HIDE DEF s, a, w, n
  <2>2. QED
    BY <2>1
<1>6. t \in Seq(PieceSet) /\ t # <<>> /\ Len(t) = n + 1 /\ t[n + 1] = h /\ \A i \in 1 .. n : t[i] = r[i]
  <2> HIDE DEF r, h
  <2>1. QED
    BY <1>1, <1>3, AppendProperties
<1>7. \A i \in 1 .. n + 1 : t[i] = s[i]
  <2>1. \A i \in 1 .. n + 1 : i \in 1 .. n \/ i = n + 1
    BY <1>1
  <2>2. QED
    BY <1>3, <1>4, <1>6, <2>1
<1>8. stage[e] \in {"hello", "up"} /\ LineInOrder(e) /\ PartRead(e)
  BY DEF Reads, IInv, Orderly
<1>9. /\ Opens(stage[e], s[1]) /\ Chained(s) /\ s[1] \in PieceSet
      /\ e \in old => s[1].of # News
      /\ 1 \in 1 .. Len(s)
  <2>1. 1 \in 1 .. Len(s)
    BY <1>1, <1>5
  <2>2. s # <<>>
    BY <1>1, <2>1, EmptySeq
  <2>3. QED
    BY <1>1, <1>8, <2>1, <2>2, ElementOfSeq DEF LineInOrder
<1>10. /\ s[1].of \in Message /\ s[1].of.size \in Nat /\ s[1] = Piece(s[1].of, 0)
       /\ stage[e] = "hello" => s[1].of = Hello
       /\ stage[e] = "up" => s[1].of # Hello
  BY <1>8, <1>9, PieceTyped, HelloNews DEF Opens
<1> DEFINE m == s[1].of
<1>11. Beginning(t, m)
  <2>1. CASE n = 0
    <3>1. t[1] = s[1] /\ Len(t) = 1 /\ s[1] = Piece(m, 1 - 1)
      BY <1>6, <1>7, <1>10, <2>1
    <3>2. 1 \in 1 .. 1 + m.size
      BY <1>10
    <3>3. \A i \in 1 .. Len(t) : i = 1
      BY <3>1
    <3> HIDE DEF t, m
    <3>4. QED
      BY <1>6, <1>10, <3>1, <3>2, <3>3 DEF Beginning, m
  <2>2. CASE n # 0
    <3>1. n \in 1 .. n /\ 1 \in 1 .. n /\ r # <<>> /\ n \in 1 .. Len(s) - 1
      BY <1>1, <1>5, <2>2, EmptySeq
    <3>2. r[1] = s[1] /\ s[n] = r[n]
      BY <1>4, <3>1
    <3>3. n <= m.size /\ \A i \in 1 .. n : r[i] = Piece(m, i - 1)
      BY <1>8, <3>1, <3>2 DEF PartRead
    <3>4. s[n] = Piece(m, n - 1) /\ n - 1 < m.size /\ n - 1 + 1 = n
      BY <1>10, <3>1, <3>2, <3>3
    <3>5. Follows(s[n], s[n + 1])
      BY <1>9, <3>1 DEF Chained
    <3>6. s[n + 1] = Piece(m, n)
      BY <3>4, <3>5 DEF Follows, Piece
    <3>7. n + 1 \in 1 .. 1 + m.size
      BY <1>1, <1>10, <3>3
    <3> HIDE DEF m, s, r, t
    <3>8. ASSUME NEW i \in 1 .. n + 1 PROVE t[i] = Piece(m, i - 1)
      <4>1. CASE i \in 1 .. n
        BY <1>6, <3>3, <4>1
      <4>2. CASE i = n + 1
        <5>1. n + 1 - 1 = n
          BY <1>1
        <5>2. QED
          BY <1>3, <1>6, <3>6, <4>2, <5>1
      <4>3. QED
        BY <1>1, <4>1, <4>2
    <3>9. QED
      BY <1>6, <1>10, <3>7, <3>8 DEF Beginning, m
  <2>3. QED
    BY <2>1, <2>2
<1>12. Taken(e) = t
  BY DEF Taken
<1>13. QED
  BY <1>5, <1>6, <1>7, <1>9, <1>10, <1>11, <1>12

LEMMA NeverUnusable ==
    ASSUME IInv, NEW e \in End, Reads(e), Arrived(e) # <<>>
    PROVE  ~Unusable(e, Taken(e))
<1>1. PICK m \in Message : /\ Beginning(Taken(e), m)
                           /\ stage[e] = "hello" => m = Hello
                           /\ stage[e] = "up" => m # Hello
                           /\ e \in old => m # News
  BY ReadNext
<1>2. 1 \in 1 .. Len(Taken(e)) /\ Taken(e)[1] = Piece(m, 1 - 1)
  BY <1>1, Sizes DEF Beginning
<1>3. Head(Taken(e)) = Piece(m, 0)
  BY <1>2
<1>4. QED
  BY <1>1, <1>3 DEF Unusable, NoMessage, Piece

LEMMA MessageRead ==
    ASSUME IInv, NEW e \in End, ReadsMessage(e)
    PROVE  \E m \in Message :
             /\ last'[e] = m /\ Len(reading[e]) = m.size
             /\ stage[e] = "hello" => m = Hello
             /\ \A i \in 1 .. 1 + m.size : i \in 1 .. Len(Line(e)) /\ Line(e)[i] = Piece(m, i - 1)
             /\ Len(reading[e]) + 2 <= Len(Line(e)) => Opens("up", Line(e)[Len(reading[e]) + 2])
<1>0. Reads(e) /\ Arrived(e) # <<>> /\ Complete(Taken(e))
  BY DEF ReadsMessage, Takes
<1> DEFINE n == Len(reading[e])  s == Line(e)
<1>1. PICK m \in Message : /\ Beginning(Taken(e), m)
                           /\ stage[e] = "hello" => m = Hello
                           /\ stage[e] = "up" => m # Hello
                           /\ e \in old => m # News
  BY <1>0, ReadNext
<1>2. /\ n + 1 \in 1 .. Len(s) /\ Len(Taken(e)) = n + 1
      /\ \A i \in 1 .. Len(Taken(e)) : Taken(e)[i] = s[i]
  BY <1>0, ReadNext
<1>3. m.size \in Nat /\ n \in Nat /\ s \in Seq(PieceSet) /\ Len(s) \in Nat
  BY ArrivedTyped, LenProperties, Sizes DEF IInv
<1>4. 1 \in 1 .. Len(Taken(e)) /\ Taken(e)[1] = Piece(m, 1 - 1)
  BY <1>1, Sizes DEF Beginning
<1>5. Head(Taken(e)) = Piece(m, 0)
  BY <1>4
<1>6. Len(Taken(e)) = 1 + m.size
  BY <1>0, <1>5 DEF Complete, Piece
<1>7. n = m.size
  BY <1>2, <1>3, <1>6
<1>8. Taken(e) = Frame(m)
  <2>1. reading[e] \in Seq(PieceSet) /\ Head(Arrived(e)) \in PieceSet
    BY <1>0, ArrivedTyped, HeadTailProperties DEF IInv
  <2>2. Taken(e) \in Seq(PieceSet)
    BY <2>1, AppendProperties DEF Taken
  <2>3. /\ Frame(m) \in Seq(PieceSet) /\ Len(Frame(m)) = 1 + m.size
        /\ \A i \in 1 .. 1 + m.size : Frame(m)[i] = Piece(m, i - 1)
    BY FrameTyped
  <2>4. \A i \in 1 .. Len(Taken(e)) : Taken(e)[i] = Frame(m)[i]
    BY <1>1, <1>6, <2>3 DEF Beginning
  <2> DEFINE t == Taken(e)  f == Frame(m)
  <2> HIDE DEF t, f
  <2>5. t \in Seq(PieceSet) /\ f \in Seq(PieceSet) /\ Len(t) = Len(f) /\ \A i \in 1 .. Len(t) : t[i] = f[i]
    BY <1>6, <2>2, <2>3, <2>4 DEF t, f
  <2>6. t = f
    BY <2>5, SeqEqual
  <2>7. QED
    BY <2>6 DEF t, f
<1>9. last'[e] = m
  <2>1. MessageOf(Taken(e)) = m
    BY <1>5, <1>8 DEF MessageOf, Piece
  <2>2. QED
    BY <2>1 DEF ReadsMessage, IInv, TypeOK
<1>10. ASSUME NEW i \in 1 .. 1 + m.size PROVE i \in 1 .. Len(s) /\ s[i] = Piece(m, i - 1)
  BY <1>1, <1>2, <1>3, <1>6 DEF Beginning
<1>11. ASSUME n + 2 <= Len(s) PROVE Opens("up", s[n + 2])
  <2>1. n + 1 \in 1 .. Len(s) - 1 /\ n + 1 + 1 = n + 2
    BY <1>3, <1>11
  <2>2. Follows(s[n + 1], s[n + 2])
    <3>1. Chained(s)
      BY DEF IInv, Orderly, LineInOrder
    <3>2. QED
      BY <2>1, <3>1 DEF Chained
  <2>3. s[n + 1] = Piece(m, n)
    <3>1. n + 1 \in 1 .. 1 + m.size /\ n + 1 - 1 = n
      BY <1>3, <1>7
    <3>2. QED
      BY <1>10, <3>1
  <2>4. Piece(m, n) # Command /\ ~(n < m.size)
    BY <1>3, <1>7, HelloNews DEF Piece, Command
  <2>5. QED
    BY <2>2, <2>3, <2>4 DEF Follows, Opens, Piece
<1>12. QED
  BY <1>1, <1>7, <1>9, <1>10, <1>11

LEMMA OrderlyInit == Init => IInv
<1> SUFFICES ASSUME Init PROVE IInv
  OBVIOUS
<1>1. <<>> \in Seq(PieceSet) /\ Len(<<>>) = 0 /\ <<>> \o <<>> = <<>>
  BY EmptySeq, ConcatEmptySeq
<1>2. /\ cut /\ ahead = <<>> /\ ~misread
      /\ \A e \in End : /\ stage[e] = "down" /\ pipe[e] = <<>> /\ reading[e] = <<>>
                        /\ writing[e] = <<>>
      /\ "dialer" \in End /\ "acceptor" \in End
  BY DEF Init, End
<1>3. \A e \in End : Line(e) = <<>>
  BY <1>1, <1>2 DEF Line, Arrived
<1>4. \A e \in End : LineInOrder(e)
  BY <1>1, <1>2, <1>3 DEF LineInOrder, Chained
<1>5. \A e \in End : PartRead(e)
  BY <1>1, <1>2 DEF PartRead
<1>6. StagesInOrder /\ Handshake
  BY <1>2 DEF StagesInOrder, Handshake
<1>7. QED
  BY <1>2, <1>4, <1>5, <1>6, TypeInit DEF IInv, Orderly

LEMMA EndsOrderly == ASSUME IInv, NEW e \in End, Ends(e) PROVE Orderly'
<1> DEFINE o == Other(e)
<1>1. o \in End /\ o # e /\ Other(o) = e /\ \A x \in End : x = e \/ x = o
  BY Ends2
<1>2. Line(e)' = <<>> /\ cut'
  BY EndCuts DEF IInv
<1>3. PICK n \in 0 .. Len(Line(o)) : Line(o)' = SubSeq(Line(o), 1, n)
  BY EndCuts DEF IInv
<1>4. old' = old
  BY DEF Ends
<1>5. /\ stage'[e] = "down" /\ reading'[e] = <<>> /\ writing'[e] = <<>> /\ pipe'[e] = <<>>
      /\ stage'[o] = stage[o] /\ reading'[o] = reading[o] /\ writing'[o] = writing[o]
      /\ pipe'[o] \in Prefixes(pipe[o])
      /\ ahead' = IF e = "acceptor" THEN <<>> ELSE ahead
  BY <1>1 DEF Ends, IInv, TypeOK
<1>6. LineInOrder(e)' /\ LineInOrder(o)'
  <2> HIDE DEF o
  <2>1. QED
    BY <1>1, <1>2, <1>3, <1>4, <1>5, InOrderEmpty, InOrderCut DEF IInv, Orderly
<1>7. PartRead(e)' /\ PartRead(o)'
  <2>1. Len(<<>>) = 0
    BY EmptySeq
  <2>2. \A i \in 1 .. Len(reading'[e]) : FALSE
    BY <1>5, <2>1
  <2>3. PartRead(o)
    BY <1>1 DEF IInv, Orderly
  <2>4. QED
    BY <1>5, <2>2, <2>3 DEF PartRead
<1>8. StagesInOrder'
  <2>1. stage[o] = "down" => pipe'[o] = <<>>
    <3>1. SUFFICES ASSUME stage[o] = "down" PROVE pipe'[o] = <<>>
      OBVIOUS
    <3>2. pipe[o] = <<>> /\ <<>> \in Seq(PieceSet) /\ Len(<<>>) = 0
      BY <1>1, <3>1, EmptySeq DEF IInv, Orderly, StagesInOrder
    <3>3. pipe'[o] \in Seq(PieceSet) /\ Len(pipe'[o]) <= 0 /\ Len(pipe'[o]) \in Nat
      BY <1>5, <3>2, PrefixTyped, LenProperties
    <3>4. QED
      BY <3>3, EmptySeq
  <2>2. StagesInOrder
    BY DEF IInv, Orderly
  <2>3. e \in {"dialer", "acceptor"} /\ o \in {"dialer", "acceptor"}
    BY <1>1 DEF End
  <2>4. QED
    BY <1>1, <1>2, <1>5, <2>1, <2>2, <2>3 DEF StagesInOrder
<1>9. Handshake'
  BY <1>2 DEF Handshake
<1>10. QED
  BY <1>1, <1>6, <1>7, <1>8, <1>9 DEF Orderly

LEMMA BreakOrderly == ASSUME IInv, Break PROVE Orderly'
<1>1. cut' /\ UNCHANGED <<old, stage, ahead, writing, reading>> /\ ~cut
  BY DEF Break
<1>2. ASSUME NEW e \in End PROVE LineInOrder(e)' /\ PartRead(e)'
  <2>1. PICK n \in 0 .. Len(Line(e)) : Line(e)' = SubSeq(Line(e), 1, n)
    BY BreakCuts DEF IInv
  <2>2. LineInOrder(e)'
    BY <1>1, <2>1, InOrderCut DEF IInv, Orderly
  <2>3. PartRead(e)'
    BY <1>1 DEF IInv, Orderly, PartRead
  <2>4. QED
    BY <2>2, <2>3
<1>3. StagesInOrder'
  BY <1>1 DEF IInv, Orderly, StagesInOrder
<1>4. Handshake'
  BY <1>1 DEF Handshake
<1>5. QED
  BY <1>2, <1>3, <1>4 DEF Orderly

\* Steps that leave all lines as they are.
LEMMA LinesStayOrderly ==
    ASSUME IInv, UNCHANGED <<old, stage, cut>>, \A e \in End : Line(e)' = Line(e),
           \A e \in End : PartRead(e)', StagesInOrder',
           stage["acceptor"] = "command" /\ ~cut => pipe'["acceptor"] # <<>>
    PROVE  Orderly'
<1>1. \A e \in End : LineInOrder(e)'
  BY InOrderStays DEF IInv, Orderly
<1>2. Handshake'
  <2>1. "dialer" \in End
    BY DEF End
  <2>2. QED
    BY <2>1 DEF IInv, Orderly, Handshake
<1>3. QED
  BY <1>1, <1>2 DEF Orderly

LEMMA DaemonOrderly ==
    ASSUME IInv, NEW e \in End, Copy(e) \/ Desire(e) \/ Handled(e)
    PROVE  Orderly'
<1>1. UNCHANGED <<old, stage, cut, pipe, ahead, writing, reading>>
  BY DEF Copy, Desire, Handled, streams
<1>2. \A x \in End : Line(x)' = Line(x)
  BY <1>1, LineStays
<1>3. (\A x \in End : PartRead(x)') /\ StagesInOrder'
  BY <1>1 DEF IInv, Orderly, PartRead, StagesInOrder
<1>4. stage["acceptor"] = "command" /\ ~cut => pipe'["acceptor"] # <<>>
  BY <1>1 DEF IInv, Orderly, Handshake
<1>5. QED
  BY <1>1, <1>2, <1>3, <1>4, LinesStayOrderly

LEMMA PieceOrderly ==
    ASSUME IInv, NEW e \in End, WritePiece(e)
    PROVE  Orderly'
<1> DEFINE o == Other(e)
<1>0. o \in End /\ o # e /\ \A x \in End : x = e \/ x = o
  BY Ends2
<1>1. /\ UNCHANGED <<old, stage, cut, ahead, reading>> /\ writing[e] # <<>> /\ ~cut
      /\ writing'[o] = writing[o] /\ pipe'[e] = pipe[e]
      /\ pipe'[o] = Append(pipe[o], Head(writing[e]))
  BY <1>0 DEF WritePiece, IInv, TypeOK
<1>2. \A x \in End : Line(x)' = Line(x)
  BY PieceStays DEF IInv
<1>3. \A x \in End : PartRead(x)'
  BY <1>1 DEF IInv, Orderly, PartRead
<1>4. StagesInOrder
  BY DEF IInv, Orderly
<1>5. stage[e] # "down" /\ stage[o] # "down"
  BY <1>0, <1>1, <1>4 DEF StagesInOrder
<1>6. e \in {"dialer", "acceptor"} /\ o \in {"dialer", "acceptor"}
  BY <1>0 DEF End
<1>7. StagesInOrder'
  BY <1>0, <1>1, <1>4, <1>5, <1>6 DEF StagesInOrder
<1>8. stage["acceptor"] = "command" /\ ~cut => pipe'["acceptor"] # <<>>
  <2>1. SUFFICES ASSUME stage["acceptor"] = "command" PROVE pipe'["acceptor"] # <<>>
    OBVIOUS
  <2>2. e # "acceptor"
    BY <1>1, <1>4, <2>1 DEF StagesInOrder
  <2>3. o = "acceptor"
    BY <1>6, <2>2, <1>0
  <2>4. pipe[o] \in Seq(PieceSet) /\ Head(writing[e]) \in PieceSet
    BY <1>0, <1>1, HeadTailProperties DEF IInv, TypeOK
  <2>5. Append(pipe[o], Head(writing[e])) # <<>>
    BY <2>4, AppendProperties
  <2>6. QED
    BY <1>1, <2>3, <2>5
<1>9. QED
  BY <1>1, <1>2, <1>3, <1>7, <1>8, LinesStayOrderly

LEMMA PartOrderly ==
    ASSUME IInv, NEW e \in End, ReadPart(e)
    PROVE  Orderly'
<1> DEFINE o == Other(e)
<1>0. o \in End /\ o # e /\ \A x \in End : x = e \/ x = o
  BY Ends2
<1>1. /\ UNCHANGED <<old, stage, cut, writing>> /\ Reads(e) /\ Arrived(e) # <<>>
      /\ reading'[e] = Taken(e) /\ reading'[o] = reading[o] /\ TakePiece(e)
      /\ ~Complete(Taken(e)) /\ ~NoMessage(Taken(e))
  BY <1>0 DEF ReadPart, Takes, IInv, TypeOK
<1>2. \A x \in End : Line(x)' = Line(x)
  BY PartStays DEF IInv
<1>3. PICK m \in Message : /\ Beginning(Taken(e), m)
                           /\ stage[e] = "hello" => m = Hello
                           /\ stage[e] = "up" => m # Hello
                           /\ e \in old => m # News
  BY <1>1, ReadNext
<1>4. 1 \in 1 .. Len(Taken(e)) /\ Taken(e)[1] = Piece(m, 1 - 1) /\ Len(Taken(e)) \in 1 .. 1 + m.size /\ m.size \in Nat
  BY <1>3, Sizes DEF Beginning
<1>5. Taken(e)[1].of = m /\ Head(Taken(e)).of = m
  BY <1>4 DEF Piece
<1>6. Len(Taken(e)) <= m.size
  <2>1. Len(Taken(e)) # 1 + m.size
    BY <1>1, <1>5 DEF Complete
  <2>2. QED
    BY <1>4, <2>1
<1>7. stage[e] = "up"
  <2>1. m # Hello
    BY <1>4, <1>6, HelloNews
  <2>2. QED
    BY <1>1, <1>3, <2>1 DEF Reads
<1>8. PartRead(e)'
  BY <1>1, <1>3, <1>5, <1>6, <1>7 DEF PartRead, Beginning
<1>9. PartRead(o)'
  BY <1>0, <1>1 DEF IInv, Orderly, PartRead
<1>10. /\ stage["acceptor"] \in {"command", "down"} => ahead' = ahead /\ pipe'["acceptor"] = pipe["acceptor"]
       /\ pipe'[o] = pipe[o]
  <2>1. stage["acceptor"] \in {"command", "down"} => e # "acceptor"
    BY <1>7
  <2>2. e \in {"dialer", "acceptor"}
    BY DEF End
  <2>3. e # "acceptor" => ahead' = ahead /\ pipe'["acceptor"] = pipe["acceptor"]
    BY <1>1, <2>2 DEF TakePiece, IInv, TypeOK, End
  <2>4. pipe'[o] = pipe[o]
    BY <1>0, <1>1 DEF TakePiece, IInv, TypeOK
  <2>5. QED
    BY <2>1, <2>3, <2>4
<1>11. StagesInOrder
  BY DEF IInv, Orderly
<1>12. e \in {"dialer", "acceptor"} /\ o \in {"dialer", "acceptor"}
  BY <1>0 DEF End
<1>13. StagesInOrder'
  BY <1>0, <1>1, <1>7, <1>10, <1>11, <1>12 DEF StagesInOrder
<1>14. stage["acceptor"] = "command" /\ ~cut => pipe'["acceptor"] # <<>>
  BY <1>10 DEF IInv, Orderly, Handshake
<1>15. QED
  BY <1>0, <1>1, <1>2, <1>8, <1>9, <1>13, <1>14, LinesStayOrderly

LEMMA MessageOrderly ==
    ASSUME IInv, NEW e \in End, Meet(e) \/ ReceiveClip(e) \/ ReceiveNews(e)
    PROVE  Orderly'
<1> DEFINE o == Other(e)  n == Len(reading[e])  s == Line(e)
<1>0. o \in End /\ o # e /\ Other(o) = e /\ (\A x \in End : x = e \/ x = o)
      /\ e \in {"dialer", "acceptor"} /\ o \in {"dialer", "acceptor"}
  BY Ends2
<1>1. ReadsMessage(e)
  BY DEF Meet, ReceiveClip, ReceiveNews
<1>2. /\ UNCHANGED <<old, cut, writing>> /\ Reads(e) /\ Arrived(e) # <<>> /\ TakePiece(e)
      /\ reading'[e] = <<>> /\ reading'[o] = reading[o]
  BY <1>0, <1>1 DEF ReadsMessage, Takes, IInv, TypeOK
<1>3. stage' = [stage EXCEPT ![e] = "up"] /\ stage[e] \in {"hello", "up"}
  <2>1. CASE Meet(e)
    BY <2>1 DEF Meet
  <2>2. CASE ReceiveClip(e) \/ ReceiveNews(e)
    BY <2>2 DEF ReceiveClip, ReceiveNews, IInv, TypeOK
  <2>3. QED
    BY <2>1, <2>2
<1>4. stage'[e] = "up" /\ stage'[o] = stage[o]
  BY <1>0, <1>3 DEF IInv, TypeOK
<1>5. /\ n + 2 \in 1 .. Len(s) + 1 /\ Line(e)' = SubSeq(s, n + 2, Len(s)) /\ Line(o)' = Line(o)
  BY <1>1, MessageLeaves DEF IInv
<1>6. n + 2 <= Len(s) => Opens("up", s[n + 2])
  BY <1>1, MessageRead
<1>7. LineInOrder(e)'
  <2>1. n \in Nat /\ Len(s) \in Nat
    BY ArrivedTyped, LenProperties DEF IInv
  <2>2. n + 2 \in 2 .. Len(s) + 1
    BY <1>5, <2>1
  <2> DEFINE k == n + 2
  <2>3. k \in 2 .. Len(s) + 1 /\ Line(e)' = SubSeq(s, k, Len(s)) /\ (k <= Len(s) => Opens(stage'[e], s[k]))
    BY <1>4, <1>5, <1>6, <2>2
  <2> HIDE DEF k, n
  <2>4. QED
    BY <1>2, <2>3, InOrderRest DEF IInv, Orderly
<1>8. LineInOrder(o)'
  BY <1>0, <1>2, <1>4, <1>5, InOrderStays DEF IInv, Orderly
<1>9. PartRead(e)' /\ PartRead(o)'
  <2>1. \A i \in 1 .. Len(reading'[e]) : FALSE
    BY <1>2, EmptySeq
  <2>2. PartRead(o)
    BY <1>0 DEF IInv, Orderly
  <2>3. QED
    BY <1>2, <1>4, <2>1, <2>2 DEF PartRead
<1>10. /\ pipe'[o] = pipe[o]
       /\ o = "acceptor" => ahead' = ahead
  BY <1>0, <1>2 DEF TakePiece, IInv, TypeOK
<1>11. StagesInOrder /\ Handshake
  BY DEF IInv, Orderly
<1>12. StagesInOrder'
  BY <1>0, <1>2, <1>3, <1>4, <1>10, <1>11 DEF StagesInOrder
<1>13. s # <<>>
  <2>1. n + 1 \in 1 .. Len(s)
    BY <1>2, ReadNext
  <2>2. Len(s) # 0
    BY <2>1
  <2>3. QED
    BY <2>2, EmptySeq
<1>14. Handshake'
  <2>1. SUFFICES ASSUME ~cut PROVE Handshake'
    BY <1>2 DEF Handshake
  <2>2. stage[o] = "command" => o = "acceptor" /\ e = "dialer"
    BY <1>0, <1>11 DEF StagesInOrder
  <2>3. stage[o] # "command"
    BY <1>11, <1>13, <2>1, <2>2 DEF Handshake
  <2>4. ~(stage[o] = "hello" /\ Line(o) = <<>>)
    BY <1>0, <1>3, <1>11, <2>1 DEF Handshake
  <2>5. stage'["acceptor"] # "command"
    BY <1>0, <1>4, <2>3
  <2>6. \A x \in End : ~(stage'[x] = "hello" /\ Line(x)' = <<>>)
    BY <1>0, <1>4, <1>5, <2>4
  <2>7. QED
    BY <2>5, <2>6 DEF Handshake
<1>15. QED
  BY <1>0, <1>7, <1>8, <1>9, <1>12, <1>14 DEF Orderly

\* What an end that is up writes next.
LEMMA SentMessage ==
    ASSUME TypeOK, NEW e \in End, SendClip(e) \/ SendNews(e)
    PROVE  /\ stage[e] = "up" /\ writing[e] = <<>>
           /\ UNCHANGED <<old, stage, cut, pipe, ahead, reading>>
           /\ \E m \in Message : /\ writing' = [writing EXCEPT ![e] = Frame(m)]
                                 /\ m # Hello /\ (Other(e) \in old => m # News)
<1>1. CASE SendClip(e)
  <2>1. slot[e] \in Size
    BY <1>1 DEF SendClip, TypeOK
  <2>2. QED
    BY <1>1, <2>1, ClipMessage DEF SendClip
<1>2. CASE SendNews(e)
  BY <1>2, HelloNews DEF SendNews
<1>3. QED
  BY <1>1, <1>2

LEMMA SendOrderly ==
    ASSUME IInv, NEW e \in End, SendClip(e) \/ SendNews(e)
    PROVE  Orderly'
<1> DEFINE o == Other(e)
<1>0. o \in End /\ o # e /\ Other(o) = e /\ (\A x \in End : x = e \/ x = o)
      /\ e \in {"dialer", "acceptor"} /\ o \in {"dialer", "acceptor"}
  BY Ends2
<1>1. stage[e] = "up" /\ writing[e] = <<>> /\ UNCHANGED <<old, stage, cut, pipe, ahead, reading>>
  BY SentMessage DEF IInv
<1>2. PICK m \in Message : /\ writing' = [writing EXCEPT ![e] = Frame(m)]
                           /\ m # Hello /\ (o \in old => m # News)
  BY SentMessage DEF IInv
<1>3. writing'[o] = writing[o]
  BY <1>0, <1>2 DEF IInv, TypeOK
<1>4. Line(e)' = Line(e)
  BY <1>1, <1>3, LineStays
<1>5. Line(o)' = IF cut THEN Line(o) ELSE Line(o) \o Frame(m)
  <2>1. Arrived(o)' = Arrived(o)
    BY <1>1 DEF Arrived
  <2>2. QED
    BY <1>1, <1>2, <2>1, FrameJoins DEF IInv
<1>6. LineInOrder(e)'
  BY <1>1, <1>4, InOrderStays DEF IInv, Orderly
<1>7. StagesInOrder /\ Handshake /\ LineInOrder(o)
  BY <1>0 DEF IInv, Orderly
<1>8. ~cut => (Line(o) = <<>> => stage[o] = "up")
  <2>1. SUFFICES ASSUME ~cut, Line(o) = <<>> PROVE stage[o] = "up"
    OBVIOUS
  <2>2. stage[o] # "down" /\ stage[o] \in {"down", "command", "hello", "up"}
    BY <1>0, <1>7, <2>1 DEF StagesInOrder, IInv, TypeOK
  <2>3. stage[o] # "hello"
    BY <1>0, <1>1, <1>7, <2>1 DEF Handshake
  <2>4. stage[o] # "command"
    BY <1>0, <1>1, <1>7, <2>1 DEF Handshake, StagesInOrder
  <2>5. QED
    BY <2>2, <2>3, <2>4
<1>9. LineInOrder(o)' /\ (~cut => Line(o)' # <<>>)
  <2>1. CASE cut
    BY <1>0, <1>1, <1>5, <1>7, <2>1, InOrderStays
  <2>2. CASE ~cut
    <3>1. IF Line(o) = <<>> THEN Opens(stage[o], Piece(m, 0)) ELSE m # Hello
      BY <1>2, <1>8, <2>2, HelloNews DEF Opens, Piece
    <3>2. Line(o)' = Line(o) \o Frame(m) /\ stage'[o] = stage[o]
      BY <1>1, <1>5, <2>2
    <3> HIDE DEF o
    <3>3. QED
      BY <1>0, <1>1, <1>2, <1>7, <2>2, <3>1, <3>2, InOrderFrame DEF IInv
  <2>3. QED
    BY <2>1, <2>2
<1>10. \A x \in End : PartRead(x)'
  BY <1>1 DEF IInv, Orderly, PartRead
<1>11. StagesInOrder'
  BY <1>0, <1>1, <1>3, <1>7 DEF StagesInOrder
<1>12. Handshake'
  BY <1>0, <1>1, <1>4, <1>7, <1>9 DEF Handshake
<1>13. QED
  BY <1>0, <1>6, <1>9, <1>10, <1>11, <1>12 DEF Orderly

LEMMA CommandOrderly == ASSUME IInv, ReadCommand PROVE Orderly'
<1> DEFINE s == Line("acceptor")  d == Line("dialer")
<1>0. /\ "dialer" \in End /\ "acceptor" \in End /\ \A x \in End : x = "dialer" \/ x = "acceptor"
      /\ Other("acceptor") = "dialer" /\ Other("dialer") = "acceptor"
  BY DEF End, Other
<1>1. /\ stage["acceptor"] = "command" /\ UNCHANGED <<old, cut, reading>>
      /\ stage'["acceptor"] = "hello" /\ stage'["dialer"] = stage["dialer"]
      /\ writing'["dialer"] = writing["dialer"] /\ pipe["acceptor"] # <<>>
      /\ pipe'["dialer"] = pipe["dialer"]
  BY <1>0 DEF ReadCommand, IInv, TypeOK
<1>2. /\ 2 \in 1 .. Len(s) + 1 /\ Line("acceptor")' = SubSeq(s, 2, Len(s))
      /\ Line("dialer")' = IF cut THEN d ELSE d \o Frame(Hello)
  BY CommandLines
<1>3. LineInOrder("acceptor") /\ LineInOrder("dialer") /\ StagesInOrder /\ Handshake
  BY <1>0 DEF IInv, Orderly
<1>4. s \in Seq(PieceSet) /\ Len(s) \in Nat
  BY <1>0, ArrivedTyped, LenProperties DEF IInv
<1>5. Len(s) >= 1 /\ s # <<>> /\ s[1] = Command
  <2>1. Len(s) >= 1
    BY <1>2, <1>4
  <2>2. s # <<>>
    BY <1>4, <2>1, EmptySeq
  <2>3. QED
    BY <1>1, <1>3, <2>1, <2>2 DEF LineInOrder, Opens
<1>6. 2 <= Len(s) => Opens("hello", s[2])
  <2>1. SUFFICES ASSUME 2 <= Len(s) PROVE Opens("hello", s[2])
    OBVIOUS
  <2>2. 1 \in 1 .. Len(s) - 1 /\ 1 + 1 = 2
    BY <1>4, <2>1
  <2>3. Follows(s[1], s[2])
    BY <1>3, <2>2 DEF LineInOrder, Chained
  <2>4. QED
    BY <1>5, <2>3 DEF Follows, Opens, Command, Nothing
<1>7. LineInOrder("acceptor")'
  <2>1. 2 \in 2 .. Len(s) + 1 /\ (2 <= Len(s) => Opens(stage'["acceptor"], s[2]))
    BY <1>1, <1>2, <1>4, <1>6
  <2>2. QED
    BY <1>0, <1>1, <1>2, <1>3, <2>1, InOrderRest DEF IInv
<1>8. LineInOrder("dialer")' /\ (~cut => Line("dialer")' # <<>>)
  <2>1. CASE cut
    BY <1>0, <1>1, <1>2, <1>3, <2>1, InOrderStays
  <2>2. CASE ~cut
    <3>1. d = <<>> /\ stage["dialer"] = "hello"
      BY <1>1, <1>3, <2>2 DEF Handshake
    <3>2. Opens(stage["dialer"], Piece(Hello, 0)) /\ Hello # News /\ Hello \in Message
      BY <3>1, HelloNews DEF Opens, Piece
    <3>3. QED
      BY <1>0, <1>1, <1>2, <1>3, <2>2, <3>1, <3>2, InOrderFrame DEF IInv
  <2>3. QED
    BY <2>1, <2>2
<1>9. ~cut => Line("acceptor")' # <<>>
  <2>1. SUFFICES ASSUME ~cut PROVE Line("acceptor")' # <<>>
    OBVIOUS
  <2>2. s[Len(s)].of # Nothing
    BY <1>3, <1>5, <2>1 DEF LineInOrder, Whole
  <2>3. Len(s) # 1
    BY <1>5, <2>2 DEF Command
  <2>4. 2 <= Len(s)
    <3> DEFINE n == Len(s)
    <3>1. n \in Nat /\ n >= 1 /\ n # 1
      BY <1>4, <1>5, <2>3
    <3> HIDE DEF n
    <3>2. 2 <= n
      BY <3>1
    <3>3. QED
      BY <3>2 DEF n
  <2>5. Len(SubSeq(s, 2, Len(s))) = Len(s) - 2 + 1
    <3>1. \A i \in 2 .. Len(s) : s[i] \in PieceSet
      BY <1>4, ElementOfSeq
    <3>2. Len(s) \in Int /\ 2 \in Int
      BY <1>4
    <3> HIDE DEF s
    <3>3. QED
      BY <2>4, <3>1, <3>2, SubSeqProperties
  <2>6. QED
    BY <1>2, <1>4, <2>4, <2>5, EmptySeq
<1>10. \A x \in End : PartRead(x)'
  <2>1. PartRead("dialer") /\ reading["acceptor"] = <<>>
    BY <1>0, <1>1, <1>3 DEF IInv, Orderly, StagesInOrder
  <2>2. \A i \in 1 .. Len(reading'["acceptor"]) : FALSE
    BY <1>1, <2>1, EmptySeq
  <2>3. QED
    BY <1>0, <1>1, <2>1, <2>2 DEF PartRead
<1>11. StagesInOrder'
  BY <1>0, <1>1, <1>3 DEF StagesInOrder
<1>12. Handshake'
  BY <1>0, <1>1, <1>8, <1>9 DEF Handshake
<1>13. QED
  BY <1>0, <1>7, <1>8, <1>10, <1>11, <1>12 DEF Orderly

LEMMA ConnectOrderly == ASSUME IInv, Connect PROVE Orderly'
<1>0. /\ "dialer" \in End /\ "acceptor" \in End /\ \A x \in End : x = "dialer" \/ x = "acceptor"
      /\ Other("acceptor") = "dialer" /\ Other("dialer") = "acceptor"
  BY DEF End, Other
<1>1. Line("dialer")' = <<>> /\ Line("acceptor")' = <<Command>> \o Frame(Hello)
  BY ConnectLines
<1>2. /\ \A x \in End : stage[x] = "down" /\ reading[x] = <<>>
      /\ stage'["dialer"] = "hello" /\ stage'["acceptor"] = "command"
      /\ UNCHANGED <<old, ahead, reading>> /\ ahead = <<>>
      /\ pipe'["acceptor"] = <<Command>> /\ writing'["acceptor"] = writing["acceptor"]
      /\ writing["acceptor"] = <<>>
  BY <1>0 DEF Connect, IInv, Orderly, TypeOK, StagesInOrder
<1>3. LineInOrder("dialer")'
  BY <1>0, <1>1, InOrderEmpty
<1>4. Command \in PieceSet /\ Command.part = 0 /\ Command.of = Nothing /\ ~(0 < Nothing.size)
  BY HelloNews DEF PieceSet, Command
<1>5. <<Command>> \in Seq(PieceSet) /\ Len(<<Command>>) = 1 /\ <<Command>>[1] = Command
  BY <1>4
<1>6. /\ Frame(Hello) = <<Piece(Hello, 0)>> /\ Frame(Hello) \in Seq(PieceSet)
      /\ Hello \in Message
  <2>1. Frame(Hello) = [k \in 1 .. 1 |-> Piece(Hello, k - 1)]
    BY HelloNews DEF Frame
  <2>2. /\ Frame(Hello) \in Seq(PieceSet) /\ Len(Frame(Hello)) = 1 + Hello.size /\ Hello \in Message
        /\ \A i \in 1 .. 1 + Hello.size : Frame(Hello)[i] = Piece(Hello, i - 1)
    BY HelloNews, FrameTyped
  <2>3. Len(Frame(Hello)) = 1 /\ Frame(Hello)[1] = Piece(Hello, 0)
    <3>1. 1 + Hello.size = 1 /\ 1 \in 1 .. 1 + Hello.size /\ 1 - 1 = 0
      BY HelloNews
    <3>2. Frame(Hello)[1] = Piece(Hello, 1 - 1)
      BY <2>2, <3>1
    <3>3. QED
      BY <2>2, <3>1, <3>2
  <2>4. Frame(Hello)[1] \in PieceSet
    <3>1. 0 \in 0 .. Hello.size
      BY HelloNews
    <3>2. QED
      BY <2>2, <2>3, <3>1 DEF PieceSet
  <2> DEFINE f == Frame(Hello)  q == Piece(Hello, 0)  g == <<q>>
  <2>5. f \in Seq(PieceSet) /\ Len(f) = 1 /\ f[1] = q /\ q \in PieceSet
    BY <2>2, <2>3, <2>4
  <2> HIDE DEF f, q
  <2>6. g \in Seq(PieceSet) /\ Len(g) = 1 /\ g[1] = q
    BY <2>5
  <2>7. f = g
    BY <2>5, <2>6, SeqEqual
  <2>8. QED
    BY <2>2, <2>7 DEF f, q
<1>7. Line("acceptor")' = <<Command, Piece(Hello, 0)>>
  BY <1>1, <1>6
<1> DEFINE l == <<Command, Piece(Hello, 0)>>
<1>8. Len(l) = 2 /\ l[1] = Command /\ l[2] = Piece(Hello, 0) /\ l # <<>>
  OBVIOUS
<1>9. Chained(l) /\ Whole(l)
  <2>1. Follows(l[1], l[2])
    BY <1>4, <1>8 DEF Follows, Piece
  <2>2. \A i \in 1 .. Len(l) - 1 : i = 1
    BY <1>8
  <2>3. Whole(l)
    BY <1>8, HelloNews DEF Whole, Piece
  <2> HIDE DEF l
  <2>4. QED
    BY <2>1, <2>2, <2>3 DEF Chained
<1>10. \A i \in 1 .. Len(l) : l[i].of # News
  <2>1. \A i \in 1 .. Len(l) : i = 1 \/ i = 2
    BY <1>8
  <2> HIDE DEF l
  <2>2. QED
    BY <1>4, <1>8, <2>1, HelloNews DEF Piece
<1>11. LineInOrder("acceptor")'
  <2>1. Opens("command", l[1])
    BY <1>4, <1>8 DEF Opens
  <2> HIDE DEF l
  <2>2. Line("acceptor")' = l
    BY <1>7 DEF l
  <2>3. QED
    BY <1>2, <1>9, <1>10, <2>1, <2>2 DEF LineInOrder, Chained, Whole
<1>12. \A x \in End : PartRead(x)'
  <2>1. \A x \in End : \A i \in 1 .. Len(reading'[x]) : FALSE
    BY <1>2, EmptySeq
  <2>2. QED
    BY <1>2, <2>1 DEF PartRead
<1>13. StagesInOrder'
  BY <1>0, <1>2 DEF StagesInOrder
<1>14. Handshake'
  BY <1>0, <1>1, <1>2, <1>8, <1>7 DEF Handshake
<1>15. QED
  BY <1>0, <1>3, <1>11, <1>12, <1>13, <1>14 DEF Orderly

LEMMA Step == ASSUME IInv, [Next]_vars PROVE IInv'
<1>0. TypeOK'
  BY TypeStep DEF IInv
<1>1. ASSUME Orderly', misread' = misread PROVE IInv'
  BY <1>0, <1>1 DEF IInv
<1>2. CASE UNCHANGED vars
  <2>0. UNCHANGED <<old, stage, cut, pipe, ahead, writing, reading>>
    BY <1>2 DEF vars, streams
  <2>3. \A e \in End : Line(e)' = Line(e)
    BY <2>0, LineStays
  <2>4. (\A e \in End : PartRead(e)') /\ StagesInOrder'
    BY <2>0 DEF IInv, Orderly, PartRead, StagesInOrder
  <2>5. stage["acceptor"] = "command" /\ ~cut => pipe'["acceptor"] # <<>>
    BY <2>0 DEF IInv, Orderly, Handshake
  <2>1. Orderly'
    BY <2>0, <2>3, <2>4, <2>5, LinesStayOrderly
  <2>2. QED
    BY <1>1, <1>2, <2>1 DEF vars
<1>3. ASSUME NEW e \in End, Copy(e) \/ Desire(e) \/ Handled(e) PROVE IInv'
  BY <1>1, <1>3, DaemonOrderly DEF Copy, Desire, Handled
<1>4. ASSUME NEW e \in End, WritePiece(e) PROVE IInv'
  BY <1>1, <1>4, PieceOrderly DEF WritePiece
<1>5. ASSUME NEW e \in End, SendClip(e) \/ SendNews(e) PROVE IInv'
  BY <1>1, <1>5, SendOrderly DEF SendClip, SendNews
<1>6. ASSUME NEW e \in End, ReadPart(e) PROVE IInv'
  BY <1>1, <1>6, PartOrderly DEF ReadPart
<1>7. ASSUME NEW e \in End, Meet(e) \/ ReceiveClip(e) \/ ReceiveNews(e) PROVE IInv'
  BY <1>1, <1>7, MessageOrderly DEF Meet, ReceiveClip, ReceiveNews, ReadsMessage
<1>8. ASSUME NEW e \in End, WriteFails(e) \/ SeesEnd(e) \/ ReadFails(e) PROVE IInv'
  <2>1. Ends(e)
    BY <1>8 DEF WriteFails, SeesEnd, ReadFails
  <2>2. misread' = misread
    <3>1. CASE ReadFails(e)
      BY <3>1, NeverUnusable DEF ReadFails, Refused, IInv, TypeOK
    <3>2. CASE WriteFails(e) \/ SeesEnd(e)
      BY <3>2 DEF WriteFails, SeesEnd
    <3>3. QED
      BY <1>8, <3>1, <3>2
  <2>3. QED
    BY <1>1, <2>1, <2>2, EndsOrderly
<1>9. CASE Connect
  BY <1>1, <1>9, ConnectOrderly DEF Connect
<1>10. CASE Break
  BY <1>1, <1>10, BreakOrderly DEF Break
<1>11. CASE ReadCommand
  BY <1>1, <1>11, CommandOrderly DEF ReadCommand
<1>12. QED
  BY <1>2, <1>3, <1>4, <1>5, <1>6, <1>7, <1>8, <1>9, <1>10, <1>11 DEF Next, WriteHalf, ReadHalf

\* However the two ends interleave what they write, and wherever a connection
\* breaks, an end that reads finds the frames of the other where they begin and
\* of a kind that it knows.
THEOREM FramesAlwaysHold == Spec => []FramesHold
<1>1. IInv => FramesHold
  BY DEF IInv, FramesHold
<1>2. IInv /\ [Next]_vars => IInv'
  BY Step
<1>3. QED
  BY OrderlyInit, <1>1, <1>2, PTL DEF Spec

-----------------------------------------------------------------------------
(* The messages of a line.                                                 *)

LEMMA Least == ASSUME NEW T \in SUBSET Nat, T # {} PROVE \E x \in T : \A y \in T : x <= y
<1> DEFINE R == {s \in Nat \X Nat : s[1] < s[2]}
<1>1. IsWellFoundedOn(R, Nat)
  BY NatLessThanWellFounded DEF OpToRel
<1> HIDE DEF R
<1>2. PICK x \in T : \A y \in T : ~(<<y, x>> \in R)
  BY <1>1, WFMin, Zenon
<1>3. \A y \in T : ~(y < x)
  BY <1>2 DEF R
<1>4. QED
  BY <1>3

Adds(p, x) == IF p.part = 0 /\ p # Command THEN Append(x, p.of) ELSE x

Reckons(s, n, f) ==
    f = [i \in 0 .. n |-> IF i = 0 THEN <<>>
                          ELSE IF s[i].part = 0 /\ s[i] # Command THEN Append(f[i - 1], s[i].of)
                          ELSE f[i - 1]]

LEMMA ReckonsExist == ASSUME NEW s PROVE \A n \in Nat : \E f : Reckons(s, n, f)
<1> DEFINE T == {n \in Nat : ~\E f : Reckons(s, n, f)}
<1>1. SUFFICES ASSUME T # {} PROVE FALSE
  OBVIOUS
<1>2. PICK n \in T : \A m \in T : n <= m
  BY <1>1, Least
<1>3. n # 0
  <2> DEFINE f == [i \in 0 .. 0 |-> <<>>]
  <2>1. f = [i \in 0 .. 0 |-> IF i = 0 THEN <<>>
                              ELSE IF s[i].part = 0 /\ s[i] # Command THEN Append(f[i - 1], s[i].of)
                              ELSE f[i - 1]]
    OBVIOUS
  <2>2. QED
    BY <1>2, <2>1 DEF Reckons
<1>4. n \in Nat /\ n - 1 \in Nat /\ n - 1 \notin T
  BY <1>2, <1>3
<1>5. PICK f : Reckons(s, n - 1, f)
  BY <1>4
<1> DEFINE h == [i \in 0 .. n |-> IF i = n THEN Adds(s[n], f[n - 1]) ELSE f[i]]
<1>6. \A i \in 0 .. n : h[i] = IF i = 0 THEN <<>> ELSE Adds(s[i], h[i - 1])
  <2> SUFFICES ASSUME NEW i \in 0 .. n PROVE h[i] = IF i = 0 THEN <<>> ELSE Adds(s[i], h[i - 1])
    OBVIOUS
  <2>1. CASE i = n
    <3>1. n - 1 \in 0 .. n /\ n - 1 # n
      BY <1>4
    <3>2. h[n - 1] = f[n - 1]
      BY <3>1
    <3>3. QED
      BY <1>3, <2>1, <3>2
  <2>2. CASE i # n
    <3>1. i \in 0 .. n - 1 /\ (i # 0 => i - 1 \in 0 .. n /\ i - 1 # n)
      BY <1>4, <2>2
    <3>2. h[i] = f[i] /\ (i # 0 => h[i - 1] = f[i - 1])
      BY <2>2, <3>1
    <3>3. f[i] = IF i = 0 THEN <<>> ELSE Adds(s[i], f[i - 1])
      BY <1>5, <3>1 DEF Reckons, Adds
    <3>4. QED
      BY <3>2, <3>3
  <2>3. QED
    BY <2>1, <2>2
<1>7. Reckons(s, n, h)
  <2>1. h = [i \in 0 .. n |-> h[i]]
    OBVIOUS
  <2> HIDE DEF h
  <2>2. QED
    BY <1>6, <2>1 DEF Reckons, Adds
<1>8. QED
  BY <1>2, <1>7

\* One piece after the other, a line is reckoned up.
LEMMA HeadsAppend ==
    ASSUME NEW s \in Seq(PieceSet), NEW p \in PieceSet
    PROVE  Heads(Append(s, p)) = Adds(p, Heads(s))
<1> DEFINE t == Append(s, p)  n == Len(s)  m == Len(t)
           f == CHOOSE f : Reckons(s, n, f)
           g == CHOOSE g : Reckons(t, m, g)
           T == {i \in 0 .. n : f[i] # g[i]}
<1>1. /\ n \in Nat /\ m = n + 1 /\ m \in Nat /\ t[m] = p
      /\ \A i \in 1 .. n : t[i] = s[i]
  BY AppendProperties
<1>2. Reckons(s, n, f) /\ Reckons(t, m, g)
  <2>1. \E a : Reckons(s, n, a)
    BY <1>1, ReckonsExist
  <2>2. \E a : Reckons(t, m, a)
    BY <1>1, ReckonsExist
  <2>3. QED
    BY <2>1, <2>2
<1>3. Heads(s) = f[n] /\ Heads(t) = g[m]
  BY DEF Heads, Reckons
<1> HIDE DEF f, g, n, m, t
<1>4. T = {}
  <2> SUFFICES ASSUME T # {} PROVE FALSE
    OBVIOUS
  <2>1. PICK i \in T : \A j \in T : i <= j
    <3>1. T \in SUBSET Nat
      BY <1>1
    <3> HIDE DEF T
    <3>2. QED
      BY <3>1, Least
  <2>2. i \in 0 .. n /\ i \in 0 .. m /\ (i # 0 => i - 1 \in 0 .. n)
    BY <1>1
  <2>3. /\ f[i] = IF i = 0 THEN <<>> ELSE Adds(s[i], f[i - 1])
        /\ g[i] = IF i = 0 THEN <<>> ELSE Adds(t[i], g[i - 1])
    BY <1>2, <2>2 DEF Reckons, Adds
  <2>4. i # 0
    BY <2>1, <2>3
  <2>5. i - 1 \notin T
    <3>1. i - 1 < i
      BY <2>2
    <3> HIDE DEF T
    <3>2. QED
      BY <2>1, <2>2, <2>4, <3>1
  <2>6. f[i - 1] = g[i - 1] /\ s[i] = t[i]
    BY <1>1, <2>2, <2>4, <2>5
  <2>7. QED
    BY <2>1, <2>3, <2>6
<1>5. f[n] = g[n]
  BY <1>1, <1>4
<1>6. g[m] = Adds(p, g[n])
  <2>1. m \in 0 .. m /\ m # 0 /\ m - 1 = n
    BY <1>1
  <2>2. QED
    BY <1>1, <1>2, <2>1 DEF Reckons, Adds
<1>7. QED
  BY <1>3, <1>5, <1>6 DEF t

LEMMA HeadsEmpty == Heads(<<>>) = <<>>
<1> DEFINE e == <<>>
           f == CHOOSE f : Reckons(e, 0, f)
<1>1. Len(e) = 0
  OBVIOUS
<1>2. Reckons(e, 0, f)
  <2>1. \E a : Reckons(e, 0, a)
    BY ReckonsExist
  <2>2. QED
    BY <2>1
<1>3. Heads(e) = f[0]
  BY <1>1 DEF Heads, Reckons
<1> HIDE DEF f, e
<1>4. 0 \in 0 .. 0
  OBVIOUS
<1>5. f[0] = <<>>
  BY <1>2, <1>4 DEF Reckons
<1>6. QED
  BY <1>3, <1>5 DEF e

LEMMA HeadsAdd ==
    ASSUME NEW p \in PieceSet, NEW x \in Seq(Message), NEW y \in Seq(Message)
    PROVE  Adds(p, x) \in Seq(Message) /\ Adds(p, y \o x) = y \o Adds(p, x)
<1>1. CASE p.part = 0 /\ p # Command
  <2>1. p.of \in Message
    BY <1>1, PieceTyped
  <2> DEFINE m == p.of
  <2>2. m \in Message /\ <<m>> \in Seq(Message) /\ y \o x \in Seq(Message)
    BY <2>1, ConcatProperties
  <2> HIDE DEF m
  <2>3. /\ Append(x, m) = x \o <<m>> /\ Append(y \o x, m) = (y \o x) \o <<m>>
        /\ Append(x, m) \in Seq(Message)
    BY <2>2, AppendIsConcat, AppendProperties
  <2>4. (y \o x) \o <<m>> = y \o (x \o <<m>>)
    BY <2>2, ConcatAssociative
  <2>5. QED
    BY <1>1, <2>3, <2>4 DEF Adds, m
<1>2. CASE ~(p.part = 0 /\ p # Command)
  BY <1>2 DEF Adds
<1>3. QED
  BY <1>1, <1>2

LEMMA HeadsTyped == \A s \in Seq(PieceSet) : Heads(s) \in Seq(Message)
<1> DEFINE T == {n \in Nat : \E s \in Seq(PieceSet) : Len(s) = n /\ Heads(s) \notin Seq(Message)}
<1>1. SUFFICES ASSUME T # {} PROVE FALSE
  BY LenProperties
<1>2. PICK n \in T : \A k \in T : n <= k
  BY <1>1, Least
<1>3. PICK s \in Seq(PieceSet) : Len(s) = n /\ Heads(s) \notin Seq(Message)
  BY <1>2
<1>4. s # <<>>
  BY <1>3, HeadsEmpty, EmptySeq
<1>5. PICK u \in Seq(PieceSet), p \in PieceSet : s = Append(u, p)
  BY <1>4, SequenceEmptyOrAppend
<1>6. Len(u) \in Nat /\ Len(u) < n
  BY <1>3, <1>5, AppendProperties, LenProperties
<1>7. Heads(u) \in Seq(Message)
  BY <1>2, <1>6
<1>8. QED
  BY <1>3, <1>5, <1>7, HeadsAppend, HeadsAdd, EmptySeq

LEMMA AppendMoves ==
    ASSUME NEW S, NEW s \in Seq(S), NEW t \in Seq(S), NEW p \in S
    PROVE  s \o Append(t, p) = Append(s \o t, p) /\ s \o t \in Seq(S)
<1> DEFINE w == <<p>>  c == s \o t
<1>1. w \in Seq(S) /\ c \in Seq(S)
  BY ConcatProperties
<1>2. Append(t, p) = t \o w /\ Append(c, p) = c \o w
  BY <1>1, AppendIsConcat
<1> HIDE DEF w
<1>3. c \o w = s \o (t \o w)
  BY <1>1, ConcatAssociative
<1>4. QED
  BY <1>1, <1>2, <1>3

LEMMA HeadsConcat ==
    ASSUME NEW s \in Seq(PieceSet), NEW t \in Seq(PieceSet)
    PROVE  Heads(s \o t) = Heads(s) \o Heads(t)
<1> DEFINE Joins(u) == Heads(s \o u) = Heads(s) \o Heads(u)
           T == {n \in Nat : \E u \in Seq(PieceSet) : Len(u) = n /\ ~Joins(u)}
<1> HIDE DEF Joins
<1>1. SUFFICES ASSUME T # {} PROVE FALSE
  <2>1. Joins(t)
    BY <1>1, LenProperties
  <2>2. QED
    BY <2>1 DEF Joins
<1>2. PICK n \in T : \A k \in T : n <= k
  BY <1>1, Least
<1>3. PICK v \in Seq(PieceSet) : Len(v) = n /\ ~Joins(v)
  BY <1>2
<1>4. v # <<>>
  <2>1. Heads(s) \in Seq(Message)
    BY HeadsTyped
  <2>2. s \o <<>> = s /\ Heads(s) \o <<>> = Heads(s)
    BY <2>1, ConcatEmptySeq
  <2>3. Joins(<<>>)
    BY <2>2, HeadsEmpty DEF Joins
  <2>4. QED
    BY <1>3, <2>3
<1>5. PICK u \in Seq(PieceSet), p \in PieceSet : v = Append(u, p)
  BY <1>4, SequenceEmptyOrAppend
<1>6. Len(u) \in Nat /\ Len(u) < n
  BY <1>3, <1>5, AppendProperties, LenProperties
<1>7. Heads(s \o u) = Heads(s) \o Heads(u)
  BY <1>2, <1>6 DEF Joins
<1>8. s \o Append(u, p) = Append(s \o u, p) /\ s \o u \in Seq(PieceSet)
  BY AppendMoves
<1>9. Heads(s \o v) = Adds(p, Heads(s \o u)) /\ Heads(v) = Adds(p, Heads(u))
  BY <1>5, <1>8, HeadsAppend
<1>10. Heads(s) \in Seq(Message) /\ Heads(u) \in Seq(Message)
  BY HeadsTyped
<1>11. Adds(p, Heads(s) \o Heads(u)) = Heads(s) \o Adds(p, Heads(u))
  BY <1>10, HeadsAdd
<1>12. QED
  BY <1>3, <1>7, <1>9, <1>11 DEF Joins

LEMMA NoHeads ==
    ASSUME NEW s \in Seq(PieceSet), \A i \in 1 .. Len(s) : s[i].part # 0 \/ s[i] = Command
    PROVE  Heads(s) = <<>>
<1> DEFINE Bare(u) == \A i \in 1 .. Len(u) : u[i].part # 0 \/ u[i] = Command
           T == {n \in Nat : \E u \in Seq(PieceSet) : Len(u) = n /\ Bare(u) /\ Heads(u) # <<>>}
<1>1. Bare(s)
  OBVIOUS
<1> HIDE DEF Bare
<1>2. SUFFICES ASSUME T # {} PROVE FALSE
  BY <1>1, LenProperties
<1>3. PICK n \in T : \A k \in T : n <= k
  BY <1>2, Least
<1>4. PICK v \in Seq(PieceSet) : Len(v) = n /\ Bare(v) /\ Heads(v) # <<>>
  BY <1>3
<1>5. v # <<>>
  BY <1>4, HeadsEmpty
<1>6. PICK u \in Seq(PieceSet), p \in PieceSet : v = Append(u, p)
  BY <1>5, SequenceEmptyOrAppend
<1>7. /\ Len(u) \in Nat /\ Len(v) = Len(u) + 1 /\ v[Len(u) + 1] = p
      /\ \A i \in 1 .. Len(u) : v[i] = u[i]
  BY <1>6, AppendProperties, LenProperties
<1>8. Bare(u) /\ (p.part # 0 \/ p = Command)
  <2>1. Len(u) + 1 \in 1 .. Len(v) /\ \A i \in 1 .. Len(u) : i \in 1 .. Len(v)
    BY <1>7
  <2>2. QED
    BY <1>4, <1>7, <2>1 DEF Bare
<1>9. Heads(u) = <<>>
  <2>1. Len(u) < n
    BY <1>4, <1>7
  <2>2. QED
    BY <1>3, <1>7, <1>8, <2>1
<1>10. QED
  BY <1>4, <1>6, <1>8, <1>9, HeadsAppend DEF Adds

LEMMA FirstHead ==
    ASSUME NEW s \in Seq(PieceSet), NEW m \in Message, 1 + m.size <= Len(s),
           \A i \in 1 .. 1 + m.size : s[i] = Piece(m, i - 1)
    PROVE  /\ SubSeq(s, m.size + 2, Len(s)) \in Seq(PieceSet)
           /\ Heads(s) = <<m>> \o Heads(SubSeq(s, m.size + 2, Len(s)))
<1> DEFINE n == m.size  l == Len(s)
           a == SubSeq(s, 1, 1)  b == SubSeq(s, 2, n + 1)  c == SubSeq(s, n + 2, l)
<1>0. n \in Nat /\ l \in Nat /\ 1 + n <= l
  BY Sizes, LenProperties
<1>1. \A i \in 1 .. l : s[i] \in PieceSet
  BY ElementOfSeq
<1> HIDE DEF n, l
<1>2. /\ a \in Seq(PieceSet) /\ Len(a) = 1 /\ a[1] = s[1]
      /\ b \in Seq(PieceSet) /\ Len(b) = n /\ \A i \in 1 .. n : b[i] = s[2 + i - 1]
      /\ c \in Seq(PieceSet)
  <2>1. /\ a \in Seq(PieceSet) /\ Len(a) = 1 /\ a[1] = s[1]
    <3>1. \A i \in 1 .. 1 : s[i] \in PieceSet
      BY <1>0, <1>1
    <3>2. /\ a \in Seq(PieceSet) /\ Len(a) = (IF 1 <= 1 THEN 1 - 1 + 1 ELSE 0)
          /\ \A i \in 1 .. 1 - 1 + 1 : a[i] = s[1 + i - 1]
      BY <3>1, SubSeqProperties
    <3>3. QED
      BY <3>2
  <2>2. b \in Seq(PieceSet) /\ Len(b) = n /\ \A i \in 1 .. n : b[i] = s[2 + i - 1]
    <3> DEFINE k == n + 1
    <3>1. (\A i \in 2 .. k : s[i] \in PieceSet) /\ k \in Int /\ k - 2 + 1 = n /\ (2 <= k <=> n # 0)
      BY <1>0, <1>1
    <3> HIDE DEF k
    <3>2. /\ SubSeq(s, 2, k) \in Seq(PieceSet)
          /\ Len(SubSeq(s, 2, k)) = (IF 2 <= k THEN k - 2 + 1 ELSE 0)
          /\ \A i \in 1 .. k - 2 + 1 : SubSeq(s, 2, k)[i] = s[2 + i - 1]
      BY <3>1, SubSeqProperties
    <3>3. QED
      BY <1>0, <3>1, <3>2 DEF k
  <2>3. c \in Seq(PieceSet)
    <3>1. (\A i \in n + 2 .. l : s[i] \in PieceSet) /\ n + 2 \in Int /\ l \in Int
      BY <1>0, <1>1
    <3>2. QED
      BY <3>1, SubSeqProperties
  <2>4. QED
    BY <2>1, <2>2, <2>3
<1>3. s = (a \o b) \o c
  <2>1. SubSeq(s, 1, l) = s
    BY SubSeqFull DEF l
  <2>2. a \o b = SubSeq(s, 1, n + 1)
    <3>1. 1 \in 1 .. l + 1 /\ 1 \in 1 - 1 .. l /\ n + 1 \in 1 .. l
      BY <1>0
    <3>2. SubSeq(s, 1, 1) \o SubSeq(s, 1 + 1, n + 1) = SubSeq(s, 1, n + 1)
      BY <3>1, ConcatAdjacentSubSeq DEF l
    <3>3. 1 + 1 = 2
      OBVIOUS
    <3>4. QED
      BY <3>2, <3>3
  <2>3. SubSeq(s, 1, n + 1) \o c = SubSeq(s, 1, l)
    <3>1. 1 \in 1 .. l + 1 /\ n + 1 \in 1 - 1 .. l /\ l \in n + 1 .. l /\ n + 1 + 1 = n + 2
      BY <1>0
    <3>2. SubSeq(s, 1, n + 1) \o SubSeq(s, n + 1 + 1, l) = SubSeq(s, 1, l)
      BY <3>1, ConcatAdjacentSubSeq DEF l
    <3>3. QED
      BY <3>1, <3>2
  <2>4. QED
    BY <2>1, <2>2, <2>3
<1> HIDE DEF a, b, c
<1>4. Heads(s) = (Heads(a) \o Heads(b)) \o Heads(c)
  <2>1. a \o b \in Seq(PieceSet)
    BY <1>2, ConcatProperties
  <2>2. QED
    BY <1>2, <1>3, <2>1, HeadsConcat
<1>5. Heads(a) = <<m>>
  <2>1. a[1] = Piece(m, 0) /\ a[1] \in PieceSet
    <3>1. 1 \in 1 .. 1 + n /\ 1 - 1 = 0 /\ 1 \in 1 .. l
      BY <1>0
    <3>2. s[1] = Piece(m, 1 - 1)
      BY <3>1 DEF n
    <3>3. QED
      BY <1>1, <1>2, <3>1, <3>2
  <2>2. a = Append(<<>>, a[1])
    <3> DEFINE p == a[1]
    <3>1. p \in PieceSet /\ <<>> \in Seq(PieceSet) /\ Len(a) = 1
      BY <1>2, <2>1
    <3> HIDE DEF p
    <3>2. /\ Append(<<>>, p) \in Seq(PieceSet) /\ Len(Append(<<>>, p)) = 1
          /\ Append(<<>>, p)[1] = p
      BY <3>1
    <3>3. a = Append(<<>>, p)
      BY <1>2, <3>1, <3>2, SeqEqual DEF p
    <3>4. QED
      BY <3>3 DEF p
  <2>3. Heads(a) = Adds(a[1], <<>>)
    BY <2>1, <2>2, HeadsAppend, HeadsEmpty, EmptySeq
  <2>4. a[1].part = 0 /\ a[1].of = m /\ a[1] # Command
    <3>1. m # Nothing
      BY DEF Message, Hello, News, Clip, Nothing
    <3>2. QED
      BY <2>1, <3>1 DEF Piece, Command
  <2>5. QED
    BY <2>3, <2>4 DEF Adds
<1>6. Heads(b) = <<>>
  <2>1. ASSUME NEW i \in 1 .. Len(b) PROVE b[i].part # 0
    <3>1. i \in 1 .. n /\ 2 + i - 1 \in 1 .. 1 + n /\ 2 + i - 1 - 1 = i /\ i # 0
      BY <1>0, <1>2
    <3>2. b[i] = Piece(m, 2 + i - 1 - 1)
      BY <1>2, <3>1 DEF n
    <3>3. QED
      BY <3>1, <3>2 DEF Piece
  <2>2. QED
    BY <1>2, <2>1, NoHeads
<1>7. <<m>> \o <<>> = <<m>>
  BY ConcatEmptySeq
<1>8. QED
  BY <1>2, <1>4, <1>5, <1>6, <1>7 DEF c, n, l

LEMMA HeadsCut ==
    ASSUME NEW s \in Seq(PieceSet), NEW k \in 0 .. Len(s)
    PROVE  \E j \in 0 .. Len(Heads(s)) : Heads(SubSeq(s, 1, k)) = SubSeq(Heads(s), 1, j)
<1> DEFINE l == Len(s)  a == SubSeq(s, 1, k)  b == SubSeq(s, k + 1, l)
<1>1. l \in Nat /\ k \in 0 .. l
  BY LenProperties
<1>2. \A i \in 1 .. l : s[i] \in PieceSet
  BY ElementOfSeq
<1> HIDE DEF l
<1>3. a \in Seq(PieceSet) /\ b \in Seq(PieceSet)
  <2>1. /\ \A i \in 1 .. k : s[i] \in PieceSet
        /\ \A i \in k + 1 .. l : s[i] \in PieceSet
        /\ 1 \in Int /\ k \in Int /\ k + 1 \in Int /\ l \in Int
    BY <1>1, <1>2
  <2>2. QED
    BY <2>1, SubSeqProperties
<1>4. s = a \o b
  <2>1. 1 \in 1 .. l + 1 /\ k \in 1 - 1 .. l /\ l \in k .. l
    BY <1>1
  <2>2. a \o b = SubSeq(s, 1, l)
    BY <2>1, ConcatAdjacentSubSeq DEF l
  <2>3. QED
    BY <2>2, SubSeqFull DEF l
<1> HIDE DEF a, b
<1> DEFINE x == Heads(a)  y == Heads(b)  j == Len(x)
<1>5. Heads(s) = x \o y /\ x \in Seq(Message) /\ y \in Seq(Message)
  BY <1>3, <1>4, HeadsConcat, HeadsTyped
<1> HIDE DEF x, y
<1>6. j \in Nat /\ Len(x \o y) = j + Len(y) /\ Len(y) \in Nat
  BY <1>5, ConcatProperties, LenProperties
<1>7. SubSeq(x \o y, 1, j) = x
  <2>1. CASE j = 0
    <3>1. x = <<>>
      BY <1>5, <2>1, EmptySeq
    <3>2. SubSeq(x \o y, 1, 0) = <<>>
      BY SubSeqEmpty
    <3>3. QED
      BY <2>1, <3>1, <3>2
  <2>2. CASE j # 0
    <3>1. 1 \in 1 .. Len(x) /\ j \in 1 .. Len(x)
      BY <1>6, <2>2
    <3> HIDE DEF j
    <3>2. SubSeq(x \o y, 1, j) = SubSeq(x, 1, j)
      BY <1>5, <3>1, SubSeqOfConcat1
    <3>3. SubSeq(x, 1, Len(x)) = x
      BY <1>5, SubSeqFull
    <3>4. QED
      BY <3>2, <3>3 DEF j
  <2>3. QED
    BY <2>1, <2>2
<1>8. j \in 0 .. Len(x \o y)
  BY <1>6
<1>9. QED
  BY <1>5, <1>7, <1>8 DEF a, x

-----------------------------------------------------------------------------
(* Every step is one of the queue.                                         *)

LEMMA LineTyped == ASSUME TypeOK, NEW e \in End PROVE Line(e) \in Seq(PieceSet)
BY ArrivedTyped

\* What a step does to the queue of end e and to the message it read last.
QueueStep(e) ==
    \/ \E m \in Message : Queue(e)' = Append(Queue(e), m) /\ last'[e] = last[e]
    \/ Queue(e) # <<>> /\ last'[e] = Head(Queue(e)) /\ Queue(e)' = Tail(Queue(e))
    \/ (\E k \in 0 .. Len(Queue(e)) : Queue(e)' = SubSeq(Queue(e), 1, k)) /\ last'[e] = last[e]

LEMMA StaysStep ==
    ASSUME TypeOK, NEW e \in End, Line(e)' = Line(e), last'[e] = last[e]
    PROVE  QueueStep(e)
<1> DEFINE q == Queue(e)
<1>1. q \in Seq(Message)
  BY LineTyped, HeadsTyped DEF Queue
<1>2. Queue(e)' = q
  BY DEF Queue
<1> HIDE DEF q
<1>3. SubSeq(q, 1, Len(q)) = q /\ Len(q) \in 0 .. Len(q)
  BY <1>1, SubSeqFull, LenProperties
<1>4. QED
  BY <1>2, <1>3 DEF QueueStep, q

LEMMA CutStep ==
    ASSUME TypeOK, NEW e \in End, NEW n \in 0 .. Len(Line(e)),
           Line(e)' = SubSeq(Line(e), 1, n), last'[e] = last[e]
    PROVE  QueueStep(e)
<1> DEFINE s == Line(e)
<1>1. s \in Seq(PieceSet) /\ Queue(e) = Heads(s) /\ Queue(e)' = Heads(SubSeq(s, 1, n))
  BY LineTyped DEF Queue
<1> HIDE DEF s
<1>2. \E j \in 0 .. Len(Heads(s)) : Heads(SubSeq(s, 1, n)) = SubSeq(Heads(s), 1, j)
  BY <1>1, HeadsCut DEF s
<1>3. QED
  BY <1>1, <1>2 DEF QueueStep

LEMMA SentStep ==
    ASSUME TypeOK, NEW e \in End, NEW m \in Message,
           Line(e)' = Line(e) \o Frame(m), last'[e] = last[e]
    PROVE  QueueStep(e)
<1> DEFINE s == Line(e)  f == Frame(m)
<1>1. /\ s \in Seq(PieceSet) /\ f \in Seq(PieceSet)
      /\ Queue(e) = Heads(s) /\ Queue(e)' = Heads(s \o f)
  BY LineTyped, FrameTyped DEF Queue
<1>2. Heads(f) = <<m>>
  <2>1. /\ Len(f) = 1 + m.size /\ m.size \in Nat
        /\ \A i \in 1 .. 1 + m.size : f[i] = Piece(m, i - 1)
    BY FrameTyped
  <2>2. f \in Seq(PieceSet) /\ 1 + m.size <= Len(f) /\ Len(f) \in Int /\ m.size + 2 \in Int
        /\ Len(f) < m.size + 2
    BY <1>1, <2>1
  <2> HIDE DEF f
  <2>3. Heads(f) = <<m>> \o Heads(SubSeq(f, m.size + 2, Len(f)))
    BY <2>1, <2>2, FirstHead
  <2>4. SubSeq(f, m.size + 2, Len(f)) = <<>>
    BY <2>2, SubSeqEmpty
  <2>5. <<m>> \o <<>> = <<m>>
    BY ConcatEmptySeq
  <2>6. QED
    BY <2>3, <2>4, <2>5, HeadsEmpty
<1> HIDE DEF s, f
<1>3. Heads(s \o f) = Heads(s) \o <<m>> /\ Heads(s) \in Seq(Message)
  BY <1>1, <1>2, HeadsConcat, HeadsTyped
<1>4. Append(Heads(s), m) = Heads(s) \o <<m>>
  BY <1>3, AppendIsConcat
<1>5. QED
  BY <1>1, <1>3, <1>4 DEF QueueStep

LEMMA ReadStep ==
    ASSUME IInv, NEW e \in End, ReadsMessage(e)
    PROVE  QueueStep(e)
<1> DEFINE s == Line(e)
<1>1. s \in Seq(PieceSet) /\ Len(s) \in Nat /\ Queue(e) = Heads(s)
  BY LineTyped, LenProperties DEF IInv, Queue
<1>2. PICK m \in Message :
         /\ last'[e] = m /\ Len(reading[e]) = m.size
         /\ \A i \in 1 .. 1 + m.size : i \in 1 .. Len(s) /\ s[i] = Piece(m, i - 1)
  BY MessageRead
<1>3. Line(e)' = SubSeq(s, m.size + 2, Len(s))
  BY <1>2, MessageLeaves DEF IInv
<1>4. 1 + m.size <= Len(s)
  <2>1. m.size \in Nat
    BY Sizes
  <2>2. 1 + m.size \in 1 .. Len(s)
    BY <1>2, <2>1
  <2>3. QED
    BY <1>1, <2>2
<1> DEFINE rest == SubSeq(s, m.size + 2, Len(s))
<1> HIDE DEF s
<1>5. rest \in Seq(PieceSet) /\ Heads(s) = <<m>> \o Heads(rest)
  BY <1>1, <1>2, <1>4, FirstHead
<1>6. Queue(e)' = Heads(rest)
  BY <1>3 DEF Queue, s
<1> HIDE DEF rest
<1>7. Heads(rest) \in Seq(Message)
  BY <1>5, HeadsTyped
<1>8. ASSUME NEW q \in Seq(Message)
      PROVE  <<m>> \o q # <<>> /\ Head(<<m>> \o q) = m /\ Tail(<<m>> \o q) = q
  OBVIOUS
<1>9. QED
  BY <1>1, <1>2, <1>5, <1>6, <1>7, <1>8 DEF QueueStep

LEMMA CommandStep == ASSUME IInv, ReadCommand, NEW e \in End PROVE QueueStep(e)
<1> DEFINE s == Line("acceptor")
<1>1. /\ TypeOK /\ "acceptor" \in End /\ "dialer" \in End /\ Hello \in Message
      /\ last' = last /\ stage["acceptor"] = "command"
  BY HelloNews DEF IInv, End, ReadCommand
<1>2. /\ s \in Seq(PieceSet) /\ Len(s) \in Nat
      /\ 2 \in 1 .. Len(s) + 1 /\ Line("acceptor")' = SubSeq(s, 2, Len(s))
      /\ Line("dialer")' = IF cut THEN Line("dialer") ELSE Line("dialer") \o Frame(Hello)
  BY <1>1, CommandLines, LineTyped, LenProperties
<1>3. CASE e = "dialer"
  <2>1. CASE cut
    BY <1>1, <1>2, <1>3, <2>1, StaysStep
  <2>2. CASE ~cut
    BY <1>1, <1>2, <1>3, <2>2, SentStep
  <2>3. QED
    BY <2>1, <2>2
<1>4. CASE e = "acceptor"
  <2>1. LineInOrder("acceptor")
    BY <1>1 DEF IInv, Orderly
  <2>2. s # <<>> /\ s[1] = Command /\ 1 \in 1 .. Len(s)
    <3>1. 1 \in 1 .. Len(s)
      BY <1>2
    <3>2. s # <<>>
      BY <1>2, <3>1, EmptySeq
    <3>3. QED
      BY <1>1, <2>1, <3>1, <3>2 DEF LineInOrder, Opens
  <2> DEFINE a == SubSeq(s, 1, 1)  b == SubSeq(s, 2, Len(s))
  <2>3. /\ a \in Seq(PieceSet) /\ Len(a) = 1 /\ a[1] = Command /\ b \in Seq(PieceSet)
        /\ s = a \o b
    <3> HIDE DEF s
    <3>1. \A i \in 1 .. Len(s) : s[i] \in PieceSet
      BY <1>2, ElementOfSeq
    <3>2. a \in Seq(PieceSet) /\ Len(a) = 1 /\ a[1] = s[1]
      <4>1. \A i \in 1 .. 1 : s[i] \in PieceSet
        BY <2>2, <3>1
      <4>2. /\ a \in Seq(PieceSet) /\ Len(a) = (IF 1 <= 1 THEN 1 - 1 + 1 ELSE 0)
            /\ \A i \in 1 .. 1 - 1 + 1 : a[i] = s[1 + i - 1]
        BY <4>1, SubSeqProperties
      <4>3. QED
        BY <4>2
    <3>3. b \in Seq(PieceSet)
      <4>1. (\A i \in 2 .. Len(s) : s[i] \in PieceSet) /\ 2 \in Int /\ Len(s) \in Int
        BY <1>2, <3>1
      <4>2. QED
        BY <4>1, SubSeqProperties
    <3>4. s = a \o b
      <4>1. 1 \in 1 .. Len(s) + 1 /\ 1 \in 1 - 1 .. Len(s) /\ Len(s) \in 1 .. Len(s) /\ 1 + 1 = 2
        BY <1>2, <2>2
      <4>2. SubSeq(s, 1, 1) \o SubSeq(s, 1 + 1, Len(s)) = SubSeq(s, 1, Len(s))
        BY <1>2, <4>1, ConcatAdjacentSubSeq
      <4>3. SubSeq(s, 1, Len(s)) = s
        BY <1>2, SubSeqFull
      <4>4. QED
        BY <4>1, <4>2, <4>3
    <3>5. QED
      BY <2>2, <3>2, <3>3, <3>4
  <2> HIDE DEF s, a, b
  <2>4. Heads(s) = Heads(a) \o Heads(b) /\ Heads(b) \in Seq(Message)
    BY <2>3, HeadsConcat, HeadsTyped
  <2>5. Heads(a) = <<>>
    BY <2>3, NoHeads
  <2>6. <<>> \o Heads(b) = Heads(b)
    BY <2>4, ConcatEmptySeq
  <2>7. Queue(e) = Heads(b) /\ Queue(e)' = Heads(b)
    BY <1>2, <1>4, <2>4, <2>5, <2>6 DEF Queue, s, b
  <2> DEFINE q == Heads(b)
  <2> HIDE DEF q
  <2>8. SubSeq(q, 1, Len(q)) = q /\ Len(q) \in 0 .. Len(q)
    BY <2>4, SubSeqFull, LenProperties DEF q
  <2>9. QED
    BY <1>1, <2>7, <2>8 DEF QueueStep, q
<1>5. QED
  BY <1>3, <1>4 DEF End

LEMMA ConnectStep == ASSUME IInv, Connect, NEW e \in End PROVE QueueStep(e)
<1>1. TypeOK /\ last' = last /\ Line(e) = <<>> /\ Hello \in Message
  BY ConnectLines, HelloNews DEF IInv, Connect
<1>2. CASE e = "dialer"
  BY <1>1, <1>2, ConnectLines, StaysStep
<1>3. CASE e = "acceptor"
  <2> DEFINE c == <<Command>>  f == Frame(Hello)
  <2>1. c \in Seq(PieceSet) /\ Len(c) = 1 /\ c[1] = Command /\ f \in Seq(PieceSet)
    BY <1>1, FrameTyped DEF PieceSet
  <2>2. Queue(e)' = Heads(c \o f) /\ Queue(e) = <<>>
    BY <1>1, <1>3, ConnectLines, HeadsEmpty DEF Queue
  <2> HIDE DEF c
  <2>3. Heads(c) = <<>>
    BY <2>1, NoHeads
  <2>4. Heads(f) = <<Hello>>
    <3>1. /\ Len(f) = 1 + Hello.size /\ Hello.size = 0
          /\ \A i \in 1 .. 1 + Hello.size : f[i] = Piece(Hello, i - 1)
      BY <1>1, FrameTyped, HelloNews
    <3>2. 1 + Hello.size <= Len(f) /\ Len(f) = 1 /\ Hello.size + 2 = 2
      BY <3>1
    <3> HIDE DEF f
    <3>3. Heads(f) = <<Hello>> \o Heads(SubSeq(f, Hello.size + 2, Len(f)))
      BY <1>1, <2>1, <3>1, <3>2, FirstHead
    <3>4. SubSeq(f, 2, 1) = <<>>
      BY SubSeqEmpty
    <3>5. <<Hello>> \o <<>> = <<Hello>>
      BY ConcatEmptySeq
    <3>6. QED
      BY <3>2, <3>3, <3>4, <3>5, HeadsEmpty
  <2> HIDE DEF f
  <2>5. Heads(c \o f) = <<>> \o <<Hello>>
    BY <2>1, <2>3, <2>4, HeadsConcat
  <2>6. <<>> \o <<Hello>> = Append(<<>>, Hello)
    OBVIOUS
  <2>7. QED
    BY <1>1, <2>2, <2>5, <2>6 DEF QueueStep
<1>4. QED
  BY <1>2, <1>3 DEF End

\* A step of either half, at whichever end.
LEMMA HalfStep ==
    ASSUME IInv, NEW e \in End, NEW x \in End, WriteHalf(x) \/ ReadHalf(x)
    PROVE  QueueStep(e)
<1>0. TypeOK /\ (e = x \/ e = Other(x)) /\ Other(x) \in End /\ Other(x) # x
  BY Ends2 DEF IInv
<1>1. CASE WritePiece(x)
  BY <1>0, <1>1, PieceStays, StaysStep DEF WritePiece
<1>2. CASE ReadPart(x)
  BY <1>0, <1>2, PartStays, StaysStep DEF ReadPart
<1>3. CASE Handled(x)
  <2>1. UNCHANGED <<pipe, ahead, reading, cut, writing, last>>
    BY <1>3 DEF Handled, streams
  <2>2. QED
    BY <1>0, <2>1, LineStays, StaysStep
<1>4. CASE SendClip(x) \/ SendNews(x)
  <2>1. /\ writing[x] = <<>> /\ UNCHANGED <<cut, pipe, ahead, reading>> /\ last' = last
    BY <1>0, <1>4, SentMessage DEF SendClip, SendNews
  <2>2. PICK m \in Message : writing' = [writing EXCEPT ![x] = Frame(m)]
    BY <1>0, <1>4, SentMessage
  <2>3. CASE e = x
    <3>1. writing'[Other(x)] = writing[Other(x)]
      BY <1>0, <2>2 DEF TypeOK
    <3>2. QED
      BY <1>0, <2>1, <2>3, <3>1, LineStays, StaysStep
  <2>4. CASE e = Other(x)
    <3>1. Arrived(Other(x))' = Arrived(Other(x))
      BY <2>1 DEF Arrived
    <3>2. Line(e)' = IF cut THEN Line(e) ELSE Line(e) \o Frame(m)
      BY <1>0, <2>1, <2>2, <2>4, <3>1, FrameJoins
    <3>3. CASE cut
      BY <1>0, <2>1, <3>2, <3>3, StaysStep
    <3>4. CASE ~cut
      BY <1>0, <2>1, <3>2, <3>4, SentStep
    <3>5. QED
      BY <3>3, <3>4
  <2>5. QED
    BY <1>0, <2>3, <2>4
<1>5. CASE ReadsMessage(x)
  <2>1. CASE e = x
    BY <1>5, <2>1, ReadStep
  <2>2. CASE e = Other(x)
    <3>1. last'[e] = last[e]
      BY <1>0, <1>5, <2>2 DEF ReadsMessage, TypeOK
    <3>2. QED
      BY <1>0, <1>5, <2>2, <3>1, MessageLeaves, StaysStep
  <2>3. QED
    BY <1>0, <2>1, <2>2
<1>6. CASE Ends(x)
  <2>1. last' = last
    BY <1>6 DEF Ends
  <2>2. CASE e = x
    <3>1. Line(e)' = <<>> /\ Line(e) \in Seq(PieceSet)
      BY <1>0, <1>6, <2>2, EndCuts, LineTyped
    <3>2. SubSeq(Line(e), 1, 0) = <<>> /\ 0 \in 0 .. Len(Line(e))
      BY <3>1, SubSeqEmpty, LenProperties
    <3>3. QED
      BY <1>0, <2>1, <3>1, <3>2, CutStep
  <2>3. CASE e = Other(x)
    BY <1>0, <1>6, <2>1, <2>3, EndCuts, CutStep
  <2>4. QED
    BY <1>0, <2>2, <2>3
<1>7. QED
  BY <1>1, <1>2, <1>3, <1>4, <1>5, <1>6
     DEF WriteHalf, ReadHalf, Meet, ReceiveClip, ReceiveNews, WriteFails, SeesEnd, ReadFails

LEMMA EveryStep == ASSUME IInv, [Next]_vars, NEW e \in End PROVE QueueStep(e)
<1>0. TypeOK
  BY DEF IInv
<1>1. CASE UNCHANGED vars \/ \E x \in End : Copy(x) \/ Desire(x)
  <2>1. UNCHANGED <<pipe, ahead, reading, cut, writing, last>>
    BY <1>1 DEF vars, streams, Copy, Desire
  <2>2. QED
    BY <1>0, <2>1, LineStays, StaysStep
<1>2. CASE \E x \in End : WriteHalf(x) \/ ReadHalf(x)
  BY <1>2, HalfStep
<1>3. CASE Connect
  BY <1>3, ConnectStep
<1>4. CASE Break
  BY <1>0, <1>4, BreakCuts, CutStep DEF Break
<1>5. CASE ReadCommand
  BY <1>5, CommandStep
<1>6. QED
  BY <1>1, <1>2, <1>3, <1>4, <1>5 DEF Next

LEMMA QueueInit == ASSUME Init, NEW e \in End PROVE Queue(e) = <<>> /\ last[e] \notin Message
<1>1. <<>> \o <<>> = <<>>
  BY ConcatEmptySeq
<1>2. Line(e) = <<>>
  BY <1>1, Ends2 DEF Init, Line, Arrived
<1>3. Nothing \notin Message
  BY DEF Nothing, Message, Hello, News, Clip
<1>4. QED
  BY <1>2, <1>3, HeadsEmpty DEF Queue, Init

\* Each direction of a connection starts as an empty queue, and every step is one of
\* the queue: a message sent, the first received, or what breaks off at the end.
THEOREM StreamIsQueue ==
    Spec => /\ ToDialer!Init /\ [][ToDialer!Next]_(ToDialer!vars)
            /\ ToAcceptor!Init /\ [][ToAcceptor!Next]_(ToAcceptor!vars)
<1>0. "dialer" \in End /\ "acceptor" \in End
  BY DEF End
<1>1. Init => ToDialer!Init /\ ToAcceptor!Init
  BY <1>0, QueueInit DEF ToDialer!Init, ToAcceptor!Init
<1>2. IInv /\ [Next]_vars => [ToDialer!Next]_(ToDialer!vars)
  <2> SUFFICES ASSUME IInv, [Next]_vars PROVE ToDialer!Next
    OBVIOUS
  <2>1. QueueStep("dialer")
    BY <1>0, EveryStep
  <2>2. QED
    BY <2>1 DEF QueueStep, ToDialer!Next, ToDialer!Send, ToDialer!Receive, ToDialer!Break
<1>3. IInv /\ [Next]_vars => [ToAcceptor!Next]_(ToAcceptor!vars)
  <2> SUFFICES ASSUME IInv, [Next]_vars PROVE ToAcceptor!Next
    OBVIOUS
  <2>1. QueueStep("acceptor")
    BY <1>0, EveryStep
  <2>2. QED
    BY <2>1 DEF QueueStep, ToAcceptor!Next, ToAcceptor!Send, ToAcceptor!Receive, ToAcceptor!Break
<1>4. IInv /\ [Next]_vars => IInv'
  BY Step
<1>5. QED
  BY OrderlyInit, <1>1, <1>2, <1>3, <1>4, PTL DEF Spec

=============================================================================
