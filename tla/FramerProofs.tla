---------------------------- MODULE FramerProofs ----------------------------
(***************************************************************************)
(* What holds of the framer for every alphabet, header and window, and     *)
(* whatever bytes the bus delivers, in whatever pieces.                    *)
(***************************************************************************)
EXTENDS FramerChunks, SequenceTheorems, WellFoundedInduction, TLAPS

\* Min is defined by CHOOSE: a nonempty set of naturals has one.
LEMMA MinOfNat ==
    ASSUME NEW S, S \subseteq Nat, S # {}
    PROVE  /\ Min(S) \in S
           /\ \A n \in S : Min(S) <= n
<1> DEFINE Less == {ss \in Nat \X Nat : ss[1] < ss[2]}
<1>1. IsWellFoundedOn(Less, Nat)
    BY NatLessThanWellFounded DEF OpToRel
<1>2. PICK x \in S : \A y \in S : ~ (<<y, x>> \in Less)
  <2> HIDE DEF Less
  <2> QED BY <1>1, WFMin
<1>3. ASSUME NEW y \in S, y < x PROVE FALSE
  <2>1. <<y, x>> \in Nat \X Nat /\ <<y, x>>[1] < <<y, x>>[2]
    BY <1>3
  <2>2. <<y, x>> \in Less
    BY <2>1, Zenon
  <2> QED BY <1>2, <2>2
<1>4. \A y \in S : x <= y
    BY <1>3
<1> QED BY <1>4 DEF Min

-----------------------------------------------------------------------------
(* One turn of the loop in _drain, as a function of the buffer: it is the  *)
(* last one and keeps a rest, or it cuts bytes off the front and takes     *)
(* them as a frame or not.                                                 *)

PartA5(b) == A5AtFront(b) /\ (HeaderHere(b) => Len(b) < A5Length(b))
PartIC(b) == ICAtFront(b) /\ ICEnds(b) = {} /\ ~ICWindowFull(b)
Waits(b)  == ~Synced(b) \/ PartA5(b) \/ PartIC(b)
Kept(b)   == IF ~Synced(b) /\ Len(b) > 4 THEN SubSeq(b, Len(b) - 3, Len(b)) ELSE b

FrameA5(b) == A5AtFront(b) /\ HeaderHere(b) /\ Len(b) >= A5Length(b)
FrameIC(b) == ICAtFront(b) /\ ICEnds(b) # {} /\ Min(ICEnds(b)) >= 6

Cut(b) == IF FrameA5(b) THEN A5Length(b)
          ELSE IF FrameIC(b) THEN Min(ICEnds(b)) + 1
          ELSE IF ICAtFront(b) THEN 1 ELSE Start(b) - 1

Rest(b) == SubSeq(b, Cut(b) + 1, Len(b))

FrameOf(kind, b) == <<[kind |-> kind, raw |-> SubSeq(b, 1, Cut(b))]>>

Taken(b) == IF FrameA5(b) THEN FrameOf("a5", b)
            ELSE IF FrameIC(b) THEN FrameOf("intellichlor", b)
            ELSE <<>>

\* Nothing is left to do with the buffer.
Settled(b) == Waits(b) /\ Kept(b) = b

-----------------------------------------------------------------------------
(* Where the front of the buffer is.                                       *)

\* A mark is a position of the buffer, of one kind, and its preamble does not
\* begin before the buffer or after the mark.
LEMMA MarkFacts ==
    ASSUME NEW b \in Seq(Byte), Synced(b)
    PROVE  /\ Mark(b) \in A5Marks(b) \union ICMarks(b)
           /\ \A m \in A5Marks(b) \union ICMarks(b) : Mark(b) <= m
           /\ Mark(b) \in Positions(b) /\ Len(b) \in Nat
           /\ Start(b) \in 1..Len(b)
<1>1. A5Marks(b) \union ICMarks(b) \subseteq Nat
    BY DEF A5Marks, ICMarks, Positions
<1>2. /\ Mark(b) \in A5Marks(b) \union ICMarks(b)
      /\ \A m \in A5Marks(b) \union ICMarks(b) : Mark(b) <= m
    BY <1>1, MinOfNat DEF Mark, Synced
<1>3. Mark(b) \in Positions(b) /\ Len(b) \in Nat
    BY <1>2 DEF A5Marks, ICMarks, Positions
<1>4. CASE Mark(b) \in ICMarks(b)
    BY <1>3, <1>4, <1>2 DEF Start, Positions
<1>5. CASE Mark(b) \in A5Marks(b) /\ Mark(b) \notin ICMarks(b)
  <2>1. Mark(b) > 2
    BY <1>5 DEF A5Marks
  <2> QED BY <1>2, <1>3, <1>5, <2>1 DEF Start, Positions
<1> QED BY <1>2, <1>3, <1>4, <1>5

\* The two kinds of mark are different bytes.
LEMMA OneKind == \A b : A5Marks(b) \intersect ICMarks(b) = {}
BY FramingAssumption DEF A5Marks, ICMarks

\* At the front, the A5 is the third or the fourth byte.
LEMMA FrontFacts ==
    ASSUME NEW b \in Seq(Byte), A5AtFront(b)
    PROVE  /\ Mark(b) \in 3..4 /\ Len(b) \in Nat
           /\ HeaderHere(b) => /\ A5Length(b) \in Nat
                               /\ A5Length(b) <= LongestA5
                               /\ A5Length(b) > Mark(b) + Header
<1>1. Mark(b) \notin ICMarks(b) /\ Mark(b) \in Positions(b) /\ Len(b) \in Nat
    BY MarkFacts, OneKind DEF A5AtFront
<1>2. Mark(b) \in 3..4
  <2>1. Mark(b) > 2
    BY DEF A5AtFront, A5Marks
  <2> QED BY <1>1, <2>1 DEF A5AtFront, Start, Positions
<1>3. ASSUME HeaderHere(b)
      PROVE  /\ A5Length(b) \in Nat /\ A5Length(b) <= LongestA5
             /\ A5Length(b) > Mark(b) + Header
  <2>1. Mark(b) + Header \in 1..Len(b)
    BY <1>1, <1>2, <1>3, FramingAssumption DEF HeaderHere
  <2>2. b[Mark(b) + Header] \in Byte
    BY <2>1
  <2>3. b[Mark(b) + Header] % LenMod \in 0..(LenMod - 1)
    <3>1. ASSUME NEW x \in Nat, NEW d \in Nat \ {0} PROVE x % d \in 0..(d - 1)
      OBVIOUS
    <3> QED BY <2>2, <3>1, FramingAssumption
  <2> DEFINE r == b[Mark(b) + Header] % LenMod
  <2>4. A5Length(b) = Mark(b) + Header + r + 2
    BY DEF A5Length
  <2> HIDE DEF r
  <2> QED BY SMTT(30), <1>2, <2>3, <2>4, FramingAssumption DEF LongestA5, r
<1> QED BY <1>1, <1>2, <1>3

\* The end of an IntelliChlor frame lies within the buffer.
LEMMA EndFacts ==
    ASSUME NEW b \in Seq(Byte), ICEnds(b) # {}
    PROVE  /\ Min(ICEnds(b)) \in ICEnds(b) /\ \A e \in ICEnds(b) : Min(ICEnds(b)) <= e
           /\ Min(ICEnds(b)) \in Nat /\ Min(ICEnds(b)) >= 3 /\ Min(ICEnds(b)) < Len(b)
<1>1. ICEnds(b) \subseteq Nat
    BY DEF ICEnds, Positions
<1>2. Min(ICEnds(b)) \in ICEnds(b) /\ \A e \in ICEnds(b) : Min(ICEnds(b)) <= e
    BY <1>1, MinOfNat
<1> QED BY <1>1, <1>2 DEF ICEnds

\* A turn that is not the last cuts one byte at least and at most all of them,
\* so what it takes are frames and what it leaves is shorter.
LEMMA CutFacts ==
    ASSUME NEW b \in Seq(Byte), ~Waits(b)
    PROVE  /\ Synced(b) /\ Cut(b) \in 1..Len(b)
           /\ Rest(b) \in Seq(Byte) /\ Len(Rest(b)) < Len(b)
           /\ Taken(b) \in Seq(Frame)
<1>1. Synced(b)
    BY DEF Waits
<1>2. Start(b) \in 1..Len(b) /\ Len(b) \in Nat
    BY <1>1, MarkFacts
<1>3. Cut(b) \in 1..Len(b)
  <2>1. CASE FrameA5(b)
    BY <1>2, <2>1, FrontFacts, FramingAssumption DEF FrameA5, Cut
  <2>2. CASE FrameIC(b) /\ ~FrameA5(b)
    BY <1>2, <2>2, EndFacts DEF FrameIC, Cut
  <2>3. CASE ~FrameIC(b) /\ ~FrameA5(b)
    <3>1. ICAtFront(b) \/ Start(b) # 1
      BY <1>1, <2>3, MarkFacts, FrontFacts, FramingAssumption
         DEF Waits, PartA5, FrameA5, A5AtFront, ICAtFront
    <3> QED BY <1>2, <2>3, <3>1 DEF Cut
  <2> QED BY <2>1, <2>2, <2>3
<1>4. SubSeq(b, 1, Cut(b)) \in Seq(Byte) /\ Rest(b) \in Seq(Byte) /\ Len(Rest(b)) < Len(b)
    BY <1>2, <1>3 DEF Rest
<1>5. Taken(b) \in Seq(Frame)
  <2>1. \A kind \in {"a5", "intellichlor"} : FrameOf(kind, b) \in Seq(Frame)
    BY <1>4 DEF FrameOf, Frame
  <2> QED BY <2>1 DEF Taken
<1> QED BY <1>1, <1>3, <1>4, <1>5

\* What it takes is a frame.
LEMMA FrameTyped ==
    ASSUME NEW b \in Seq(Byte), ~Waits(b), NEW kind \in {"a5", "intellichlor"}
    PROVE  [kind |-> kind, raw |-> SubSeq(b, 1, Cut(b))] \in Frame
<1>1. SubSeq(b, 1, Cut(b)) \in Seq(Byte)
    BY CutFacts
<1> QED BY <1>1 DEF Frame

\* The last turn keeps bytes of the buffer, all or the last four.
LEMMA KeptFacts ==
    ASSUME NEW b \in Seq(Byte)
    PROVE  /\ Kept(b) \in Seq(Byte)
           /\ Kept(b) = b \/ /\ ~Synced(b) /\ Len(b) > 4 /\ Len(Kept(b)) = 4
                             /\ \A i \in 1..4 : Kept(b)[i] = b[Len(b) - 4 + i]
<1>1. CASE Synced(b) \/ Len(b) <= 4
    BY <1>1 DEF Kept
<1>2. CASE ~Synced(b) /\ Len(b) > 4
  <2>1. Kept(b) = SubSeq(b, Len(b) - 3, Len(b)) /\ Len(b) \in Nat
    BY <1>2 DEF Kept
  <2> QED BY <1>2, <2>1
<1> QED BY <1>1, <1>2

\* What is left when the front is cut off.
LEMMA RestFacts ==
    ASSUME NEW b \in Seq(Byte), NEW k \in 0..Len(b)
    PROVE  LET r == SubSeq(b, k + 1, Len(b))
           IN  /\ r \in Seq(Byte) /\ Len(r) = Len(b) - k /\ Len(r) \in Nat
               /\ \A i \in 1..(Len(b) - k) : r[i] = b[k + i]
<1>1. k + 1 \in 1..(Len(b) + 1) /\ Len(b) \in Nat
    OBVIOUS
<1> QED BY <1>1

\* They are the last four when nothing begins in a buffer that long.
LEMMA LastFour ==
    ASSUME NEW b \in Seq(Byte), ~Synced(b), Len(b) >= 4
    PROVE  /\ Kept(b) \in Seq(Byte) /\ Len(Kept(b)) = 4
           /\ \A i \in 1..4 : Kept(b)[i] = b[(Len(b) - 4) + i]
<1>1. Len(b) \in Nat /\ Len(b) >= 4
    OBVIOUS
<1>2. CASE Len(b) = 4
  <2>1. Kept(b) = b
    BY <1>2 DEF Kept
  <2> QED BY <1>2, <2>1
<1>3. CASE Len(b) > 4
  <2>1. Len(b) - 4 \in 0..Len(b) /\ (Len(b) - 4) + 1 = Len(b) - 3 /\ Len(b) - (Len(b) - 4) = 4
    BY <1>1, <1>3
  <2>2. Kept(b) = SubSeq(b, Len(b) - 3, Len(b))
    BY <1>3 DEF Kept
  <2> DEFINE k == Len(b) - 4
  <2>3. Kept(b) = SubSeq(b, k + 1, Len(b)) /\ k \in 0..Len(b) /\ Len(b) - k = 4
    BY <2>1, <2>2
  <2> HIDE DEF k
  <2>4. /\ SubSeq(b, k + 1, Len(b)) \in Seq(Byte)
        /\ Len(SubSeq(b, k + 1, Len(b))) = Len(b) - k
        /\ \A i \in 1..(Len(b) - k) : SubSeq(b, k + 1, Len(b))[i] = b[k + i]
    BY <2>3, RestFacts
  <2>5. /\ Kept(b) \in Seq(Byte) /\ Len(Kept(b)) = 4
        /\ \A i \in 1..4 : Kept(b)[i] = b[k + i]
    BY <2>3, <2>4
  <2> QED BY <2>5 DEF k
<1>4. \A n \in Nat : n >= 4 => n = 4 \/ n > 4
    OBVIOUS
<1> QED BY <1>1, <1>2, <1>3, <1>4, Zenon

-----------------------------------------------------------------------------
(* More bytes behind the buffer.                                           *)

\* The marks of a buffer are the marks of a longer one that lie within it.
LEMMA SameMarks ==
    ASSUME NEW b \in Seq(Byte), NEW d \in Seq(Byte)
    PROVE  /\ b \o d \in Seq(Byte) /\ Len(b \o d) = Len(b) + Len(d)
           /\ \A i \in 1..Len(b) : (b \o d)[i] = b[i]
           /\ A5Marks(b) = {m \in A5Marks(b \o d) : m <= Len(b)}
           /\ ICMarks(b) = {m \in ICMarks(b \o d) : m < Len(b)}
<1> DEFINE c == b \o d
<1>1. /\ c \in Seq(Byte) /\ Len(c) = Len(b) + Len(d)
      /\ \A i \in 1..Len(b) : c[i] = b[i]
      /\ Len(b) \in Nat /\ Len(d) \in Nat
    OBVIOUS
<1> HIDE DEF c
<1>2. A5Marks(b) = {m \in A5Marks(c) : m <= Len(b)}
  <2>1. ASSUME NEW m \in 1..Len(b), m > 2
        PROVE  c[m] = b[m] /\ c[m - 1] = b[m - 1] /\ c[m - 2] = b[m - 2]
    BY SMTT(30), <1>1, <2>1
  <2>2. ASSUME NEW m \in A5Marks(b) PROVE m \in A5Marks(c) /\ m <= Len(b)
    BY <1>1, <2>1, <2>2 DEF A5Marks, Positions
  <2>3. ASSUME NEW m \in A5Marks(c), m <= Len(b) PROVE m \in A5Marks(b)
    BY <1>1, <2>1, <2>3 DEF A5Marks, Positions
  <2> QED BY <2>2, <2>3
<1>3. ICMarks(b) = {m \in ICMarks(c) : m < Len(b)}
    BY <1>1 DEF ICMarks, Positions
<1> QED BY <1>1, <1>2, <1>3 DEF c

\* What is cut off the front does not reach what comes behind.
LEMMA SameRest ==
    ASSUME NEW b \in Seq(Byte), NEW d \in Seq(Byte), NEW k \in 0..Len(b)
    PROVE  SubSeq(b \o d, k + 1, Len(b \o d)) = SubSeq(b, k + 1, Len(b)) \o d
<1> DEFINE c == b \o d
           r == SubSeq(c, k + 1, Len(c))
           s == SubSeq(b, k + 1, Len(b))
<1>1. /\ c \in Seq(Byte) /\ Len(c) = Len(b) + Len(d)
      /\ \A i \in 1..Len(c) : c[i] = IF i <= Len(b) THEN b[i] ELSE d[i - Len(b)]
    BY ConcatProperties
<1>2. Len(b) \in Nat /\ Len(d) \in Nat
    OBVIOUS
<1> HIDE DEF c
<1>3. /\ r \in Seq(Byte) /\ Len(r) = Len(c) - k
      /\ \A i \in 1..(Len(c) - k) : r[i] = c[k + i]
  <2>1. k \in 0..Len(c)
    BY <1>1, <1>2
  <2> QED BY <1>1, <2>1, RestFacts
<1>4. /\ s \in Seq(Byte) /\ Len(s) = Len(b) - k
      /\ \A i \in 1..(Len(b) - k) : s[i] = b[k + i]
    BY <1>2
<1> HIDE DEF r, s
<1>5. /\ s \o d \in Seq(Byte) /\ Len(s \o d) = Len(s) + Len(d)
      /\ \A i \in 1..(Len(s) + Len(d)) :
             (s \o d)[i] = IF i <= Len(s) THEN s[i] ELSE d[i - Len(s)]
    BY <1>4, ConcatProperties
<1>6. Len(s \o d) = Len(r) /\ Len(r) \in Nat
    BY <1>1, <1>2, <1>3, <1>4, <1>5
<1>7. ASSUME NEW i \in 1..Len(r) PROVE (s \o d)[i] = r[i]
  <2>1. r[i] = c[k + i] /\ i \in 1..(Len(s) + Len(d)) /\ k + i \in 1..Len(c)
    BY <1>1, <1>2, <1>3, <1>5, <1>6
  <2>2. CASE i <= Len(s)
    BY <1>1, <1>2, <1>4, <1>5, <2>1, <2>2
  <2>3. CASE i > Len(s)
    <3>1. i - Len(s) = k + i - Len(b) /\ ~ (i <= Len(s)) /\ ~ (k + i <= Len(b))
      BY <1>2, <1>4, <2>1, <2>3
    <3>2. (s \o d)[i] = d[i - Len(s)] /\ c[k + i] = d[k + i - Len(b)]
      BY <1>1, <1>5, <2>1, <3>1
    <3> QED BY <2>1, <3>1, <3>2
  <2> QED BY <1>2, <1>4, <2>1, <2>2, <2>3
<1>8. s \o d = r
    BY <1>3, <1>5, <1>6, <1>7, SeqEqual
<1> QED BY <1>8 DEF c, r, s

\* What begins a buffer begins a longer one.
LEMMA SameMark ==
    ASSUME NEW b \in Seq(Byte), NEW d \in Seq(Byte), Synced(b)
    PROVE  /\ Synced(b \o d)
           /\ Mark(b \o d) = Mark(b) /\ Start(b \o d) = Start(b)
           /\ A5AtFront(b \o d) <=> A5AtFront(b)
           /\ ICAtFront(b \o d) <=> ICAtFront(b)
<1> DEFINE c == b \o d
<1>1. /\ c \in Seq(Byte) /\ Len(b) \in Nat
      /\ \A i \in 1..Len(b) : c[i] = b[i]
      /\ A5Marks(b) = {m \in A5Marks(c) : m <= Len(b)}
      /\ ICMarks(b) = {m \in ICMarks(c) : m < Len(b)}
    BY SameMarks
<1> HIDE DEF c
<1>2. /\ Mark(b) \in A5Marks(b) \union ICMarks(b) /\ Mark(b) \in 1..Len(b)
      /\ \A m \in A5Marks(b) \union ICMarks(b) : Mark(b) <= m
    BY MarkFacts DEF Positions
<1>3. Synced(c)
    BY <1>1, <1>2 DEF Synced
<1>4. /\ Mark(c) \in A5Marks(c) \union ICMarks(c) /\ Mark(c) \in Nat
      /\ \A m \in A5Marks(c) \union ICMarks(c) : Mark(c) <= m
    BY <1>1, <1>3, MarkFacts DEF Positions
<1>5. Mark(c) <= Mark(b)
    BY <1>1, <1>2, <1>4
<1>6. Mark(c) \in A5Marks(b) \union ICMarks(b)
  <2>1. CASE Mark(c) < Len(b) \/ Mark(c) \in A5Marks(c)
    BY <1>1, <1>2, <1>4, <1>5, <2>1
  <2>2. CASE Mark(c) = Len(b) /\ Mark(c) \in ICMarks(c)
    <3>1. Mark(b) = Len(b) /\ Mark(b) \in A5Marks(b)
      BY <1>1, <1>2, <1>5, <2>2
    <3> QED BY <1>1, <2>2, <3>1, OneKind
  <2> QED BY <1>2, <1>4, <1>5, <2>1, <2>2
<1>7. Mark(c) = Mark(b)
    BY <1>2, <1>4, <1>5, <1>6
<1>8. /\ Mark(b) \in ICMarks(c) <=> Mark(b) \in ICMarks(b)
      /\ Mark(b) \in A5Marks(c) <=> Mark(b) \in A5Marks(b)
    BY <1>1, <1>2, OneKind
<1>9. Start(c) = Start(b)
  <2>1. Mark(b) > 3 => c[Mark(b) - 3] = b[Mark(b) - 3]
    BY <1>1, <1>2
  <2> QED BY <1>7, <1>8, <2>1 DEF Start
<1>10. Synced(b) /\ (A5AtFront(c) <=> A5AtFront(b)) /\ (ICAtFront(c) <=> ICAtFront(b))
    BY <1>3, <1>7, <1>8, <1>9 DEF A5AtFront, ICAtFront
<1> QED BY <1>3, <1>7, <1>9, <1>10 DEF c

\* The end of an IntelliChlor frame stays where it is, and none is found within
\* a window that was full.
LEMMA SameEnd ==
    ASSUME NEW b \in Seq(Byte), NEW d \in Seq(Byte)
    PROVE  /\ ICEnds(b) # {} => /\ ICEnds(b \o d) # {}
                                /\ Min(ICEnds(b \o d)) = Min(ICEnds(b))
           /\ ICEnds(b) = {} /\ ICWindowFull(b) =>
                  ICEnds(b \o d) = {} /\ ICWindowFull(b \o d)
<1> DEFINE c == b \o d
<1>1. /\ c \in Seq(Byte) /\ Len(b) \in Nat /\ Len(d) \in Nat
      /\ Len(c) = Len(b) + Len(d)
      /\ \A i \in 1..Len(b) : c[i] = b[i]
    BY SameMarks
<1> HIDE DEF c
<1>2. ICEnds(b) = {e \in ICEnds(c) : e < Len(b)}
    BY <1>1 DEF ICEnds, Positions
<1>3. ASSUME ICEnds(b) # {}
      PROVE  ICEnds(c) # {} /\ Min(ICEnds(c)) = Min(ICEnds(b))
  <2>1. /\ Min(ICEnds(b)) \in ICEnds(b) /\ Min(ICEnds(b)) \in Nat
        /\ Min(ICEnds(b)) < Len(b)
        /\ \A e \in ICEnds(b) : Min(ICEnds(b)) <= e
    BY <1>3, EndFacts
  <2>2. ICEnds(c) # {}
    BY <1>2, <2>1
  <2>3. /\ Min(ICEnds(c)) \in ICEnds(c) /\ Min(ICEnds(c)) \in Nat
        /\ \A e \in ICEnds(c) : Min(ICEnds(c)) <= e
    BY <1>1, <2>2, EndFacts
  <2>4. Min(ICEnds(c)) <= Min(ICEnds(b)) /\ Min(ICEnds(c)) \in ICEnds(b)
    BY <1>1, <1>2, <2>1, <2>3
  <2> QED BY <2>1, <2>2, <2>3, <2>4
<1>4. ASSUME ICEnds(b) = {}, ICWindowFull(b)
      PROVE  ICEnds(c) = {} /\ ICWindowFull(c)
  <2>1. \A e \in ICEnds(c) : e < Len(b)
    BY <1>1, <1>4, FramingAssumption DEF ICEnds, ICWindowFull, Positions
  <2> QED BY <1>1, <1>2, <1>4, <2>1, FramingAssumption DEF ICWindowFull
<1> QED BY <1>3, <1>4 DEF c

\* A turn that is not the last is the same whatever is to come.
LEMMA SameTurn ==
    ASSUME NEW b \in Seq(Byte), NEW d \in Seq(Byte), ~Waits(b)
    PROVE  /\ ~Waits(b \o d)
           /\ Taken(b \o d) = Taken(b) /\ Rest(b \o d) = Rest(b) \o d
<1> DEFINE c == b \o d
<1>1. /\ c \in Seq(Byte) /\ Len(b) \in Nat /\ Len(d) \in Nat
      /\ Len(c) = Len(b) + Len(d)
      /\ \A i \in 1..Len(b) : c[i] = b[i]
    BY SameMarks
<1>2. Synced(b) /\ Cut(b) \in 1..Len(b)
    BY CutFacts
<1>3. /\ Synced(c) /\ Mark(c) = Mark(b) /\ Start(c) = Start(b)
      /\ A5AtFront(c) <=> A5AtFront(b)
      /\ ICAtFront(c) <=> ICAtFront(b)
    BY <1>2, SameMark
<1>4. /\ ICEnds(b) # {} => ICEnds(c) # {} /\ Min(ICEnds(c)) = Min(ICEnds(b))
      /\ ICEnds(b) = {} /\ ICWindowFull(b) => ICEnds(c) = {} /\ ICWindowFull(c)
    BY SameEnd
<1> HIDE DEF c
<1>5. ~ (A5AtFront(b) /\ ICAtFront(b))
    BY OneKind DEF A5AtFront, ICAtFront
<1>6. A5AtFront(b) => /\ HeaderHere(b) /\ Len(b) >= A5Length(b) /\ A5Length(b) \in Nat
                      /\ HeaderHere(c) /\ Len(c) >= A5Length(c)
                      /\ A5Length(c) = A5Length(b)
  <2> SUFFICES ASSUME A5AtFront(b)
               PROVE  /\ HeaderHere(b) /\ Len(b) >= A5Length(b) /\ A5Length(b) \in Nat
                      /\ HeaderHere(c) /\ Len(c) >= A5Length(c)
                      /\ A5Length(c) = A5Length(b)
      OBVIOUS
  <2>1. HeaderHere(b) /\ ~ (Len(b) < A5Length(b))
    BY DEF Waits, PartA5
  <2>2. Mark(b) \in 3..4 /\ A5Length(b) \in Nat /\ A5Length(b) > Mark(b) + Header
    BY <2>1, FrontFacts
  <2>3. c[Mark(b) + Header] = b[Mark(b) + Header]
    BY <1>1, <2>1, <2>2, FramingAssumption DEF HeaderHere
  <2>4. A5Length(c) = A5Length(b)
    BY <1>3, <2>3 DEF A5Length
  <2> QED BY <1>1, <1>3, <2>1, <2>2, <2>4, FramingAssumption DEF HeaderHere
<1>7. FrameA5(c) <=> FrameA5(b)
    BY <1>3, <1>6 DEF FrameA5
<1>8. FrameIC(c) <=> FrameIC(b)
    BY <1>3, <1>4 DEF FrameIC, Waits, PartIC
<1>9. Cut(c) = Cut(b)
    BY <1>3, <1>4, <1>6, <1>7, <1>8 DEF Cut, FrameA5, FrameIC
<1>10. ~Waits(c)
  <2>1. ~ PartA5(c)
    BY <1>1, <1>3, <1>6 DEF PartA5
  <2>2. ~ PartIC(c)
    BY <1>3, <1>4 DEF Waits, PartIC
  <2> QED BY <1>3, <2>1, <2>2 DEF Waits
<1>11. SubSeq(c, 1, Cut(c)) = SubSeq(b, 1, Cut(b))
    BY <1>1, <1>2, <1>9
<1>12. Taken(c) = Taken(b)
    BY <1>7, <1>8, <1>11 DEF Taken, FrameOf
<1>13. Rest(c) = Rest(b) \o d
  <2>1. Cut(b) \in 0..Len(b)
    BY <1>1, <1>2
  <2> QED BY <1>9, <2>1, SameRest DEF Rest, c
<1> QED BY <1>10, <1>12, <1>13 DEF c

\* A buffer with nothing in it may be cut down to its last four bytes before more
\* bytes come: what begins then begins within them.
LEMMA SameTail ==
    ASSUME NEW b \in Seq(Byte), NEW d \in Seq(Byte), ~Synced(b), Len(b) > 4
    PROVE  LET c == b \o d
               t == Kept(b) \o d
               k == Len(b) - 4
           IN  /\ Synced(c) <=> Synced(t)
               /\ Synced(t) => Start(c) = Start(t) + k
               /\ t = SubSeq(c, k + 1, Len(c))
               /\ Kept(b) # b => Len(t) >= 4
<1> DEFINE k == Len(b) - 4
           c == b \o d
           t == Kept(b) \o d
<1>1. k \in 1..Len(b) /\ k \in 0..Len(b) /\ Kept(b) = SubSeq(b, k + 1, Len(b))
    BY DEF Kept
<1>2. t = SubSeq(c, k + 1, Len(c))
    BY <1>1, SameRest
<1>3. /\ c \in Seq(Byte) /\ Len(b) \in Nat /\ Len(d) \in Nat
      /\ Len(c) = Len(b) + Len(d)
      /\ A5Marks(b) = {m \in A5Marks(c) : m <= Len(b)}
      /\ ICMarks(b) = {m \in ICMarks(c) : m < Len(b)}
    BY SameMarks
<1>4. Len(b) = k + 4 /\ k \in Nat
    BY <1>1, <1>3
<1> HIDE DEF c, t, k
<1>5. /\ t \in Seq(Byte) /\ Len(t) = 4 + Len(d) /\ Len(t) \in Nat
      /\ Len(c) = Len(t) + k
      /\ \A i \in 1..Len(t) : t[i] = c[k + i]
  <2>1. k \in 0..Len(c) /\ Len(c) - k = 4 + Len(d) /\ Len(c) = (4 + Len(d)) + k
    BY <1>3, <1>4
  <2>2. t \in Seq(Byte) /\ Len(t) = Len(c) - k /\ \A i \in 1..(Len(c) - k) : t[i] = c[k + i]
    BY <1>2, <1>3, <2>1, RestFacts
  <2> QED BY <2>1, <2>2
<1>6. \A m \in A5Marks(c) : m >= k + 5
  <2>1. A5Marks(b) = {}
    BY DEF Synced
  <2>2. \A m \in A5Marks(c) : m \in 1..Len(c) /\ ~ (m <= Len(b))
    BY <1>3, <2>1 DEF A5Marks, Positions
  <2> QED BY <1>3, <1>4, <2>2
<1>7. \A m \in ICMarks(c) : m >= k + 4
  <2>1. ICMarks(b) = {}
    BY DEF Synced
  <2> QED BY <1>3, <1>4, <2>1 DEF ICMarks, Positions
<1>8. ASSUME NEW m \in A5Marks(c) PROVE m - k \in A5Marks(t)
  <2>1. /\ m \in 1..Len(c) /\ m >= k + 5
        /\ c[m] = BA5 /\ c[m - 1] = BFF /\ c[m - 2] = B00
    BY <1>6 DEF A5Marks, Positions
  <2>2. /\ m - k \in 1..Len(t) /\ m - k > 2 /\ (m - k) - 1 \in 1..Len(t) /\ (m - k) - 2 \in 1..Len(t)
        /\ k + (m - k) = m /\ k + ((m - k) - 1) = m - 1 /\ k + ((m - k) - 2) = m - 2
    BY <1>4, <1>5, <2>1
  <2> QED BY <1>5, <2>1, <2>2 DEF A5Marks, Positions
<1>9. ASSUME NEW m \in ICMarks(c) PROVE m - k \in ICMarks(t)
  <2>1. m \in 1..Len(c) /\ m >= k + 4 /\ m < Len(c) /\ c[m] = B10 /\ c[m + 1] = B02
    BY <1>7 DEF ICMarks, Positions
  <2>2. /\ m - k \in 1..Len(t) /\ m - k < Len(t) /\ (m - k) + 1 \in 1..Len(t)
        /\ k + (m - k) = m /\ k + ((m - k) + 1) = m + 1
    BY <1>4, <1>5, <2>1
  <2> QED BY <1>5, <2>1, <2>2 DEF ICMarks, Positions
<1>10. ASSUME NEW j \in A5Marks(t) PROVE k + j \in A5Marks(c)
  <2>1. /\ j \in 1..Len(t) /\ j > 2 /\ j - 1 \in 1..Len(t) /\ j - 2 \in 1..Len(t)
        /\ t[j] = BA5 /\ t[j - 1] = BFF /\ t[j - 2] = B00
    BY <1>5 DEF A5Marks, Positions
  <2>2. c[k + j] = BA5 /\ c[k + (j - 1)] = BFF /\ c[k + (j - 2)] = B00
    BY <1>5, <2>1
  <2>3. /\ k + j \in 1..Len(c) /\ k + j > 2
        /\ k + (j - 1) = (k + j) - 1 /\ k + (j - 2) = (k + j) - 2
    BY <1>4, <1>5, <2>1
  <2> QED BY <2>2, <2>3 DEF A5Marks, Positions
<1>11. ASSUME NEW j \in ICMarks(t) PROVE k + j \in ICMarks(c)
  <2>1. /\ j \in 1..Len(t) /\ j < Len(t) /\ j + 1 \in 1..Len(t)
        /\ t[j] = B10 /\ t[j + 1] = B02
    BY <1>5 DEF ICMarks, Positions
  <2>2. c[k + j] = B10 /\ c[k + (j + 1)] = B02
    BY <1>5, <2>1
  <2>3. k + j \in 1..Len(c) /\ k + j < Len(c) /\ k + (j + 1) = (k + j) + 1
    BY <1>4, <1>5, <2>1
  <2> QED BY <2>2, <2>3 DEF ICMarks, Positions
<1>12. Synced(c) <=> Synced(t)
    BY <1>8, <1>9, <1>10, <1>11 DEF Synced
<1>13. ASSUME Synced(t) PROVE Start(c) = Start(t) + k
  <2>1. /\ Mark(t) \in A5Marks(t) \union ICMarks(t) /\ Mark(t) \in 1..Len(t)
        /\ \A m \in A5Marks(t) \union ICMarks(t) : Mark(t) <= m
    BY <1>5, <1>13, MarkFacts DEF Positions
  <2>2. /\ Mark(c) \in A5Marks(c) \union ICMarks(c) /\ Mark(c) \in 1..Len(c)
        /\ \A m \in A5Marks(c) \union ICMarks(c) : Mark(c) <= m
    BY <1>3, <1>12, <1>13, MarkFacts DEF Positions
  <2>3. Mark(c) = k + Mark(t)
    <3>1. Mark(t) <= Mark(c) - k
      BY <1>8, <1>9, <2>1, <2>2
    <3>2. Mark(c) <= k + Mark(t)
      BY <1>10, <1>11, <2>1, <2>2
    <3> QED BY <1>4, <2>1, <2>2, <3>1, <3>2
  <2>4. Mark(c) - k = Mark(t)
    BY <1>4, <2>1, <2>3
  <2>5. Mark(t) \in ICMarks(t) <=> Mark(c) \in ICMarks(c)
    BY <1>9, <1>11, <2>3, <2>4
  <2>6. CASE Mark(c) \in ICMarks(c)
    BY <1>4, <2>1, <2>3, <2>5, <2>6 DEF Start
  <2>7. CASE Mark(c) \notin ICMarks(c)
    <3>1. Mark(c) >= k + 5 /\ Mark(c) > 3 /\ Mark(t) > 3
      BY <1>4, <1>6, <2>1, <2>2, <2>3, <2>7
    <3>2. k + (Mark(t) - 3) = Mark(c) - 3 /\ Mark(t) - 3 \in 1..Len(t)
      BY <1>4, <2>1, <2>3, <3>1
    <3>3. t[Mark(t) - 3] = c[Mark(c) - 3]
      BY <1>5, <3>2
    <3> QED BY <1>4, <2>1, <2>3, <2>5, <2>7, <3>1, <3>3 DEF Start
  <2> QED BY <2>6, <2>7
<1> QED BY <1>2, <1>3, <1>5, <1>12, <1>13 DEF c, t, k

-----------------------------------------------------------------------------
(* What a buffer is drained to: the least relation of buffers, the frames  *)
(* taken from them and the rest that is kept, that the turns generate.     *)

Drains(R) ==
    /\ \A b \in Seq(Byte) : Waits(b) => <<b, <<>>, Kept(b)>> \in R
    /\ \A b \in Seq(Byte), fs \in Seq(Frame), r \in Seq(Byte) :
           ~Waits(b) /\ <<Rest(b), fs, r>> \in R => <<b, Taken(b) \o fs, r>> \in R

Triples == Seq(Byte) \X Seq(Frame) \X Seq(Byte)
Drained == {x \in Triples : \A R \in SUBSET Triples : Drains(R) => x \in R}

\* The turns generate it, and nothing else is in it.
LEMMA DrainedDrains == Drains(Drained)
<1>1. ASSUME NEW b \in Seq(Byte), Waits(b) PROVE <<b, <<>>, Kept(b)>> \in Drained
  <2>1. <<b, <<>>, Kept(b)>> \in Triples
    <3>1. <<>> \in Seq(Frame)
      OBVIOUS
    <3> QED BY <3>1, KeptFacts DEF Triples
  <2> QED BY <1>1, <2>1 DEF Drained, Drains
<1>2. ASSUME NEW b \in Seq(Byte), NEW fs \in Seq(Frame), NEW r \in Seq(Byte),
             ~Waits(b), <<Rest(b), fs, r>> \in Drained
      PROVE  <<b, Taken(b) \o fs, r>> \in Drained
  <2>1. <<b, Taken(b) \o fs, r>> \in Triples
    BY <1>2, CutFacts, ConcatProperties DEF Triples
  <2>2. ASSUME NEW R \in SUBSET Triples, Drains(R) PROVE <<b, Taken(b) \o fs, r>> \in R
    BY <1>2, <2>2 DEF Drained, Drains
  <2> QED BY <2>1, <2>2 DEF Drained
<1> QED BY <1>1, <1>2 DEF Drains

\* Conversely, what a buffer is drained to comes from its turn.
LEMMA DrainedOnly ==
    ASSUME NEW b \in Seq(Byte), NEW fs \in Seq(Frame), NEW r \in Seq(Byte),
           <<b, fs, r>> \in Drained
    PROVE  IF Waits(b) THEN fs = <<>> /\ r = Kept(b)
           ELSE \E gs \in Seq(Frame) : fs = Taken(b) \o gs /\ <<Rest(b), gs, r>> \in Drained
<1> DEFINE Holds == IF Waits(b) THEN fs = <<>> /\ r = Kept(b)
                    ELSE \E gs \in Seq(Frame) : /\ fs = Taken(b) \o gs
                                                /\ <<Rest(b), gs, r>> \in Drained
           R == Drained \ {<<b, fs, r>>}
<1> SUFFICES ASSUME ~Holds PROVE FALSE
    OBVIOUS
<1>1. ASSUME NEW c \in Seq(Byte), Waits(c) PROVE <<c, <<>>, Kept(c)>> \in R
  <2>1. <<c, <<>>, Kept(c)>> \in Drained
    BY <1>1, DrainedDrains DEF Drains
  <2>2. <<c, <<>>, Kept(c)>> # <<b, fs, r>>
    BY <1>1
  <2> QED BY <2>1, <2>2
<1>2. ASSUME NEW c \in Seq(Byte), NEW gs \in Seq(Frame), NEW q \in Seq(Byte),
             ~Waits(c), <<Rest(c), gs, q>> \in R
      PROVE  <<c, Taken(c) \o gs, q>> \in R
  <2>1. <<c, Taken(c) \o gs, q>> \in Drained
    BY <1>2, DrainedDrains DEF Drains
  <2>2. <<c, Taken(c) \o gs, q>> # <<b, fs, r>>
    BY <1>2
  <2> QED BY <2>1, <2>2
<1>3. Drains(R)
    BY <1>1, <1>2 DEF Drains
<1>4. R \in SUBSET Triples
    BY DEF Drained
<1> QED BY <1>3, <1>4 DEF Drained

(* The frames a feed ends with, and the rest, that has taken some frames   *)
(* and holds this buffer.                                                  *)
Outcomes(b, taken) ==
    {o \in Seq(Frame) \X Seq(Byte) :
        \E fs \in Seq(Frame) : <<b, fs, o[2]>> \in Drained /\ o[1] = taken \o fs}

\* A feed that has nothing left to do has one outcome.
LEMMA LastOutcome ==
    ASSUME NEW b \in Seq(Byte), NEW fs \in Seq(Frame), Waits(b)
    PROVE  Outcomes(b, fs) = {<<fs, Kept(b)>>}
<1>1. Kept(b) \in Seq(Byte) /\ <<b, <<>>, Kept(b)>> \in Drained
    BY KeptFacts, DrainedDrains DEF Drains
<1>2. fs \o <<>> = fs /\ <<>> \in Seq(Frame)
    BY ConcatEmptySeq
<1>3. <<fs, Kept(b)>> \in Outcomes(b, fs)
    BY <1>1, <1>2 DEF Outcomes
<1>4. ASSUME NEW o \in Outcomes(b, fs) PROVE o = <<fs, Kept(b)>>
  <2>1. PICK gs \in Seq(Frame) : <<b, gs, o[2]>> \in Drained /\ o[1] = fs \o gs
    BY DEF Outcomes
  <2>2. o \in Seq(Frame) \X Seq(Byte)
    BY DEF Outcomes
  <2>3. gs = <<>> /\ o[2] = Kept(b)
    BY <2>1, <2>2, DrainedOnly
  <2> QED BY <1>2, <2>1, <2>2, <2>3
<1> QED BY <1>3, <1>4

\* A turn changes no outcome.
LEMMA TurnOutcome ==
    ASSUME NEW b \in Seq(Byte), NEW fs \in Seq(Frame), ~Waits(b)
    PROVE  Outcomes(b, fs) = Outcomes(Rest(b), fs \o Taken(b))
<1>1. Rest(b) \in Seq(Byte) /\ Taken(b) \in Seq(Frame)
    BY CutFacts
<1>2. \A gs \in Seq(Frame) : /\ fs \o (Taken(b) \o gs) = (fs \o Taken(b)) \o gs
                             /\ Taken(b) \o gs \in Seq(Frame)
  <2> SUFFICES ASSUME NEW gs \in Seq(Frame)
               PROVE  /\ fs \o (Taken(b) \o gs) = (fs \o Taken(b)) \o gs
                      /\ Taken(b) \o gs \in Seq(Frame)
      OBVIOUS
  <2>1. fs \o (Taken(b) \o gs) = (fs \o Taken(b)) \o gs
    BY SMTT(30), <1>1, ConcatAssociative
  <2>2. Taken(b) \o gs \in Seq(Frame)
    BY <1>1, ConcatProperties
  <2> QED BY <2>1, <2>2
<1>3. ASSUME NEW o \in Outcomes(b, fs) PROVE o \in Outcomes(Rest(b), fs \o Taken(b))
  <2>1. PICK gs \in Seq(Frame) : <<b, gs, o[2]>> \in Drained /\ o[1] = fs \o gs
    BY DEF Outcomes
  <2>2. o \in Seq(Frame) \X Seq(Byte)
    BY DEF Outcomes
  <2>3. PICK hs \in Seq(Frame) : gs = Taken(b) \o hs /\ <<Rest(b), hs, o[2]>> \in Drained
    BY <2>1, <2>2, DrainedOnly
  <2> QED BY <1>2, <2>1, <2>2, <2>3 DEF Outcomes
<1>4. ASSUME NEW o \in Outcomes(Rest(b), fs \o Taken(b)) PROVE o \in Outcomes(b, fs)
  <2>1. PICK hs \in Seq(Frame) : /\ <<Rest(b), hs, o[2]>> \in Drained
                                 /\ o[1] = (fs \o Taken(b)) \o hs
    BY DEF Outcomes
  <2>2. o \in Seq(Frame) \X Seq(Byte)
    BY DEF Outcomes
  <2>3. <<b, Taken(b) \o hs, o[2]>> \in Drained
    BY <2>1, <2>2, DrainedDrains DEF Drains
  <2> QED BY <1>2, <2>1, <2>2, <2>3 DEF Outcomes
<1> QED BY <1>3, <1>4

\* It changes none either when more bytes are to come, and neither does the last
\* turn of a feed.
LEMMA TurnBeforeMore ==
    ASSUME NEW b \in Seq(Byte), NEW d \in Seq(Byte), NEW fs \in Seq(Frame)
    PROVE  Outcomes(b \o d, fs) =
               IF Waits(b) THEN Outcomes(Kept(b) \o d, fs)
               ELSE Outcomes(Rest(b) \o d, fs \o Taken(b))
<1> DEFINE c == b \o d
           t == Kept(b) \o d
           k == Len(b) - 4
<1>1. c \in Seq(Byte) /\ t \in Seq(Byte) /\ Len(d) \in Nat /\ Len(b) \in Nat
    BY KeptFacts, ConcatProperties
<1>2. CASE ~Waits(b)
  <2>1. ~Waits(c) /\ Taken(c) = Taken(b) /\ Rest(c) = Rest(b) \o d
    BY <1>2, SameTurn
  <2> HIDE DEF c
  <2>2. Outcomes(c, fs) = Outcomes(Rest(b) \o d, fs \o Taken(b))
    BY <1>1, <2>1, TurnOutcome
  <2> QED BY <1>2, <2>2 DEF c
<1>3. CASE Waits(b) /\ Kept(b) = b
    BY <1>3
<1>4. CASE Waits(b) /\ Kept(b) # b
  <2>1. ~Synced(b) /\ Len(b) > 4
    BY <1>4, KeptFacts
  <2>2. /\ Synced(c) <=> Synced(t)
        /\ Synced(t) => Start(c) = Start(t) + k
        /\ t = SubSeq(c, k + 1, Len(c))
        /\ Len(t) >= 4
    BY <1>4, <2>1, SameTail
  <2>3. k \in 1..Len(c) /\ Len(c) \in Nat /\ Len(c) > 4
    <3>1. Len(c) = Len(b) + Len(d)
      BY ConcatProperties
    <3> QED BY <1>1, <2>1, <3>1
  <2> HIDE DEF c, t, k
  <2>3a. k \in Nat /\ Len(t) \in Nat /\ Len(t) = Len(c) - k /\ \A i \in 1..Len(t) : t[i] = c[k + i]
    <3>1. k \in 0..Len(c)
      BY <2>3
    <3>2. /\ SubSeq(c, k + 1, Len(c)) \in Seq(Byte)
          /\ Len(SubSeq(c, k + 1, Len(c))) = Len(c) - k
          /\ \A i \in 1..(Len(c) - k) : SubSeq(c, k + 1, Len(c))[i] = c[k + i]
      BY <1>1, <3>1, RestFacts
    <3> QED BY <2>2, <2>3, <3>2
  <2>4. CASE ~Synced(t)
    <3>1. Kept(c) = Kept(t)
      <4>1. ~Synced(c)
        BY <2>2, <2>4
      <4>2. /\ Kept(c) \in Seq(Byte) /\ Len(Kept(c)) = 4
            /\ \A i \in 1..4 : Kept(c)[i] = c[(Len(c) - 4) + i]
        BY <1>1, <2>3, <4>1, LastFour
      <4>3. /\ Kept(t) \in Seq(Byte) /\ Len(Kept(t)) = 4
            /\ \A i \in 1..4 : Kept(t)[i] = t[(Len(t) - 4) + i]
        BY <1>1, <2>2, <2>4, LastFour
      <4>4. ASSUME NEW i \in 1..4 PROVE Kept(c)[i] = Kept(t)[i]
        <5>1. (Len(t) - 4) + i \in 1..Len(t) /\ k + ((Len(t) - 4) + i) = (Len(c) - 4) + i
          BY <2>2, <2>3, <2>3a
        <5> QED BY <2>3a, <4>2, <4>3, <5>1
      <4>5. Len(Kept(c)) = Len(Kept(t)) /\ \A i \in 1..Len(Kept(c)) : Kept(c)[i] = Kept(t)[i]
        BY <4>2, <4>3, <4>4
      <4> QED BY <4>2, <4>3, <4>5, SeqEqual
    <3>2. Waits(c) /\ Waits(t)
      BY <2>2, <2>4 DEF Waits
    <3>3. Outcomes(c, fs) = Outcomes(t, fs)
      <4>1. Outcomes(c, fs) = {<<fs, Kept(c)>>}
        BY <1>1, <3>2, LastOutcome
      <4>2. Outcomes(t, fs) = {<<fs, Kept(t)>>}
        BY <1>1, <3>2, LastOutcome
      <4> QED BY <3>1, <4>1, <4>2
    <3> QED BY <1>4, <3>3 DEF c, t
  <2>5. CASE Synced(t)
    <3>1. Start(t) \in 1..Len(t) /\ Start(c) = Start(t) + k /\ Start(c) \in 1..Len(c) /\ Start(c) > 1
      <4>1. Start(t) \in 1..Len(t)
        BY <1>1, <2>5, MarkFacts
      <4> QED BY <2>2, <2>3, <2>3a, <2>5, <4>1
    <3>2. /\ ~A5AtFront(c) /\ ~ICAtFront(c) /\ ~Waits(c)
          /\ Taken(c) = <<>> /\ Rest(c) = SubSeq(c, Start(c), Len(c))
      <4>1. ~A5AtFront(c) /\ ~ICAtFront(c) /\ Synced(c)
        BY <2>2, <2>5, <3>1 DEF A5AtFront, ICAtFront
      <4>2. Cut(c) = Start(c) - 1 /\ Taken(c) = <<>>
        BY <4>1 DEF Cut, Taken, FrameA5, FrameIC
      <4>3. Cut(c) + 1 = Start(c)
        BY <2>3, <3>1, <4>2
      <4> QED BY <4>1, <4>2, <4>3 DEF Waits, PartA5, PartIC, Rest
    <3>3. fs \o <<>> = fs
      BY ConcatEmptySeq
    <3>4. Outcomes(c, fs) = Outcomes(SubSeq(c, Start(c), Len(c)), fs)
      BY ZenonT(30), <1>1, <3>2, <3>3, TurnOutcome
    <3>5. CASE Start(t) = 1
      <4>1. SubSeq(c, Start(c), Len(c)) = t
        <5>1. Start(c) = k + 1
          BY <2>3a, <3>1, <3>5
        <5> QED BY <2>2, <5>1
      <4> QED BY <1>4, <3>4, <4>1 DEF c, t
    <3>6. CASE Start(t) > 1
      <4>1. ~A5AtFront(t) /\ ~ICAtFront(t)
        BY <3>6 DEF A5AtFront, ICAtFront
      <4>2. /\ ~Waits(t) /\ Taken(t) = <<>> /\ Cut(t) = Start(t) - 1
        BY <2>5, <4>1 DEF Waits, PartA5, PartIC, Cut, Taken, FrameA5, FrameIC
      <4>3. Rest(t) = SubSeq(c, Start(c), Len(c))
        <5>1. Rest(t) = SubSeq(t, Start(t), Len(t))
          <6>1. Cut(t) + 1 = Start(t)
            BY <2>3a, <3>1, <4>2
          <6> QED BY <6>1 DEF Rest
        <5>2. /\ k + 1 \in 1..Len(c) /\ Len(c) \in 1..Len(c)
              /\ Start(t) \in 1..(Len(c) - (k + 1) + 1)
              /\ Len(t) \in 1..(Len(c) - (k + 1) + 1)
          BY <2>2, <2>3, <2>3a, <3>1
        <5>3. SubSeq(SubSeq(c, k + 1, Len(c)), Start(t), Len(t)) =
                  SubSeq(c, (k + 1) + Start(t) - 1, (k + 1) + Len(t) - 1)
          <6>1. ASSUME NEW i \in 1..Len(c), NEW j \in 1..Len(c),
                       NEW m \in 1..(j - i + 1), NEW n \in 1..(j - i + 1)
                PROVE  SubSeq(SubSeq(c, i, j), m, n) = SubSeq(c, i + m - 1, i + n - 1)
            BY <1>1, <6>1, SubSeqOfSubSeq
          <6> QED BY <5>2, <6>1
        <5>4. (k + 1) + Start(t) - 1 = Start(c) /\ (k + 1) + Len(t) - 1 = Len(c)
          BY <2>3, <2>3a, <3>1
        <5> QED BY <2>2, <5>1, <5>3, <5>4
      <4>4. Outcomes(t, fs) = Outcomes(SubSeq(c, Start(c), Len(c)), fs)
        BY ZenonT(30), <1>1, <3>3, <4>2, <4>3, TurnOutcome
      <4> QED BY <1>4, <3>4, <4>4 DEF c, t
    <3> QED BY <3>1, <3>5, <3>6
  <2> QED BY <2>4, <2>5
<1> QED BY <1>2, <1>3, <1>4

-----------------------------------------------------------------------------
(* The steps of the framer are these turns.                                *)

\* What each of the conditions in _drain, _try_take_a5 and _try_take_intellichlor
\* says of the turn.
LEMMA TurnCases ==
    ASSUME NEW b \in Seq(Byte)
    PROVE  /\ ~Synced(b) => Waits(b)
           /\ Synced(b) => Kept(b) = b
           /\ Synced(b) /\ Start(b) > 1 =>
                  ~Waits(b) /\ Cut(b) = Start(b) - 1 /\ Taken(b) = <<>>
           /\ A5AtFront(b) /\ (HeaderHere(b) => Len(b) < A5Length(b)) =>
                  Waits(b) /\ Synced(b)
           /\ A5AtFront(b) /\ HeaderHere(b) /\ Len(b) >= A5Length(b) =>
                  ~Waits(b) /\ Cut(b) = A5Length(b) /\ Taken(b) = FrameOf("a5", b)
           /\ ICAtFront(b) /\ ICEnds(b) = {} /\ ~ICWindowFull(b) =>
                  Waits(b) /\ Synced(b)
           /\ ICAtFront(b) /\ ICEnds(b) # {} /\ Min(ICEnds(b)) >= 6 =>
                  /\ ~Waits(b) /\ Cut(b) = Min(ICEnds(b)) + 1
                  /\ Taken(b) = FrameOf("intellichlor", b)
           /\ ICAtFront(b) /\ (IF ICEnds(b) = {} THEN ICWindowFull(b) ELSE Min(ICEnds(b)) < 6) =>
                  ~Waits(b) /\ Cut(b) = 1 /\ Taken(b) = <<>>
<1>1. ~ (A5AtFront(b) /\ ICAtFront(b))
    BY OneKind DEF A5AtFront, ICAtFront
<1>2. (A5AtFront(b) => Synced(b)) /\ (ICAtFront(b) => Synced(b))
    BY DEF A5AtFront, ICAtFront
<1>3. (~Synced(b) => Waits(b)) /\ (Synced(b) => Kept(b) = b)
    BY DEF Waits, Kept
<1>4. ASSUME Synced(b), Start(b) > 1
      PROVE  ~Waits(b) /\ Cut(b) = Start(b) - 1 /\ Taken(b) = <<>>
  <2>1. ~A5AtFront(b) /\ ~ICAtFront(b)
    BY <1>4 DEF A5AtFront, ICAtFront
  <2> QED BY <1>4, <2>1 DEF Waits, PartA5, PartIC, Cut, Taken, FrameA5, FrameIC
<1>5. ASSUME A5AtFront(b), HeaderHere(b), Len(b) >= A5Length(b)
      PROVE  ~Waits(b) /\ Cut(b) = A5Length(b) /\ Taken(b) = FrameOf("a5", b)
  <2>1. ~PartA5(b)
    BY <1>5, FrontFacts DEF PartA5
  <2> QED BY <1>1, <1>2, <1>5, <2>1 DEF Waits, PartIC, Cut, Taken, FrameA5
<1>6. ASSUME ICAtFront(b), ICEnds(b) # {}, Min(ICEnds(b)) >= 6
      PROVE  /\ ~Waits(b) /\ Cut(b) = Min(ICEnds(b)) + 1
             /\ Taken(b) = FrameOf("intellichlor", b)
    BY <1>1, <1>2, <1>6 DEF Waits, PartA5, PartIC, Cut, Taken, FrameA5, FrameIC
<1>7. ASSUME ICAtFront(b), IF ICEnds(b) = {} THEN ICWindowFull(b) ELSE Min(ICEnds(b)) < 6
      PROVE  ~Waits(b) /\ Cut(b) = 1 /\ Taken(b) = <<>>
  <2>1. ~FrameIC(b)
    BY <1>7, EndFacts DEF FrameIC
  <2> QED BY <1>1, <1>2, <1>7, <2>1 DEF Waits, PartA5, PartIC, Cut, Taken, FrameA5
<1>8. /\ A5AtFront(b) /\ (HeaderHere(b) => Len(b) < A5Length(b)) => Waits(b)
      /\ ICAtFront(b) /\ ICEnds(b) = {} /\ ~ICWindowFull(b) => Waits(b)
    BY DEF Waits, PartA5, PartIC
<1> QED BY <1>2, <1>3, <1>4, <1>5, <1>6, <1>7, <1>8

\* A step of the loop is a turn.
LEMMA DrainTurns ==
    ASSUME TypeOK, Drain
    PROVE  /\ draining /\ empty' = empty
           /\ IF Waits(buf) THEN buf' = Kept(buf) /\ frames' = frames /\ draining' = FALSE
              ELSE buf' = Rest(buf) /\ frames' = frames \o Taken(buf) /\ draining' = TRUE
<1>1. buf \in Seq(Byte) /\ frames \in Seq(Frame) /\ draining \in BOOLEAN
    BY DEF TypeOK
<1>2. frames \o <<>> = frames
    BY <1>1, ConcatEmptySeq
<1>3. \A x \in Frame : Append(frames, x) = frames \o <<x>>
    BY <1>1, AppendIsConcat
<1> USE DEF Drop
<1>4. CASE NoSync
    BY <1>1, <1>4, TurnCases DEF NoSync, Kept
<1>5. CASE SkipNoise \/ AbandonIC
    BY <1>1, <1>2, <1>5, TurnCases DEF SkipNoise, AbandonIC, Rest
<1>6. CASE WaitA5 \/ WaitIC
    BY <1>1, <1>6, TurnCases DEF WaitA5, WaitIC, Wait
<1>7. CASE TakeA5
    BY <1>1, <1>3, <1>7, TurnCases, FrameTyped DEF TakeA5, Take, Rest, FrameOf
<1>8. CASE TakeIC
    BY <1>1, <1>3, <1>8, TurnCases, FrameTyped DEF TakeIC, Take, Rest, FrameOf
<1> QED BY <1>4, <1>5, <1>6, <1>7, <1>8 DEF Drain

-----------------------------------------------------------------------------
(* The inductive invariant.  A buffer is settled between two feeds, and    *)
(* during a feed of no data.                                               *)

FramerInv ==
    /\ TypeOK
    /\ ~draining \/ empty => Settled(buf)
    /\ FlushIsEmpty

\* What a last turn keeps is settled.
LEMMA KeptSettled ==
    ASSUME NEW b \in Seq(Byte), Waits(b)
    PROVE  Settled(Kept(b))
<1>1. CASE Kept(b) = b
    BY <1>1 DEF Settled
<1>2. CASE Kept(b) # b
  <2>1. ~Synced(b) /\ Len(b) > 4 /\ Kept(b) \in Seq(Byte) /\ Len(Kept(b)) = 4
    BY <1>2, KeptFacts
  <2>2. <<>> \in Seq(Byte) /\ b \o <<>> = b /\ Kept(b) \o <<>> = Kept(b)
    BY <2>1, ConcatEmptySeq
  <2>3. Synced(b \o <<>>) <=> Synced(Kept(b) \o <<>>)
    BY <2>1, <2>2, SameTail
  <2>4. ~Synced(Kept(b))
    BY <2>1, <2>2, <2>3
  <2> QED BY <2>1, <2>4 DEF Settled, Waits, Kept
<1> QED BY <1>1, <1>2

\* An empty buffer is settled.
LEMMA EmptySettled == Settled(<<>>)
<1>1. ~Synced(<<>>)
    BY DEF Synced, A5Marks, ICMarks, Positions
<1> QED BY <1>1 DEF Settled, Waits, Kept

\* A chunk is a sequence of bytes, and an empty one changes no buffer.
LEMMA ChunkFacts ==
    ASSUME NEW b \in Seq(Byte), NEW data \in Chunks
    PROVE  /\ data \in Seq(Byte) /\ b \o data \in Seq(Byte)
           /\ data = <<>> => b \o data = b
<1>1. PICK n \in 0..MaxFeed : data \in [1..n -> Byte]
    BY DEF Chunks
<1>2. n \in Nat
    BY FramingAssumption
<1>3. data \in Seq(Byte)
    BY <1>1, <1>2
<1> QED BY <1>3, ConcatProperties, ConcatEmptySeq

\* Initially the buffer is empty.
LEMMA InitInv == Init => FramerInv
<1> SUFFICES ASSUME Init PROVE FramerInv
    OBVIOUS
<1>1. <<>> \in Seq(Byte) /\ <<>> \in Seq(Frame)
    OBVIOUS
<1> QED BY <1>1, EmptySettled DEF Init, TypeOK, FramerInv, FlushIsEmpty

\* A turn keeps the invariant.
LEMMA DrainInv ==
    ASSUME FramerInv, Drain
    PROVE  FramerInv'
<1>1. TypeOK /\ FlushIsEmpty /\ (empty => Settled(buf)) /\ buf \in Seq(Byte)
    BY DEF FramerInv, TypeOK
<1>2. CASE Waits(buf)
  <2>1. buf' = Kept(buf) /\ frames' = frames /\ draining' = FALSE /\ empty' = empty
    BY <1>1, <1>2, DrainTurns
  <2>2. Settled(buf')
    BY <1>1, <1>2, <2>1, KeptSettled
  <2> QED BY <1>1, <2>1, <2>2, KeptFacts DEF FramerInv, TypeOK, FlushIsEmpty
<1>3. CASE ~Waits(buf)
  <2>1. /\ buf' = Rest(buf) /\ frames' = frames \o Taken(buf)
        /\ draining' = TRUE /\ empty' = empty
    BY <1>1, <1>3, DrainTurns
  <2>2. ~empty
    BY <1>1, <1>3 DEF Settled
  <2>3. frames \o Taken(buf) \in Seq(Frame)
    BY <1>1, <1>3, CutFacts, ConcatProperties DEF TypeOK
  <2> QED BY <1>1, <1>3, <2>1, <2>2, <2>3, CutFacts DEF FramerInv, TypeOK, FlushIsEmpty
<1> QED BY <1>2, <1>3

\* The invariant is inductive.
LEMMA StepInv == FramerInv /\ [Next]_vars => FramerInv'
<1> SUFFICES ASSUME FramerInv, [Next]_vars PROVE FramerInv'
    OBVIOUS
<1>1. ASSUME NEW data \in Chunks, Feed(data) PROVE FramerInv'
  <2>1. buf' \in Seq(Byte) /\ (empty' => buf' = buf)
    BY <1>1, ChunkFacts DEF Feed, FramerInv, TypeOK
  <2>2. <<>> \in Seq(Frame)
    OBVIOUS
  <2>3. empty' => Settled(buf')
    BY <1>1, <2>1 DEF Feed, FramerInv
  <2> QED BY <1>1, <2>1, <2>2, <2>3 DEF Feed, FramerInv, TypeOK, FlushIsEmpty
<1>2. CASE Reset
    BY <1>2, EmptySettled DEF Reset, FramerInv, TypeOK, FlushIsEmpty
<1>3. CASE Drain
    BY <1>3, DrainInv
<1>4. CASE UNCHANGED vars
    BY <1>4 DEF vars, FramerInv, TypeOK, FlushIsEmpty
<1> QED BY <1>1, <1>2, <1>3, <1>4 DEF Next

-----------------------------------------------------------------------------
(* The theorems about one framer.                                          *)

\* In every reachable state the invariant holds.
THEOREM Invariant == Spec => []FramerInv
BY InitInv, StepInv, PTL DEF Spec

\* The buffer and the frames taken are sequences of bytes and of frames.
THEOREM TypeCorrect == Spec => []TypeOK
<1>1. FramerInv => TypeOK
    BY DEF FramerInv
<1> QED BY <1>1, Invariant, PTL

\* What the framer holds back between two feeds is bounded by the longest frame,
\* whatever the bus delivers and for however long.
THEOREM Bounded == Spec => []BufferBound
<1>1. FramerInv => BufferBound
  <2> SUFFICES ASSUME FramerInv, ~draining
               PROVE  Len(buf) <= 4 \/ Len(buf) < LongestA5 \/ Len(buf) < ICMax
      BY DEF BufferBound
  <2>1. buf \in Seq(Byte) /\ Waits(buf) /\ Kept(buf) = buf
    BY DEF FramerInv, TypeOK, Settled
  <2>2. CASE ~Synced(buf)
    <3>1. ASSUME Len(buf) > 4 PROVE Len(Kept(buf)) = 4
      BY <2>1, <2>2, <3>1, LastFour
    <3>2. Len(buf) <= 4
      BY <2>1, <3>1
    <3> QED BY <3>2
  <2>3. CASE PartA5(buf)
    <3>1. CASE HeaderHere(buf)
      BY <2>1, <2>3, <3>1, FrontFacts, FramingAssumption DEF PartA5, LongestA5
    <3>2. CASE ~HeaderHere(buf)
      BY <2>1, <2>3, <3>2, FrontFacts, FramingAssumption DEF PartA5, HeaderHere, LongestA5
    <3> QED BY <3>1, <3>2
  <2>4. CASE PartIC(buf)
    BY <2>1, <2>4, FramingAssumption DEF PartIC, ICWindowFull
  <2> QED BY <2>1, <2>2, <2>3, <2>4 DEF Waits
<1> QED BY <1>1, Invariant, PTL

\* The flush of a framer takes no frame: it can only matter where two threads
\* run feed() on one framer at once.
THEOREM FlushTakesNothing == Spec => []FlushIsEmpty
<1>1. FramerInv => FlushIsEmpty
    BY DEF FramerInv
<1> QED BY <1>1, Invariant, PTL

\* Every turn of the loop in _drain but the last shortens the buffer, so feed()
\* returns.
THEOREM Shrinks == Spec => DrainShrinks
<1>1. FramerInv /\ [Next]_vars => [draining /\ draining' => Len(buf') < Len(buf)]_vars
  <2> SUFFICES ASSUME FramerInv, Next, draining, draining'
               PROVE  Len(buf') < Len(buf)
      OBVIOUS
  <2>1. TypeOK /\ buf \in Seq(Byte)
    BY DEF FramerInv, TypeOK
  <2>2. Drain
    BY DEF Next, Feed, Reset
  <2>3. ~Waits(buf) /\ buf' = Rest(buf)
    BY <2>1, <2>2, DrainTurns
  <2> QED BY <2>1, <2>3, CutFacts
<1> QED BY <1>1, Invariant, PTL DEF Spec, DrainShrinks

-----------------------------------------------------------------------------
(* The framer that is fed byte by byte.                                    *)

\* It looks at a buffer as the other one does.
LEMMA OneSame ==
    ASSUME NEW b
    PROVE  /\ One!Synced(b) <=> Synced(b)
           /\ One!Start(b) = Start(b)
           /\ One!A5AtFront(b) <=> A5AtFront(b)
           /\ One!ICAtFront(b) <=> ICAtFront(b)
           /\ One!HeaderHere(b) <=> HeaderHere(b)
           /\ One!A5Length(b) = A5Length(b)
           /\ One!ICEnds(b) = ICEnds(b)
           /\ One!Min(ICEnds(b)) = Min(ICEnds(b))
           /\ One!ICWindowFull(b) <=> ICWindowFull(b)
<1>0. \A S : One!Min(S) = Min(S)
    BY DEF One!Min, Min
<1>1. One!Positions(b) = Positions(b)
    BY DEF One!Positions, Positions
<1>2. One!A5Marks(b) = A5Marks(b) /\ One!ICMarks(b) = ICMarks(b)
    BY <1>1 DEF One!A5Marks, A5Marks, One!ICMarks, ICMarks
<1>3. One!Mark(b) = Mark(b)
    BY <1>0, <1>2 DEF One!Mark, Mark
<1>4. One!Start(b) = Start(b) /\ (One!Synced(b) <=> Synced(b))
    BY <1>2, <1>3 DEF One!Start, Start, One!Synced, Synced
<1>5. /\ One!A5AtFront(b) <=> A5AtFront(b)
      /\ One!ICAtFront(b) <=> ICAtFront(b)
    BY <1>2, <1>3, <1>4 DEF One!A5AtFront, A5AtFront, One!ICAtFront, ICAtFront
<1>6. /\ One!HeaderHere(b) <=> HeaderHere(b)
      /\ One!A5Length(b) = A5Length(b)
    BY <1>3 DEF One!HeaderHere, HeaderHere, One!A5Length, A5Length
<1>7. One!ICEnds(b) = ICEnds(b) /\ (One!ICWindowFull(b) <=> ICWindowFull(b))
    BY <1>1 DEF One!ICEnds, ICEnds, One!ICWindowFull, ICWindowFull
<1> QED BY <1>0, <1>4, <1>5, <1>6, <1>7

\* So its steps are the same turns.
LEMMA OneTurns ==
    ASSUME buf1 \in Seq(Byte), frames1 \in Seq(Frame), draining1 \in BOOLEAN, One!Drain
    PROVE  /\ draining1 /\ empty1' = empty1
           /\ IF Waits(buf1)
              THEN buf1' = Kept(buf1) /\ frames1' = frames1 /\ draining1' = FALSE
              ELSE /\ buf1' = Rest(buf1) /\ frames1' = frames1 \o Taken(buf1)
                   /\ draining1' = TRUE
<1>2. frames1 \o <<>> = frames1
    BY ConcatEmptySeq
<1>3. \A x \in Frame : Append(frames1, x) = frames1 \o <<x>>
    BY AppendIsConcat
<1> USE OneSame DEF One!Drop
<1>4. CASE One!NoSync
    BY <1>4, TurnCases DEF One!NoSync, Kept
<1>5. CASE One!SkipNoise \/ One!AbandonIC
    BY <1>2, <1>5, TurnCases DEF One!SkipNoise, One!AbandonIC, Rest
<1>6. CASE One!WaitA5 \/ One!WaitIC
    BY <1>6, TurnCases DEF One!WaitA5, One!WaitIC, One!Wait
<1>7. CASE One!TakeA5
    BY <1>3, <1>7, TurnCases, FrameTyped DEF One!TakeA5, One!Take, Rest, FrameOf
<1>8. CASE One!TakeIC
    BY <1>3, <1>8, TurnCases, FrameTyped DEF One!TakeIC, One!Take, Rest, FrameOf
<1> QED BY <1>4, <1>5, <1>6, <1>7, <1>8 DEF One!Drain

-----------------------------------------------------------------------------
(* The two of them.                                                        *)

OneInv ==
    /\ buf1 \in Seq(Byte) /\ frames1 \in Seq(Frame) /\ draining1 \in BOOLEAN
    /\ ~draining1 => Settled(buf1)

(* Whatever is still to be done, they will have taken the same frames and  *)
(* hold the same rest.                                                     *)
ChunksInv ==
    /\ FramerInv /\ OneInv
    /\ pending \in Seq(Byte) /\ earlier \in Seq(Frame)
    /\ Outcomes(buf, frames) = Outcomes(buf1 \o pending, earlier \o frames1)

\* When nothing is left to be done, they agree.
LEMMA ChunksAgree ==
    ASSUME ChunksInv, Idle, pending = <<>>
    PROVE  buf = buf1 /\ frames = earlier \o frames1
<1>1. /\ buf \in Seq(Byte) /\ frames \in Seq(Frame) /\ Waits(buf) /\ Kept(buf) = buf
      /\ buf1 \in Seq(Byte) /\ Waits(buf1) /\ Kept(buf1) = buf1
      /\ earlier \in Seq(Frame) /\ frames1 \in Seq(Frame)
    BY DEF ChunksInv, FramerInv, TypeOK, OneInv, Idle, Settled
<1>2. earlier \o frames1 \in Seq(Frame) /\ buf1 \o pending = buf1
    BY <1>1, ConcatProperties, ConcatEmptySeq
<1>3. Outcomes(buf, frames) = {<<frames, buf>>}
    BY <1>1, LastOutcome
<1>4. Outcomes(buf1, earlier \o frames1) = {<<earlier \o frames1, buf1>>}
    BY <1>1, <1>2, LastOutcome
<1>5. {<<frames, buf>>} = {<<earlier \o frames1, buf1>>}
    BY <1>2, <1>3, <1>4 DEF ChunksInv
<1>6. <<frames, buf>> = <<earlier \o frames1, buf1>>
    BY <1>5
<1> QED BY <1>6

\* A step of the pair is a step of the first framer, or leaves it alone.
LEMMA ChunksStep == [ChunksNext]_chunksVars => [Next]_vars
BY DEF ChunksNext, chunksVars, Deliver, FeedByte, ResetBoth, DrainChunk, DrainByte, Next

\* Initially both are empty.
LEMMA InitChunks == ChunksInit => ChunksInv
<1> SUFFICES ASSUME ChunksInit PROVE ChunksInv
    OBVIOUS
<1>1. <<>> \in Seq(Byte) /\ <<>> \in Seq(Frame)
    OBVIOUS
<1>2. /\ buf = <<>> /\ frames = <<>> /\ buf1 = <<>> /\ frames1 = <<>>
      /\ draining1 = FALSE /\ pending = <<>> /\ earlier = <<>> /\ FramerInv
    BY InitInv DEF ChunksInit, Init, One!Init
<1>3. buf1 \o pending = buf /\ earlier \o frames1 = frames
    BY <1>1, <1>2, ConcatEmptySeq
<1> QED BY <1>1, <1>2, <1>3, EmptySettled DEF ChunksInv, OneInv

\* The agreement is inductive.
LEMMA StepChunks == ChunksInv /\ [ChunksNext]_chunksVars => ChunksInv'
<1> SUFFICES ASSUME ChunksInv, [ChunksNext]_chunksVars PROVE ChunksInv'
    OBVIOUS
<1>1. FramerInv'
    BY ChunksStep, StepInv DEF ChunksInv
<1>2. /\ buf \in Seq(Byte) /\ frames \in Seq(Frame) /\ TypeOK
      /\ OneInv /\ buf1 \in Seq(Byte) /\ frames1 \in Seq(Frame) /\ draining1 \in BOOLEAN
      /\ pending \in Seq(Byte) /\ earlier \in Seq(Frame)
      /\ Outcomes(buf, frames) = Outcomes(buf1 \o pending, earlier \o frames1)
    BY DEF ChunksInv, FramerInv, TypeOK, OneInv
<1>3. <<>> \in Seq(Byte) /\ <<>> \in Seq(Frame)
    OBVIOUS
<1>4. \A b \in Seq(Byte) : b \o <<>> = b
    BY ConcatEmptySeq
<1>5. \A fs \in Seq(Frame) : fs \o <<>> = fs
    BY ConcatEmptySeq
<1>6. earlier \o frames1 \in Seq(Frame)
    BY <1>2, ConcatProperties
<1>7. ASSUME NEW data \in Chunks, Deliver(data) PROVE ChunksInv'
  <2>1. buf = buf1
    BY <1>7, ChunksAgree DEF Deliver
  <2>2. /\ buf' = buf \o data /\ frames' = <<>> /\ pending' = data
        /\ earlier' = <<>> /\ frames1' = <<>> /\ buf1' = buf1 /\ draining1' = draining1
    BY <1>7 DEF Deliver, Feed
  <2>3. data \in Seq(Byte)
    BY <1>2, ChunkFacts
  <2>4. earlier' \o frames1' = <<>>
    BY <1>3, <1>5, <2>2
  <2>5. OneInv'
    BY <1>2, <1>3, <2>2 DEF OneInv
  <2>6. Outcomes(buf', frames') = Outcomes(buf1' \o pending', earlier' \o frames1')
    BY <2>1, <2>2, <2>4
  <2> QED BY <1>1, <1>3, <2>2, <2>3, <2>5, <2>6 DEF ChunksInv
<1>8. CASE FeedByte
  <2>1. /\ buf1' = buf1 \o <<Head(pending)>> /\ frames1' = <<>> /\ draining1' = TRUE
        /\ pending' = Tail(pending) /\ earlier' = earlier \o frames1
        /\ buf' = buf /\ frames' = frames
    BY <1>8 DEF FeedByte, One!Feed, vars
  <2>2. /\ <<Head(pending)>> \in Seq(Byte) /\ Tail(pending) \in Seq(Byte)
        /\ pending = <<Head(pending)>> \o Tail(pending)
    <3>1. pending # <<>>
      BY <1>8 DEF FeedByte
    <3>2. Head(pending) \in Byte /\ Tail(pending) \in Seq(Byte)
      BY <1>2, <3>1
    <3>3. pending = <<Head(pending)>> \o Tail(pending)
      BY <1>2, <3>1, HeadTailProperties
    <3> QED BY <3>2, <3>3
  <2>3. /\ buf1' \in Seq(Byte)
        /\ buf1' \o pending' = buf1 \o pending
    <3>1. buf1' \in Seq(Byte)
      BY <1>2, <2>1, <2>2, ConcatProperties
    <3>2. (buf1 \o <<Head(pending)>>) \o Tail(pending) =
              buf1 \o (<<Head(pending)>> \o Tail(pending))
      BY SMTT(30), <1>2, <2>2, ConcatAssociative
    <3> QED BY <2>1, <2>2, <3>1, <3>2
  <2>4. earlier' \o frames1' = earlier \o frames1
    BY <1>5, <1>6, <2>1
  <2>5. OneInv'
    BY <1>3, <2>1, <2>3 DEF OneInv
  <2>6. Outcomes(buf', frames') = Outcomes(buf1' \o pending', earlier' \o frames1')
    BY <1>2, <2>1, <2>3, <2>4
  <2> QED BY <1>1, <1>6, <2>1, <2>2, <2>5, <2>6 DEF ChunksInv
<1>9. CASE ResetBoth
  <2>1. frames = earlier \o frames1
    BY <1>9, ChunksAgree DEF ResetBoth
  <2>2. /\ buf' = <<>> /\ buf1' = <<>> /\ frames' = frames /\ frames1' = frames1
        /\ draining1' = draining1 /\ pending' = <<>> /\ earlier' = earlier
    BY <1>9 DEF ResetBoth, Reset, One!Reset
  <2>3. buf1' \o pending' = <<>>
    BY <1>3, <1>4, <2>2
  <2>4. OneInv'
    BY <1>2, <1>3, <2>2, EmptySettled DEF OneInv
  <2>5. Outcomes(buf', frames') = Outcomes(buf1' \o pending', earlier' \o frames1')
    BY <2>1, <2>2, <2>3
  <2> QED BY <1>1, <1>2, <1>3, <2>2, <2>4, <2>5 DEF ChunksInv
<1>10. CASE DrainChunk
  <2>1. Drain /\ UNCHANGED <<bytewise, pending, earlier>>
    BY <1>10 DEF DrainChunk
  <2>2. Outcomes(buf', frames') = Outcomes(buf, frames)
    <3>1. CASE Waits(buf)
      <4>1. buf' = Kept(buf) /\ frames' = frames
        BY <1>2, <2>1, <3>1, DrainTurns
      <4>2. Kept(buf) \in Seq(Byte) /\ buf \o <<>> = buf /\ Kept(buf) \o <<>> = Kept(buf)
        BY <1>2, <1>4, KeptFacts
      <4>3. Outcomes(buf \o <<>>, frames) = Outcomes(Kept(buf) \o <<>>, frames)
        BY <1>2, <1>3, <3>1, TurnBeforeMore
      <4> QED BY <4>1, <4>2, <4>3
    <3>2. CASE ~Waits(buf)
      <4>1. buf' = Rest(buf) /\ frames' = frames \o Taken(buf)
        BY <1>2, <2>1, <3>2, DrainTurns
      <4> QED BY <1>2, <3>2, <4>1, TurnOutcome
    <3> QED BY <3>1, <3>2
  <2>3. OneInv' /\ pending' = pending /\ earlier' = earlier /\ buf1' = buf1 /\ frames1' = frames1
    BY <1>2, <2>1 DEF bytewise, OneInv
  <2>4. Outcomes(buf', frames') = Outcomes(buf1' \o pending', earlier' \o frames1')
    BY <1>2, <2>2, <2>3
  <2> QED BY <1>1, <1>2, <2>3, <2>4 DEF ChunksInv
<1>11. CASE DrainByte
  <2>1. One!Drain /\ UNCHANGED <<vars, pending, earlier>>
    BY <1>11 DEF DrainByte
  <2>2. CASE Waits(buf1)
    <3>1. buf1' = Kept(buf1) /\ frames1' = frames1 /\ draining1' = FALSE
      BY <1>2, <2>1, <2>2, OneTurns
    <3>2. OneInv'
      BY <1>2, <2>2, <3>1, KeptFacts, KeptSettled DEF OneInv
    <3>3. Outcomes(buf1 \o pending, earlier \o frames1) =
              Outcomes(Kept(buf1) \o pending, earlier \o frames1)
      BY <1>2, <1>6, <2>2, TurnBeforeMore
    <3>4. Outcomes(buf', frames') = Outcomes(buf1' \o pending', earlier' \o frames1')
      BY <1>2, <2>1, <3>1, <3>3 DEF vars
    <3> QED BY <1>1, <1>2, <2>1, <3>2, <3>4 DEF ChunksInv
  <2>3. CASE ~Waits(buf1)
    <3>1. /\ buf1' = Rest(buf1) /\ frames1' = frames1 \o Taken(buf1) /\ draining1' = TRUE
          /\ Rest(buf1) \in Seq(Byte) /\ Taken(buf1) \in Seq(Frame)
      BY <1>2, <2>1, <2>3, OneTurns, CutFacts
    <3>2. /\ frames1 \o Taken(buf1) \in Seq(Frame)
          /\ (earlier \o frames1) \o Taken(buf1) = earlier \o (frames1 \o Taken(buf1))
      <4>1. earlier \in Seq(Frame) /\ frames1 \in Seq(Frame) /\ Taken(buf1) \in Seq(Frame)
        BY <1>2, <3>1
      <4>2. frames1 \o Taken(buf1) \in Seq(Frame)
        BY <4>1, ConcatProperties
      <4>3. (earlier \o frames1) \o Taken(buf1) = earlier \o (frames1 \o Taken(buf1))
        BY <4>1, ConcatAssociative
      <4> QED BY <4>2, <4>3
    <3>3. OneInv'
      BY <3>1, <3>2 DEF OneInv
    <3>4. Outcomes(buf1 \o pending, earlier \o frames1) =
              Outcomes(Rest(buf1) \o pending, (earlier \o frames1) \o Taken(buf1))
      BY <1>2, <1>6, <2>3, TurnBeforeMore
    <3>5. Outcomes(buf', frames') = Outcomes(buf1' \o pending', earlier' \o frames1')
      BY <1>2, <2>1, <3>1, <3>2, <3>4 DEF vars
    <3> QED BY <1>1, <1>2, <2>1, <3>3, <3>5 DEF ChunksInv
  <2> QED BY <2>2, <2>3
<1>12. CASE UNCHANGED chunksVars
  <2>1. /\ UNCHANGED <<buf, frames, pending, earlier, buf1, frames1, draining1>>
    BY <1>12 DEF chunksVars, vars, bytewise
  <2> QED BY <1>1, <1>2, <2>1 DEF ChunksInv, OneInv
<1> QED BY <1>7, <1>8, <1>9, <1>10, <1>11, <1>12 DEF ChunksNext

\* The frames do not depend on how the bus's bytes are cut into reads, for streams
\* and reads of every length, every header and every window.
THEOREM ChunksMakeNoDifference == ChunksSpec => []SameFrames
<1>1. ChunksInv => SameFrames
    BY ChunksAgree DEF SameFrames
<1> QED BY <1>1, InitChunks, StepChunks, PTL DEF ChunksSpec

\* The framer fed in chunks is the framer: what holds of every feed holds of these.
THEOREM ChunksAreFeeds == ChunksSpec => Spec
<1>1. ChunksInit => Init
    BY DEF ChunksInit
<1> QED BY <1>1, ChunksStep, PTL DEF ChunksSpec, Spec

=============================================================================
