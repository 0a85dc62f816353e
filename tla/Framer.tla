------------------------------- MODULE Framer -------------------------------
(***************************************************************************)
(* The framer of the bus (Framer.feed): it keeps the bytes that are not    *)
(* yet a frame and takes frames from their front.  One iteration of the    *)
(* loop in _drain is one step; a feed is over when draining is FALSE.      *)
(*                                                                         *)
(* Positions count from 1, one more than the indices of the code.  What a  *)
(* frame says and whether its checksum holds is a function of its bytes    *)
(* and is not kept here.                                                   *)
(***************************************************************************)
EXTENDS Integers, Sequences, FiniteSetsExt

CONSTANTS
    Byte,               \* the values of a byte
    B00, BFF, BA5,      \* the sync 00 FF A5, perhaps with one more FF before it
    B10, B02, B03,      \* the IntelliChlor delimiters 10 02 and 10 03
    Header,             \* _A5_HEADER_AFTER: the bytes after A5, LEN the last one
    LenMod,             \* LEN is a byte modulo LenMod (256: the byte itself)
    ICMax,              \* _IC_MAX_FRAME
    MaxFeed             \* bound: the bytes of one feed

ASSUME FramingAssumption ==
    /\ Byte \subseteq Nat
    /\ {B00, BFF, BA5, B10, B02, B03} \subseteq Byte
    /\ B10 \notin {B00, BFF, BA5} /\ B00 # BFF /\ BA5 # BFF
    /\ Header \in Nat \ {0} /\ LenMod \in Nat \ {0}
    /\ ICMax \in Nat /\ ICMax >= 2 /\ MaxFeed \in Nat

VARIABLES
    buf,        \* _buf
    frames,     \* the frames this feed has taken (out in _drain)
    draining,   \* a feed is in progress
    empty       \* it was given no data

vars == <<buf, frames, draining, empty>>

Frame == [kind : {"a5", "intellichlor"}, raw : Seq(Byte)]

TypeOK ==
    /\ buf \in Seq(Byte) /\ frames \in Seq(Frame)
    /\ draining \in BOOLEAN /\ empty \in BOOLEAN

Init == buf = <<>> /\ frames = <<>> /\ draining = FALSE /\ empty = FALSE

-----------------------------------------------------------------------------
(* Where frames begin.                                                     *)

Positions(b) == 1..Len(b)

A5Marks(b) == {m \in Positions(b) : m > 2 /\ b[m] = BA5 /\ b[m - 1] = BFF /\ b[m - 2] = B00}
ICMarks(b) == {m \in Positions(b) : m < Len(b) /\ b[m] = B10 /\ b[m + 1] = B02}

Synced(b) == A5Marks(b) \union ICMarks(b) # {}

(* The A5 or the 10 that comes first, and where its preamble starts.       *)
Mark(b)  == Min(A5Marks(b) \union ICMarks(b))
Start(b) == IF Mark(b) \in ICMarks(b) THEN Mark(b)
         ELSE IF Mark(b) > 3 /\ b[Mark(b) - 3] = BFF THEN Mark(b) - 3 ELSE Mark(b) - 2

A5AtFront(b) == Synced(b) /\ Start(b) = 1 /\ Mark(b) \in A5Marks(b)
ICAtFront(b) == Synced(b) /\ Start(b) = 1 /\ Mark(b) \in ICMarks(b)

-----------------------------------------------------------------------------
(* Feeding.                                                                *)

Feed(data) ==
    /\ ~draining
    /\ buf' = buf \o data
    /\ frames' = <<>>
    /\ draining' = TRUE
    /\ empty' = (data = <<>>)

Reset == ~draining /\ buf' = <<>> /\ UNCHANGED <<frames, draining, empty>>

Wait == draining' = FALSE /\ UNCHANGED <<buf, frames, empty>>

Drop(n) == buf' = SubSeq(buf, n + 1, Len(buf)) /\ UNCHANGED <<draining, empty>>

Take(kind, n) ==
    /\ frames' = Append(frames, [kind |-> kind, raw |-> SubSeq(buf, 1, n)])
    /\ Drop(n)

NoSyncKeepsTwo ==        \* mutant: too short a tail for a sync that straddles
    /\ draining /\ ~Synced(buf)
    /\ buf' = IF Len(buf) > 2 THEN SubSeq(buf, Len(buf) - 1, Len(buf)) ELSE buf
    /\ draining' = FALSE
    /\ UNCHANGED <<frames, empty>>

(* Nothing begins here; a sync may straddle the next feed.                 *)
NoSync ==
    /\ draining /\ ~Synced(buf)
    /\ buf' = IF Len(buf) > 4 THEN SubSeq(buf, Len(buf) - 3, Len(buf)) ELSE buf
    /\ draining' = FALSE
    /\ UNCHANGED <<frames, empty>>

SkipNoise ==
    /\ draining /\ Synced(buf) /\ Start(buf) > 1
    /\ Drop(Start(buf) - 1)
    /\ UNCHANGED frames

-----------------------------------------------------------------------------
(* _try_take_a5.                                                           *)

HeaderHere(b) == Len(b) >= Mark(b) + Header
A5Length(b)   == Mark(b) + Header + (b[Mark(b) + Header] % LenMod) + 2

TakeA5 ==
    /\ draining /\ A5AtFront(buf)
    /\ HeaderHere(buf) /\ Len(buf) >= A5Length(buf)
    /\ Take("a5", A5Length(buf))

WaitA5OneMore ==         \* mutant: a frame may wait for the byte after it
    /\ draining /\ A5AtFront(buf)
    /\ HeaderHere(buf) => Len(buf) <= A5Length(buf)
    /\ Wait

WaitA5 ==
    /\ draining /\ A5AtFront(buf)
    /\ HeaderHere(buf) => Len(buf) < A5Length(buf)
    /\ Wait

-----------------------------------------------------------------------------
(* _try_take_intellichlor.                                                 *)

(* The places of 10 03 within ICMax bytes of the front.                    *)
ICEnds(b) == {e \in Positions(b) : /\ 3 <= e /\ e < Len(b) /\ e < ICMax
                             /\ b[e] = B10 /\ b[e + 1] = B03}

ICWindowFull(b) == Len(b) >= ICMax

TakeICKeepsBytes ==      \* mutant: the frame is taken, its bytes stay
    /\ draining /\ ICAtFront(buf)
    /\ ICEnds(buf) # {} /\ Min(ICEnds(buf)) >= 6
    /\ frames' = Append(frames, [kind |-> "intellichlor",
                                raw |-> SubSeq(buf, 1, Min(ICEnds(buf)) + 1)])
    /\ UNCHANGED <<buf, draining, empty>>

TakeIC ==
    /\ draining /\ ICAtFront(buf)
    /\ ICEnds(buf) # {} /\ Min(ICEnds(buf)) >= 6
    /\ Take("intellichlor", Min(ICEnds(buf)) + 1)

(* The 10 02 was noise: too short a frame, or none within the window.      *)
AbandonIC ==
    /\ draining /\ ICAtFront(buf)
    /\ IF ICEnds(buf) = {} THEN ICWindowFull(buf) ELSE Min(ICEnds(buf)) < 6
    /\ Drop(1)
    /\ UNCHANGED frames

WaitICAlways ==          \* mutant: an STX without an end is never given up
    /\ draining /\ ICAtFront(buf)
    /\ ICEnds(buf) = {}
    /\ Wait

WaitIC ==
    /\ draining /\ ICAtFront(buf)
    /\ ICEnds(buf) = {} /\ ~ICWindowFull(buf)
    /\ Wait

-----------------------------------------------------------------------------
Drain == NoSync \/ SkipNoise \/ TakeA5 \/ WaitA5 \/ TakeIC \/ AbandonIC \/ WaitIC

Chunks == UNION {[1..n -> Byte] : n \in 0..MaxFeed}

Next == (\E data \in Chunks : Feed(data)) \/ Reset \/ Drain

Spec == Init /\ [][Next]_vars

-----------------------------------------------------------------------------
\* What feed() leaves is less than the longest frame, however the bus behaves:
\* an unterminated 10 02 and a false A5 header hold back that much at most.
LongestA5   == 4 + Header + (LenMod - 1) + 2
BufferBound == ~draining => \/ Len(buf) <= 4
                            \/ Len(buf) < LongestA5
                            \/ Len(buf) < ICMax

\* The flush feed(b"") at the end of a read or of a session takes no frame: a
\* feed has already taken every frame that is complete.
FlushIsEmpty == empty => frames = <<>>

\* Every turn of the loop that is not the last shortens the buffer, so that no
\* bytes on the bus can make feed() turn for ever: it returns.
DrainShrinks == [][draining /\ draining' => Len(buf') < Len(buf)]_vars

\* The comment in _try_take_intellichlor: "STX + >=1 data byte + CS + ETX (minimum 6
\* bytes)" is a frame.
ShortestIC == /\ Len(buf) >= 6 /\ buf[1] = B10 /\ buf[2] = B02
              /\ ICEnds(buf) # {} /\ Min(ICEnds(buf)) = 5

ShortestFrameTaken == [][draining /\ ShortestIC => Len(frames') > Len(frames)]_vars

=============================================================================
