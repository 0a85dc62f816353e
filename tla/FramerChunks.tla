---------------------------- MODULE FramerChunks ----------------------------
(***************************************************************************)
(* Two framers on one stream.  The framer of Framer is fed the bytes in    *)
(* chunks, as reads of the transport happen to return them, and is flushed *)
(* or reset in between; the other is fed every byte as it comes.  A read   *)
(* boundary may fall anywhere: within a sync, within a header, before a    *)
(* checksum.                                                               *)
(***************************************************************************)
EXTENDS Framer

VARIABLES
    buf1, frames1, draining1, empty1,     \* the framer fed byte by byte
    pending,    \* the bytes the framer fed in chunks has had and it has not
    earlier     \* what it took from the same chunk before its current feed

bytewise   == <<buf1, frames1, draining1, empty1>>
chunksVars == <<vars, bytewise, pending, earlier>>

One == INSTANCE Framer WITH buf <- buf1, frames <- frames1, draining <- draining1,
                            empty <- empty1

ChunksInit == Init /\ One!Init /\ pending = <<>> /\ earlier = <<>>

Idle == ~draining /\ ~draining1

(* A read, or the flush feed(b"") at the end; both callers have used what  *)
(* their framer took before.                                               *)
Deliver(data) ==
    /\ Idle /\ pending = <<>> /\ ~(empty /\ data = <<>>)
    /\ Feed(data)
    /\ pending' = data /\ earlier' = <<>> /\ frames1' = <<>>
    /\ UNCHANGED <<buf1, draining1, empty1>>

FeedByte ==
    /\ Idle /\ pending # <<>>
    /\ One!Feed(<<Head(pending)>>)
    /\ pending' = Tail(pending) /\ earlier' = earlier \o frames1
    /\ UNCHANGED vars

(* Both are reset between two reads.                                       *)
ResetBoth ==
    /\ Idle /\ pending = <<>>
    /\ Reset /\ One!Reset
    /\ UNCHANGED <<pending, earlier>>

DrainChunk == Drain /\ UNCHANGED <<bytewise, pending, earlier>>
DrainByte  == One!Drain /\ UNCHANGED <<vars, pending, earlier>>

ChunksNext == \/ \E data \in Chunks : Deliver(data)
              \/ FeedByte \/ ResetBoth \/ DrainChunk \/ DrainByte

ChunksSpec == ChunksInit /\ [][ChunksNext]_chunksVars

\* The frames do not depend on how the stream is cut into reads: once both have
\* had the same bytes they have taken the same frames, byte for byte, and hold
\* back the same rest, which a flush leaves alone.
SameFrames ==
    Idle /\ pending = <<>> =>
        /\ buf = buf1
        /\ ~empty => frames = earlier \o frames1

=============================================================================
