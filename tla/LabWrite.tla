------------------------------ MODULE LabWrite ------------------------------
(***************************************************************************)
(* A write request on its way: it is crafted, put on the bus behind some   *)
(* idle bytes and in front of whatever comes next there, perhaps with one  *)
(* byte changed, framed as it is read, and decoded; and status frames of   *)
(* every length on the same way.  The framing is that of Framer, with real *)
(* bytes; checksums and messages are those of Messages.                    *)
(*                                                                         *)
(* Headers are octets, as those on the bus; the lab takes any integer and  *)
(* puts its low byte there.                                                *)
(***************************************************************************)
EXTENDS Messages

CONSTANTS
    Requests,   \* the crafted requests: [type, header, fields], LEN not set
    Received,   \* other frames: [command, length, fill, ok]
    Leads,      \* the bytes in front: idle bytes of the bus
    Tails,      \* the bytes behind: anything, other frames too
    Changes     \* the values that a changed byte can take

Writes == {"CircuitChange", "HeatChange"}

ASSUME LabAssumption ==
    /\ \A r \in Requests :
          /\ r.type \in Writes
          /\ r.header \in Seq(Octet) /\ Len(r.header) = 3
          /\ r.fields \in Seq(Int) /\ Len(r.fields) = IF r.type = "CircuitChange" THEN 2 ELSE 3
    /\ Received \subseteq [command : Octet, length : Octet, fill : Octet, ok : BOOLEAN]
    /\ Leads \subseteq Seq({0, 255}) /\ Tails \subseteq Seq(Octet) /\ Changes \subseteq Octet

VARIABLES
    wire,       \* the bytes of the frame on the bus
    tail,       \* and what the bus carries behind them
    asked,      \* the message they were crafted from
    origin,     \* crafted, changed or received
    item,       \* what was decoded, NoItem before and if there was no frame
    buf, frames, draining, empty      \* the framer

framer == <<buf, frames, draining, empty>>
vars   == <<wire, tail, asked, origin, item, framer>>

Bus == INSTANCE Framer WITH
           Byte <- Octet, B00 <- 0, BFF <- 255, BA5 <- 165, B10 <- 16, B02 <- 2, B03 <- 3,
           Header <- 5, LenMod <- 256, ICMax <- 64, MaxFeed <- 0

NoItem == [type |-> "None", header |-> NoHeader, fields |-> <<>>]

Init ==
    /\ wire = <<>> /\ tail = <<>> /\ asked = NoItem /\ origin = "none" /\ item = NoItem
    /\ Bus!Init

-----------------------------------------------------------------------------
(* CircuitChange.build, HeatChange.build: the message and its bytes.       *)
Built(r) ==
    LET payload == IF r.type = "CircuitChange" THEN CircuitPayload(r.fields[1], r.fields[2])
                   ELSE HeatPayload(r.fields[1], r.fields[2], r.fields[3])
        command == IF r.type = "CircuitChange" THEN 134 ELSE 136
    IN  [type |-> r.type, header |-> SubSeq(r.header, 1, 3) \o <<command, Len(payload)>>,
         fields |-> SubSeq(payload, 1, Len(r.fields))]

(* The bytes of a request go from the client to the bus and to a reader,   *)
(* who finds them between others.                                          *)
Put(bytes, lead, rest, how, message) ==
    /\ origin' = how
    /\ wire' = bytes /\ tail' = rest /\ asked' = message
    /\ Bus!Feed(lead \o bytes \o rest)
    /\ UNCHANGED item

Send(r, lead, rest) == Put(ToHex(Built(r)), lead, rest, "crafted", Built(r))

SendChanged(r, lead, rest, i, v) ==
    /\ i <= Len(ToHex(Built(r))) /\ ToHex(Built(r))[i] # v
    /\ Put([ToHex(Built(r)) EXCEPT ![i] = v], lead, rest, "changed", Built(r))

(* A frame of another device, right or wrong in its checksum.              *)
Device(f, lead, rest) ==
    LET bytes == BuildA5(<<0, 15, 16, f.command>>, [i \in 1..f.length |-> f.fill])
    IN  Put(IF f.ok THEN bytes ELSE [bytes EXCEPT ![Len(bytes)] = Low(@ + 1)],
            lead, rest, "received", NoItem)

Read == Bus!Drain /\ UNCHANGED <<wire, tail, asked, origin, item>>

DecodeFrame ==
    /\ origin # "none" /\ ~draining /\ item = NoItem /\ frames # <<>>
    /\ item' = Decode(frames[1])
    /\ UNCHANGED <<wire, tail, asked, origin, framer>>

Rest == ~draining /\ origin # "none" /\ (item # NoItem \/ frames = <<>>) /\ UNCHANGED vars

Next ==
    \/ /\ origin = "none"
       /\ \E lead \in Leads, rest \in Tails :
             \/ \E r \in Requests : Send(r, lead, rest)
             \/ \E r \in Requests, i \in 1..15, v \in Changes : SendChanged(r, lead, rest, i, v)
             \/ \E f \in Received : Device(f, lead, rest)
    \/ Read \/ DecodeFrame \/ Rest

Spec == Init /\ [][Next]_vars

-----------------------------------------------------------------------------
Decoded == item # NoItem
Framed  == origin # "none" /\ ~draining

\* What to_hex() makes of a decoded write request is a good frame that says the
\* same, with LEN and the on/off byte brought to the form the lab sends.
WriteAgain ==
    Decoded /\ item.type \in Writes =>
        LET again == DecodeA5(ToHex(item))
        IN  /\ ChecksumOk([kind |-> "a5", raw |-> ToHex(item)])
            /\ again.type = item.type /\ SubSeq(again.header, 1, 4) = SubSeq(item.header, 1, 4)
            /\ ToHex(again) = ToHex(item)
            /\ \A i \in DOMAIN item.fields :
                  again.fields[i] = IF item.type = "CircuitChange" /\ i = 2 /\ item.fields[2] # 0
                                    THEN 1 ELSE item.fields[i]

\* A crafted request is the first frame that comes out of the framer, with nothing
\* left over of it, and is decoded to the message it was crafted from, whatever is
\* on the bus around it; and any write request that is decoded says the same when
\* it is crafted again.
CraftedIsDecoded ==
    /\ origin = "crafted" /\ Framed =>
          /\ frames # <<>> /\ frames[1] = [kind |-> "a5", raw |-> wire]
          /\ tail = <<>> => Len(frames) = 1 /\ buf = <<>>
    /\ origin = "crafted" /\ Decoded => item = asked
    /\ WriteAgain

\* The request and what follows it, as the framer sees them; a decoded frame that
\* begins with an A5 of what follows; no sync in the request but its own.
Stream     == wire \o tail
FromSync   == From(frames[1].raw, A5At(frames[1].raw))
OfTail     == \E k \in 0..Len(tail) : \E n \in 0..Len(tail) - k : FromSync = SubSeq(tail, k + 1, k + n)
Changed(i) == wire[i] # ToHex(asked)[i]
OneSync    == Bus!A5Marks(wire) \subseteq {4}

\* One changed byte never turns a request into another one.  Behind the A5 it is
\* quarantined or, if it made LEN too small for the request, raises in the parser;
\* a LEN that is too large takes the next bytes of the bus for the payload, and if
\* even the checksum is right there the request is decoded with its own fields and
\* that LEN.  In front of the A5 the request itself is decoded or another frame of
\* the bus, but no part of the request as a write, as long as its protocol and
\* destination, which a false sync could make the command of another frame, are not
\* commands of a write (the lab sends 7 and 16), and its bytes hold no other sync.
PlainHeader == {asked.header[1], asked.header[2]} \intersect {134, 136} = {}

ChangeIsNoticed ==
    origin = "changed" /\ Decoded =>
        /\ \A i \in 5..Len(wire) : Changed(i) =>
              \/ item = Quarantined
              \/ i = 9 /\ wire[9] < asked.header[5] /\ item = Raised
              \/ i = 9 /\ wire[9] > asked.header[5] /\ item = [asked EXCEPT !.header[5] = wire[9]]
        /\ PlainHeader /\ OneSync /\ item.type \in Writes =>
              \/ item = asked
              \/ Changed(9) /\ item = [asked EXCEPT !.header[5] = wire[9]]
              \/ OfTail

\* The fields of a decoded write request are bytes of its payload, never of its
\* checksum, whatever LEN it came with.
WriteFieldsInPayload ==
    Decoded /\ item.type \in Writes =>
        \A c \in Commands : Shape(c).type = item.type =>
            \A i \in DOMAIN Shape(c).at : Shape(c).at[i] < 6 + item.header[5]

\* diff_tx() and the decoder agree: a frame on the bus that matches the crafted one
\* is decoded to the message that was crafted, and a frame that is decoded to it is
\* the same or one of other bytes of the bus, whatever is around it.
DiffAgrees ==
    Decoded /\ asked # NoItem =>
        /\ SameTx(ToHex(asked), frames[1].raw) => item = asked
        /\ OneSync /\ item = asked => SameTx(ToHex(asked), frames[1].raw) \/ OfTail

=============================================================================
