------------------------------ MODULE Messages ------------------------------
(***************************************************************************)
(* What a frame says: its checksum, the message it is decoded to, and the  *)
(* write requests the lab crafts.  Bytes are 0..255 and a frame is a       *)
(* sequence of them.  Offsets are those of the code, relative to the A5;   *)
(* positions in a sequence count from 1.                                   *)
(*                                                                         *)
(* A message is [type, header, fields]: the five header values (protocol,  *)
(* destination, source, command, length) and the values of its own fields  *)
(* in the order of their offsets.  The circuit flags, which are bits of    *)
(* one field, and the JSON form are left out.                              *)
(***************************************************************************)
EXTENDS Lists, FiniteSetsExt

Octet == 0..255

From(s, i)     == SubSeq(s, i, Len(s))
AllBut(s, n)   == SubSeq(s, 1, Len(s) - n)
BigEndian(two) == two[1] * 256 + two[2]

-----------------------------------------------------------------------------
(* Checksums.                                                              *)

ChecksumOfPayload(body) ==     \* mutant: the header is not summed
    Total(From(body, 7)) % 65536

Checksum(body) == Total(body) % 65536

TrailerSwapped(body) ==        \* mutant: low byte first
    <<Checksum(body) % 256, Checksum(body) \div 256>>

Trailer(body) == <<Checksum(body) \div 256, Checksum(body) % 256>>
VerifyA5(fromA5) == /\ Len(fromA5) >= 8
                    /\ Checksum(AllBut(fromA5, 2)) = BigEndian(From(fromA5, Len(fromA5) - 1))

VerifyIC(raw) ==
    /\ Len(raw) >= 5 /\ SubSeq(raw, 1, 2) = <<16, 2>> /\ From(raw, Len(raw) - 1) = <<16, 3>>
    /\ raw[Len(raw) - 2] = (Total(SubSeq(raw, 3, Len(raw) - 3)) + 18) % 256

(* The position of the A5 of a frame (find_a5_index), 0 if it has none.    *)
A5At(raw) ==
    LET marks == {m \in 3..Len(raw) : raw[m] = 165 /\ raw[m - 1] = 255 /\ raw[m - 2] = 0}
    IN  IF marks = {} THEN 0 ELSE Min(marks)

(* checksum_ok of the Frame that the framer builds.                        *)
ChecksumOk(frame) == IF frame.kind = "a5" THEN VerifyA5(From(frame.raw, A5At(frame.raw)))
                     ELSE VerifyIC(frame.raw)

-----------------------------------------------------------------------------
(* Decoding.                                                               *)

NoHeader    == <<0, 0, 0, 0, 0>>
Raised      == [type |-> "ValueError", header |-> NoHeader, fields |-> <<>>]
Quarantined == [type |-> "Quarantined", header |-> NoHeader, fields |-> <<>>]
RawOnly(c)  == [type |-> "Unknown", header |-> <<0, 0, 0, c, 0>>, fields |-> <<>>]

(* The registered parsers: the offsets of the fields, the least LEN.       *)
Commands == {2, 8, 134, 136}
ShapeUnchecked(c) ==           \* mutant: the length of a write is not looked at
    CASE c = 2   -> [type |-> "SystemStatus", at |-> <<6, 7, 8, 20, 21, 24>>, least |-> 0]
      [] c = 8   -> [type |-> "TempStatus", at |-> <<7, 8, 9, 10, 11>>, least |-> 0]
      [] c = 134 -> [type |-> "CircuitChange", at |-> <<6, 7>>, least |-> 0]
      [] c = 136 -> [type |-> "HeatChange", at |-> <<6, 7, 8>>, least |-> 0]

Shape(c) ==
    CASE c = 2   -> [type |-> "SystemStatus", at |-> <<6, 7, 8, 20, 21, 24>>, least |-> 0]
      [] c = 8   -> [type |-> "TempStatus", at |-> <<7, 8, 9, 10, 11>>, least |-> 0]
      [] c = 134 -> [type |-> "CircuitChange", at |-> <<6, 7>>, least |-> 2]
      [] c = 136 -> [type |-> "HeatChange", at |-> <<6, 7, 8>>, least |-> 4]

HeaderAt == <<1, 2, 3, 4, 5>>

(* The values at these offsets, each of which must be inside the raw bytes *)
(* (_byte_from_a5 raises otherwise).                                       *)
Within(raw, at) == \A i \in DOMAIN at : A5At(raw) + at[i] <= Len(raw)
Values(raw, at) == [i \in DOMAIN at |-> raw[A5At(raw) + at[i]]]

ParseAs(shape, raw) ==
    IF A5At(raw) # 0 /\ Within(raw, HeaderAt \o shape.at)
       /\ Values(raw, HeaderAt)[5] >= shape.least
    THEN [type |-> shape.type, header |-> Values(raw, HeaderAt),
          fields |-> Values(raw, shape.at)]
    ELSE Raised

ParseUnknown(raw, command) ==
    IF A5At(raw) # 0 /\ Within(raw, HeaderAt)
    THEN [type |-> "Unknown", header |-> Values(raw, HeaderAt), fields |-> <<>>]
    ELSE RawOnly(command)

DecodeA5(raw) ==
    IF A5At(raw) = 0 THEN Raised
    ELSE IF ~Within(raw, <<4>>) THEN ParseUnknown(raw, 0)
    ELSE LET c == Values(raw, <<4>>)[1]
         IN  IF c \in Commands THEN ParseAs(Shape(c), raw) ELSE ParseUnknown(raw, c)

Decode(frame) ==
    IF ~ChecksumOk(frame) THEN Quarantined
    ELSE IF frame.kind = "intellichlor" THEN ParseUnknown(frame.raw, 0)
    ELSE DecodeA5(frame.raw)

-----------------------------------------------------------------------------
(* Crafting.  to_hex() writes LEN, the command and the on/off byte anew.   *)

Low(n) == n % 256

BuildA5(header, payload) ==
    LET body == <<165>> \o [i \in 1..4 |-> Low(header[i])] \o <<Len(payload)>> \o payload
    IN  <<255, 0, 255>> \o body \o Trailer(body)

CircuitPayload(circuit, status) == <<Low(circuit), IF status # 0 THEN 1 ELSE 0>>
HeatPayload(pool, spa, mode)    == <<Low(pool), Low(spa), Low(mode), 0>>

ToHexKeepsStatus(m) ==         \* mutant: the status byte is copied with its length
    BuildA5(m.header, m.fields \o [i \in 1..(m.header[5] - Len(m.fields)) |-> 0])

ToHex(m) ==
    IF m.type = "CircuitChange"
    THEN BuildA5([m.header EXCEPT ![4] = 134], CircuitPayload(m.fields[1], m.fields[2]))
    ELSE BuildA5([m.header EXCEPT ![4] = 136],
                 HeatPayload(m.fields[1], m.fields[2], m.fields[3]))

-----------------------------------------------------------------------------
(* diff_tx(): a crafted frame against one that was captured.  One without  *)
(* an A5, of which find_a5_index raises, is not the same.                  *)

HeaderFields(fromA5) ==
    LET end == 6 + fromA5[6]
    IN  [header |-> SubSeq(fromA5, 2, 6), payload |-> SubSeq(fromA5, 7, end),
         checksum |-> SubSeq(fromA5, end + 1, end + 2), ok |-> VerifyA5(fromA5)]

SameTxByFields(crafted, reference) ==   \* mutant: the trailing bytes are not compared
    LET c == From(crafted, A5At(crafted))
        r == From(reference, A5At(reference))
    IN  A5At(reference) # 0 /\ [HeaderFields(c) EXCEPT !.checksum = <<>>, !.ok = TRUE]
            = [HeaderFields(r) EXCEPT !.checksum = <<>>, !.ok = TRUE]

SameTx(crafted, reference) ==
    LET c == From(crafted, A5At(crafted))
        r == From(reference, A5At(reference))
    IN  A5At(reference) # 0 /\ HeaderFields(c) = HeaderFields(r) /\ c = r

=============================================================================
