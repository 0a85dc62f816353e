----------------------------- MODULE MCLabWrite -----------------------------
(* A small instance of LabWrite.  Circuits, set points and fills include   *)
(* the bytes that mean something to the framer and values above a byte.    *)
(* The headers other than the lab's are those with which a change gets     *)
(* furthest: a request whose bytes add up without their payload, and ones  *)
(* in which a delimiter, a sync or the command of a write comes early.     *)
EXTENDS LabWrite

FromLab == <<7, 16, 32>>
Circuits == {[type |-> "CircuitChange", header |-> FromLab, fields |-> <<c, s>>] :
                c \in {0, 6, 16, 165, 255, 261}, s \in {0, 1}}
Heats    == {[type |-> "HeatChange", header |-> FromLab, fields |-> <<p, s, m>>] :
                p \in {16, 104, 360}, s \in {3, 255}, m \in {0, 5}}

Others   == {[type |-> "CircuitChange", header |-> <<182, 16, 16>>, fields |-> <<2, 1>>],
             [type |-> "CircuitChange", header |-> <<255, 165, 32>>, fields |-> <<2, 0>>]}
            \union {[type |-> "HeatChange", header |-> h, fields |-> <<134, 2, 5>>] :
                h \in {<<255, 165, 32>>, <<0, 255, 165>>, <<7, 134, 4>>}}
            \union {[type |-> "HeatChange", header |-> <<16, 2, 16>>, fields |-> <<174, 16, 3>>],
                    [type |-> "HeatChange", header |-> <<134, 4, 32>>, fields |-> <<134, 4, 5>>]}

SomeRequests == Circuits \union Heats \union Others
SomeReceived == [command : {1, 2, 8, 99, 134, 136}, length : (0..6) \union (15..20),
                 fill : {0, 16, 165, 255}, ok : BOOLEAN]
                \union [command : {2, 99}, length : {255}, fill : {255}, ok : BOOLEAN]
IdleLeads    == {<<>>, <<255>>, <<255, 255, 255>>, <<0>>, <<0, 255>>}
SomeChanges  == {0, 1, 2, 3, 4, 6, 16, 165, 255}

(* What completes the request when its LEN is changed to len, with a good  *)
(* checksum.                                                               *)
Completes(r, len) ==
    LET bytes == From(ToHex(Built(r)), 4)
        body  == [bytes EXCEPT ![6] = len] \o [i \in 1..(6 + len - Len(bytes)) |-> 0]
    IN  From(body, Len(bytes) + 1) \o Trailer(body)

LightOn == [type |-> "CircuitChange", header |-> FromLab, fields |-> <<6, 1>>]
SpaHeat == [type |-> "HeatChange", header |-> FromLab, fields |-> <<104, 3, 5>>]

SomeTails == {<<>>, <<0, 255, 0>>,
              ToHex(Built([LightOn EXCEPT !.fields = <<165, 0>>])),
              <<0, 255>> \o BuildA5(<<0, 15, 16, 1>>, <<16, 2, 0, 0, 16, 3>>),
              Completes(LightOn, 4), Completes(LightOn, 16), Completes(SpaHeat, 6)}

=============================================================================
