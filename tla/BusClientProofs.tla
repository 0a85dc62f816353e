--------------------------- MODULE BusClientProofs ---------------------------
(***************************************************************************)
(* The logs and counts of capture, watch, the lab send and decode are what *)
(* they should be for every stream of units, every size of frame, chunk    *)
(* and window, every bound, and a Ctrl-C or an error at any step.          *)
(***************************************************************************)
EXTENDS BusClient, TLAPS

-----------------------------------------------------------------------------
(* Whole frames in a number of units.                                      *)

LEMMA NoFrames == ASSUME NEW u \in Nat \ {0} PROVE 0 \div u = 0
OBVIOUS

LEMMA FramesNat == ASSUME NEW u \in Nat \ {0}, NEW n \in Nat PROVE n \div u \in Nat
OBVIOUS

LEMMA AllFrames ==
    ASSUME NEW u \in Nat \ {0}, NEW n \in Nat, NEW q \in Nat,
           q * u <= n, n < (q + 1) * u
    PROVE  n \div u = q
OBVIOUS

-----------------------------------------------------------------------------
(* Type correctness.                                                       *)

LEMMA InitTypeOK == Init => TypeOK
<1>1. Init => FlagsOK
  BY Zenon DEF Init, FlagsOK
<1>2. Init => TypeOK
  BY <1>1, ClientAssumption DEF Init, TypeOK, Looping, Outside, Nothing
<1> QED BY <1>2

LEMMA NextFlagsOK == FlagsOK /\ [Next]_vars => FlagsOK'
<1> SUFFICES ASSUME FlagsOK, [Next]_vars PROVE FlagsOK'
  OBVIOUS
<1> USE DEF FlagsOK
<1>1. CASE OpenLink
  BY <1>1, Zenon DEF OpenLink, Goto, setup, data, files, lab, ends
<1>2. CASE OpenFails
  BY <1>2, Zenon DEF OpenFails, Goto, setup, data, files, lab, ends
<1>3. CASE SetLive
  BY <1>3, Zenon DEF SetLive, Goto, setup, data, files, lab, ends
<1>4. ASSUME NEW k \in 1..MaxChunk, Read(k) PROVE FlagsOK'
  BY <1>4, Zenon DEF Read, InWindow, Tick, setup, data, files, lab, ends
<1>5. CASE ReadEmpty
  BY <1>5, Zenon DEF ReadEmpty, InWindow, Leave, setup, data, files, lab, ends
<1>6. CASE ReadFails
  BY <1>6, Zenon DEF ReadFails, InWindow, Leave, setup, data, files, lab, ends
<1>7. CASE Record
  BY <1>7, Zenon DEF Record, Goto, setup, data, files, lab, ends
<1>8. CASE RecordFails
  BY <1>8, Zenon DEF RecordFails, Leave, setup, data, files, lab, ends
<1>9. CASE Feed
  BY <1>9, Zenon DEF Feed, Goto, setup, data, files, lab, ends
<1>10. CASE Collect
  BY <1>10, Zenon DEF Collect, Goto, setup, data, files, lab, ends
<1>11. CASE Yield
  BY <1>11, Zenon DEF Yield, FrameWaits, setup, data, files, lab, ends
<1>12. CASE WriteLine
  BY <1>12, Zenon DEF WriteLine, Goto, setup, data, files, lab, ends
<1>13. CASE CountLine
  BY <1>13, Zenon DEF CountLine, Counted, Bounded, Leave, setup, data, files, lab, ends
<1>14. CASE Skip
  BY <1>14, Zenon DEF Skip, Goto, setup, data, files, lab, ends
<1>15. CASE Emit
  BY <1>15, Zenon DEF Emit, Counted, Bounded, Leave, setup, data, files, lab, ends
<1>16. CASE ConsumeFails
  BY <1>16, Zenon DEF ConsumeFails, Leave, setup, data, files, lab, ends
<1>17. CASE WindowOver
  BY <1>17, Zenon DEF WindowOver, Leave, setup, data, files, lab, ends
<1>18. CASE SendTx
  BY <1>18, Zenon DEF SendTx, Goto, setup, data, files, lab, ends
<1>19. CASE SendFails
  BY <1>19, Zenon DEF SendFails, Leave, setup, data, files, lab, ends
<1>20. CASE Decode
  BY <1>20, Zenon DEF Decode, setup, data, files, lab, ends
<1>21. CASE DecodeFails
  BY <1>21, Zenon DEF DecodeFails, setup, data, files, lab, ends
<1>22. CASE DecodeEnds
  BY <1>22, Zenon DEF DecodeEnds, setup, data, files, lab, ends
<1>23. CASE PrintLine
  BY <1>23, Zenon DEF PrintLine, setup, data, files, lab, ends
<1>24. CASE PrintEnds
  BY <1>24, Zenon DEF PrintEnds, Goto, setup, data, files, lab, ends
<1>25. CASE CloseLink
  BY <1>25, Zenon DEF CloseLink, Goto, setup, data, files, lab, ends
<1>26. CASE ClearLive
  BY <1>26, Zenon DEF ClearLive, setup, data, files, lab, ends
<1>27. CASE CloseFiles
  BY <1>27, Zenon DEF CloseFiles, setup, data, files, lab, ends
<1>28. CASE WriteMeta
  BY <1>28, Zenon DEF WriteMeta, Goto, setup, data, files, lab, ends
<1>29. CASE CtrlC
  BY <1>29, Zenon DEF CtrlC, AfterCtrlC, setup, data, files, lab, ends
<1>30. CASE UNCHANGED vars
  BY <1>30, Zenon DEF vars, setup, data, files, lab, ends
<1>31. CASE ReadMore
  BY <1>31, Zenon DEF ReadMore, InWindow, setup, data, files, lab, ends
<1> QED
  BY <1>1, <1>2, <1>3, <1>4, <1>5, <1>6, <1>7, <1>8, <1>9, <1>10, <1>11,
     <1>12, <1>13, <1>14, <1>15, <1>16, <1>17, <1>18, <1>19, <1>20, <1>21, <1>22,
     <1>23, <1>24, <1>25, <1>26, <1>27, <1>28, <1>29, <1>30, <1>31
  DEF Next, ClientStep, Fault, Terminated

LEMMA NextTypeOK == TypeOK /\ [Next]_vars => TypeOK'
<1> SUFFICES ASSUME TypeOK, [Next]_vars PROVE TypeOK'
  OBVIOUS
<1> USE ClientAssumption DEF TypeOK, Looping, Outside, Nothing
<1>0. FlagsOK'
  BY NextFlagsOK
<1>1. CASE OpenLink
  BY <1>1, <1>0 DEF OpenLink, Goto, setup, data, files, lab, ends
<1>2. CASE OpenFails
  BY <1>2, <1>0 DEF OpenFails, Goto, setup, data, files, lab, ends
<1>3. CASE SetLive
  BY <1>3, <1>0 DEF SetLive, Goto, setup, data, files, lab, ends
<1>4. ASSUME NEW k \in 1..MaxChunk, Read(k) PROVE TypeOK'
  BY <1>4, <1>0 DEF Read, InWindow, Tick, setup, data, files, lab, ends
<1>5. CASE ReadEmpty
  BY <1>5, <1>0 DEF ReadEmpty, InWindow, Leave, setup, data, files, lab, ends
<1>6. CASE ReadFails
  BY <1>6, <1>0 DEF ReadFails, InWindow, Leave, setup, data, files, lab, ends
<1>7. CASE Record
  BY <1>7, <1>0 DEF Record, Goto, setup, data, files, lab, ends
<1>8. CASE RecordFails
  BY <1>8, <1>0 DEF RecordFails, Leave, setup, data, files, lab, ends
<1>9. CASE Feed
  BY <1>9, <1>0 DEF Feed, Goto, setup, data, files, lab, ends
<1>10. CASE Collect
  BY <1>10, <1>0, FramesNat DEF Collect, Goto, setup, data, files, lab, ends
<1>11. CASE Yield
  BY <1>11, <1>0 DEF Yield, FrameWaits, setup, data, files, lab, ends
<1>12. CASE WriteLine
  BY <1>12, <1>0 DEF WriteLine, Goto, setup, data, files, lab, ends
<1>13. CASE CountLine
  BY <1>13, <1>0 DEF CountLine, Counted, Bounded, Leave, setup, data, files, lab, ends
<1>14. CASE Skip
  BY <1>14, <1>0 DEF Skip, Goto, setup, data, files, lab, ends
<1>15. CASE Emit
  BY <1>15, <1>0 DEF Emit, Counted, Bounded, Leave, setup, data, files, lab, ends
<1>16. CASE ConsumeFails
  BY <1>16, <1>0 DEF ConsumeFails, Leave, setup, data, files, lab, ends
<1>17. CASE WindowOver
  BY <1>17, <1>0 DEF WindowOver, Leave, setup, data, files, lab, ends
<1>18. CASE SendTx
  BY <1>18, <1>0 DEF SendTx, Goto, setup, data, files, lab, ends
<1>19. CASE SendFails
  BY <1>19, <1>0 DEF SendFails, Leave, setup, data, files, lab, ends
<1>20. CASE Decode
  BY <1>20, <1>0 DEF Decode, setup, data, files, lab, ends
<1>21. CASE DecodeFails
  BY <1>21, <1>0 DEF DecodeFails, setup, data, files, lab, ends
<1>22. CASE DecodeEnds
  BY <1>22, <1>0 DEF DecodeEnds, setup, data, files, lab, ends
<1>23. CASE PrintLine
  BY <1>23, <1>0 DEF PrintLine, setup, data, files, lab, ends
<1>24. CASE PrintEnds
  BY <1>24, <1>0 DEF PrintEnds, Goto, setup, data, files, lab, ends
<1>25. CASE CloseLink
  BY <1>25, <1>0 DEF CloseLink, Goto, setup, data, files, lab, ends
<1>26. CASE ClearLive
  BY <1>26, <1>0 DEF ClearLive, setup, data, files, lab, ends
<1>27. CASE CloseFiles
  BY <1>27, <1>0 DEF CloseFiles, setup, data, files, lab, ends
<1>28. CASE WriteMeta
  BY <1>28, <1>0 DEF WriteMeta, Goto, setup, data, files, lab, ends
<1>29. CASE CtrlC
  BY <1>29, <1>0 DEF CtrlC, AfterCtrlC, setup, data, files, lab, ends
<1>30. CASE UNCHANGED vars
  BY <1>30, <1>0 DEF vars, setup, data, files, lab, ends
<1>31. CASE ReadMore
  BY <1>31, <1>0 DEF ReadMore, InWindow, setup, data, files, lab, ends
<1> QED
  BY <1>1, <1>2, <1>3, <1>4, <1>5, <1>6, <1>7, <1>8, <1>9, <1>10, <1>11,
     <1>12, <1>13, <1>14, <1>15, <1>16, <1>17, <1>18, <1>19, <1>20, <1>21, <1>22,
     <1>23, <1>24, <1>25, <1>26, <1>27, <1>28, <1>29, <1>30, <1>31
  DEF Next, ClientStep, Fault, Terminated

\* The variables keep their types; in particular no listen window runs below zero.
THEOREM TypeCorrect == Spec => []TypeOK
<1> QED BY InitTypeOK, NextTypeOK, PTL DEF Spec

-----------------------------------------------------------------------------
(* The way through a command: where it is, what ended it, what was sent.   *)

(* The loop has not ended while a command is in it; only decode decodes.   *)
PathInv ==
    /\ pc \in Looping \union {"opening", "opened"} => outcome = "none" /\ struck = "no"
    /\ pc \in {"recording", "counting", "meta"} => client = "capture"
    /\ pc \in {"decoding", "printing"} => client = "decode" /\ outcome = "eof"
    /\ pc \in {"yielding", "consuming", "sending"} => client # "decode"
    /\ pc # "done" => meta = Nothing
    /\ meta # Nothing => client = "capture"

(* The link is released on the way out, where Ctrl-C can only skip it by   *)
(* striking before open() or close() is done.                              *)
LinkInv ==
    /\ pc = "opening" => ~link
    /\ /\ pc \in {"closed", "decoding", "printing", "files", "meta", "done"}
       /\ struck \notin {"opened", "closing"}
       => ~link

(* The second window is the one after the write.                           *)
TxInv ==
    /\ pc \in Looping \union {"opening", "opened"} => sent = IF window = 2 THEN 1 ELSE 0
    /\ pc = "sending" => window = 1
    /\ outcome = "ended" => sent = 1
    /\ TxOnce

FlowInv == PathInv /\ LinkInv /\ TxInv

LEMMA InitFlowInv == Init => FlowInv
BY DEF Init, FlowInv, PathInv, LinkInv, TxInv, TxOnce, Looping

LEMMA NextFlowInv == TypeOK /\ FlowInv /\ [Next]_vars => FlowInv'
<1> SUFFICES ASSUME TypeOK, FlowInv, [Next]_vars PROVE FlowInv'
  OBVIOUS
<1> USE DEF FlowInv, PathInv, LinkInv, TxInv, TxOnce, TypeOK, Looping, Outside
<1>1. CASE OpenLink
  BY <1>1 DEF OpenLink, Goto, setup, data, files, lab, ends
<1>2. CASE OpenFails
  BY <1>2 DEF OpenFails, Goto, setup, data, files, lab, ends
<1>3. CASE SetLive
  BY <1>3 DEF SetLive, Goto, setup, data, files, lab, ends
<1>4. ASSUME NEW k \in 1..MaxChunk, Read(k) PROVE FlowInv'
  BY <1>4 DEF Read, InWindow, Tick, setup, data, files, lab, ends
<1>5. CASE ReadEmpty
  BY <1>5 DEF ReadEmpty, InWindow, Leave, setup, data, files, lab, ends
<1>6. CASE ReadFails
  BY <1>6 DEF ReadFails, InWindow, Leave, setup, data, files, lab, ends
<1>7. CASE Record
  BY <1>7 DEF Record, Goto, setup, data, files, lab, ends
<1>8. CASE RecordFails
  BY <1>8 DEF RecordFails, Leave, setup, data, files, lab, ends
<1>9. CASE Feed
  BY <1>9 DEF Feed, Goto, setup, data, files, lab, ends
<1>10. CASE Collect
  BY <1>10 DEF Collect, Goto, setup, data, files, lab, ends
<1>11. CASE Yield
  BY <1>11 DEF Yield, FrameWaits, setup, data, files, lab, ends
<1>12. CASE WriteLine
  BY <1>12 DEF WriteLine, Goto, setup, data, files, lab, ends
<1>13. CASE CountLine
  BY <1>13 DEF CountLine, Counted, Bounded, Leave, setup, data, files, lab, ends
<1>14. CASE Skip
  BY <1>14 DEF Skip, Goto, setup, data, files, lab, ends
<1>15. CASE Emit
  BY <1>15 DEF Emit, Counted, Bounded, Leave, setup, data, files, lab, ends
<1>16. CASE ConsumeFails
  BY <1>16 DEF ConsumeFails, Leave, setup, data, files, lab, ends
<1>17. CASE WindowOver
  BY <1>17 DEF WindowOver, Leave, setup, data, files, lab, ends
<1>18. CASE SendTx
  BY <1>18 DEF SendTx, Goto, setup, data, files, lab, ends
<1>19. CASE SendFails
  BY <1>19 DEF SendFails, Leave, setup, data, files, lab, ends
<1>20. CASE Decode
  BY <1>20 DEF Decode, setup, data, files, lab, ends
<1>21. CASE DecodeFails
  BY <1>21 DEF DecodeFails, setup, data, files, lab, ends
<1>22. CASE DecodeEnds
  BY <1>22 DEF DecodeEnds, setup, data, files, lab, ends
<1>23. CASE PrintLine
  BY <1>23 DEF PrintLine, setup, data, files, lab, ends
<1>24. CASE PrintEnds
  BY <1>24 DEF PrintEnds, Goto, setup, data, files, lab, ends
<1>25. CASE CloseLink
  BY <1>25 DEF CloseLink, Goto, setup, data, files, lab, ends
<1>26. CASE ClearLive
  BY <1>26 DEF ClearLive, setup, data, files, lab, ends
<1>27. CASE CloseFiles
  BY <1>27 DEF CloseFiles, setup, data, files, lab, ends
<1>28. CASE WriteMeta
  BY <1>28 DEF WriteMeta, Goto, setup, data, files, lab, ends
<1>29. CASE CtrlC
  BY <1>29 DEF CtrlC, AfterCtrlC, setup, data, files, lab, ends
<1>30. CASE UNCHANGED vars
  BY <1>30 DEF vars, setup, data, files, lab, ends
<1>31. CASE ReadMore
  BY <1>31 DEF ReadMore, InWindow, setup, data, files, lab, ends
<1> QED
  BY <1>1, <1>2, <1>3, <1>4, <1>5, <1>6, <1>7, <1>8, <1>9, <1>10, <1>11,
     <1>12, <1>13, <1>14, <1>15, <1>16, <1>17, <1>18, <1>19, <1>20, <1>21, <1>22,
     <1>23, <1>24, <1>25, <1>26, <1>27, <1>28, <1>29, <1>30, <1>31
  DEF Next, ClientStep, Fault, Terminated

LEMMA FlowInvariant == Spec => []FlowInv
<1> QED BY InitFlowInv, NextFlowInv, TypeCorrect, PTL DEF Spec

\* A command ends with the link closed, unless Ctrl-C struck inside open() or close().
THEOREM Released == Spec => []LinkReleased
<1>1. FlowInv => LinkReleased
  BY DEF FlowInv, LinkInv, LinkReleased
<1> QED BY <1>1, FlowInvariant, PTL

\* No lab send hands its bytes to write() twice, and one that ends by itself has
\* handed them over.
THEOREM SentOnce == Spec => []TxOnce
<1>1. FlowInv => TxOnce
  BY DEF FlowInv, TxInv
<1> QED BY <1>1, FlowInvariant, PTL

-----------------------------------------------------------------------------
(* The units and the frames.                                               *)

(* A chunk is in raw.ndjson before the framer has it.                      *)
RawInv ==
    /\ fed <= units /\ raw <= units
    /\ pc \in {"opening", "opened"} => units = 0
    /\ pc \in {"yielding", "consuming", "counting", "reading", "sending"} => fed = units
    /\ client = "capture" =>
          /\ fed <= raw
          /\ /\ pc # "recording" /\ struck # "recording" /\ outcome # "unrecorded"
             => raw = units

(* Between two reads every whole frame has been consumed.                  *)
FrameInv ==
    client # "decode" =>
        /\ yielded * UnitsPerFrame <= fed
        /\ pc \in {"opening", "opened", "reading", "sending"} \/ outcome = "eof" =>
              fed < (yielded + 1) * UnitsPerFrame
        /\ outcome = "eof" => fed = units

(* A line follows its frame, a count its line.                             *)
LineInv ==
    client = "capture" =>
        /\ lines * UnitsPerFrame <= raw
        /\ pc \in Looping \union {"opening", "opened"} \/ outcome = "eof" =>
              yielded = lines + IF pc = "consuming" THEN 1 ELSE 0
        /\ lines = count + IF pc = "counting" \/ struck = "counting" THEN 1 ELSE 0
        /\ meta # Nothing => meta = count
        /\ pc = "done" /\ struck = "no" => meta # Nothing

(* decode knows every frame of the file before it decodes the first.       *)
DecodeInv ==
    client = "decode" =>
        /\ pc \in {"opening", "opened", "reading"} \/ outcome = "eof" =>
              yielded = units \div UnitsPerFrame
        /\ pc \in Looping \union {"opening", "opened", "closing", "closed"} =>
              count = 0 /\ lines = 0
        /\ pc = "decoding" => count <= yielded
        /\ pc = "printing" => count = yielded
        /\ lines > 0 => outcome = "eof" /\ count = yielded
        /\ pc = "decoding" => lines = 0

StopInv ==
    max # NoMax /\ client \in Bounded =>
        LET bound == IF max = 0 THEN 1 ELSE max
        IN  /\ count <= bound /\ (outcome = "max" => count = bound)
            /\ pc \in Looping \union {"opening", "opened"} => count < bound

DataInv == RawInv /\ FrameInv /\ LineInv /\ DecodeInv /\ StopInv

LEMMA InitDataInv == Init => DataInv
BY ClientAssumption, NoFrames
DEF Init, DataInv, RawInv, FrameInv, LineInv, DecodeInv, StopInv, Bounded, Looping, Nothing

LEMMA NextDataInv == TypeOK /\ FlowInv /\ DataInv /\ [Next]_vars => DataInv'
<1> SUFFICES ASSUME TypeOK, FlowInv, DataInv, [Next]_vars PROVE DataInv'
  OBVIOUS
<1> USE ClientAssumption
    DEF DataInv, RawInv, FrameInv, LineInv, DecodeInv, StopInv, Bounded, FlowInv, PathInv,
        TypeOK, Looping, Outside, Nothing
<1>1. CASE OpenLink
  BY <1>1 DEF OpenLink, Goto, setup, data, files, lab, ends
<1>2. CASE OpenFails
  BY <1>2 DEF OpenFails, Goto, setup, data, files, lab, ends
<1>3. CASE SetLive
  BY <1>3 DEF SetLive, Goto, setup, data, files, lab, ends
<1>4. ASSUME NEW k \in 1..MaxChunk, Read(k) PROVE DataInv'
  BY <1>4 DEF Read, InWindow, Tick, setup, data, files, lab, ends
<1>5. CASE ReadEmpty
  BY <1>5 DEF ReadEmpty, InWindow, Leave, setup, data, files, lab, ends
<1>6. CASE ReadFails
  BY <1>6 DEF ReadFails, InWindow, Leave, setup, data, files, lab, ends
<1>7. CASE Record
  BY <1>7 DEF Record, Goto, setup, data, files, lab, ends
<1>8. CASE RecordFails
  BY <1>8 DEF RecordFails, Leave, setup, data, files, lab, ends
<1>9. CASE Feed
  BY <1>9 DEF Feed, Goto, setup, data, files, lab, ends
<1>10. CASE Collect
  BY <1>10 DEF Collect, Goto, setup, data, files, lab, ends
<1>11. CASE Yield
  BY <1>11 DEF Yield, FrameWaits, setup, data, files, lab, ends
<1>12. CASE WriteLine
  BY <1>12 DEF WriteLine, Goto, setup, data, files, lab, ends
<1>13. CASE CountLine
  <2>1. RawInv' /\ FrameInv' /\ LineInv' /\ DecodeInv'
    BY <1>13 DEF CountLine, Counted, Leave, setup, data, files, lab, ends
  <2>2. StopInv'
    BY <1>13 DEF CountLine, Counted, Leave, setup, data, files, lab, ends
  <2> QED BY <2>1, <2>2
<1>14. CASE Skip
  BY <1>14 DEF Skip, Goto, setup, data, files, lab, ends
<1>15. CASE Emit
  <2>1. RawInv' /\ FrameInv' /\ LineInv' /\ DecodeInv'
    BY <1>15 DEF Emit, Counted, Leave, setup, data, files, lab, ends
  <2>2. StopInv'
    BY <1>15 DEF Emit, Counted, Leave, setup, data, files, lab, ends
  <2> QED BY <2>1, <2>2
<1>16. CASE ConsumeFails
  BY <1>16 DEF ConsumeFails, Leave, setup, data, files, lab, ends
<1>17. CASE WindowOver
  BY <1>17 DEF WindowOver, Leave, setup, data, files, lab, ends
<1>18. CASE SendTx
  BY <1>18 DEF SendTx, Goto, setup, data, files, lab, ends
<1>19. CASE SendFails
  BY <1>19 DEF SendFails, Leave, setup, data, files, lab, ends
<1>20. CASE Decode
  BY <1>20 DEF Decode, setup, data, files, lab, ends
<1>21. CASE DecodeFails
  BY <1>21 DEF DecodeFails, setup, data, files, lab, ends
<1>22. CASE DecodeEnds
  BY <1>22 DEF DecodeEnds, setup, data, files, lab, ends
<1>23. CASE PrintLine
  BY <1>23 DEF PrintLine, setup, data, files, lab, ends
<1>24. CASE PrintEnds
  BY <1>24 DEF PrintEnds, Goto, setup, data, files, lab, ends
<1>25. CASE CloseLink
  BY <1>25 DEF CloseLink, Goto, setup, data, files, lab, ends
<1>26. CASE ClearLive
  BY <1>26 DEF ClearLive, setup, data, files, lab, ends
<1>27. CASE CloseFiles
  BY <1>27 DEF CloseFiles, setup, data, files, lab, ends
<1>28. CASE WriteMeta
  BY <1>28 DEF WriteMeta, Goto, setup, data, files, lab, ends
<1>29. CASE CtrlC
  BY <1>29 DEF CtrlC, AfterCtrlC, setup, data, files, lab, ends
<1>30. CASE UNCHANGED vars
  BY <1>30 DEF vars, setup, data, files, lab, ends
<1>31. CASE ReadMore
  BY <1>31 DEF ReadMore, InWindow, setup, data, files, lab, ends
<1> QED
  BY <1>1, <1>2, <1>3, <1>4, <1>5, <1>6, <1>7, <1>8, <1>9, <1>10, <1>11,
     <1>12, <1>13, <1>14, <1>15, <1>16, <1>17, <1>18, <1>19, <1>20, <1>21, <1>22,
     <1>23, <1>24, <1>25, <1>26, <1>27, <1>28, <1>29, <1>30, <1>31
  DEF Next, ClientStep, Fault, Terminated

LEMMA DataInvariant == Spec => []DataInv
<1> QED BY InitDataInv, NextDataInv, TypeCorrect, FlowInvariant, PTL DEF Spec

\* Every line of frames.ndjson has its bytes in raw.ndjson at any moment.
THEOREM LogFollowsRaw == Spec => []LogInRaw
<1>1. DataInv => LogInRaw
  BY DEF DataInv, LineInv, LogInRaw
<1> QED BY <1>1, DataInvariant, PTL

\* However a capture ends, raw.ndjson has every byte that was read.
THEOREM RawComplete == Spec => []RawIsComplete
<1>1. DataInv => RawIsComplete
  BY DEF DataInv, RawInv, RawIsComplete
<1> QED BY <1>1, DataInvariant, PTL

\* meta.json counts the lines of frames.ndjson.
THEOREM MetaTrue == Spec => []MetaCounts
<1>1. TypeOK /\ FlowInv /\ DataInv => MetaCounts
  BY DEF TypeOK, FlowInv, PathInv, DataInv, LineInv, MetaCounts
<1> QED BY <1>1, TypeCorrect, FlowInvariant, DataInvariant, PTL

\* --max-frames and --max-messages stop the loop at the bound, or at one for zero.
THEOREM Stops == Spec => []StopsAtMax
<1>1. DataInv => StopsAtMax
  BY DEF DataInv, StopInv, StopsAtMax
<1> QED BY <1>1, DataInvariant, PTL

\* A source that was read to its end is logged and counted whole, or decoded whole
\* before the first line is printed.
THEOREM EofComplete == Spec => []EofIsComplete
<1>1. TypeOK /\ DataInv => EofIsComplete
  <2> SUFFICES ASSUME TypeOK, DataInv PROVE EofIsComplete
    OBVIOUS
  <2> USE DEF TypeOK, DataInv, RawInv, FrameInv, LineInv, DecodeInv, Looping
  <2>1. ASSUME client = "capture", pc = "done", outcome = "eof", struck = "no"
        PROVE  lines = raw \div UnitsPerFrame /\ meta = lines
    BY <2>1, ClientAssumption, AllFrames
  <2>2. ASSUME client = "decode", lines > 0
        PROVE  outcome = "eof" /\ count = units \div UnitsPerFrame
    BY <2>2
  <2> QED BY <2>1, <2>2 DEF EofIsComplete
<1> QED BY <1>1, TypeCorrect, DataInvariant, PTL

=============================================================================
