---------------------- MODULE CapabilitySessionProofs ----------------------
(* Theorems about CapabilitySession, for every catalog, bus and fault set. *)
EXTENDS CapabilitySession, TLAPS

(* The points at which a capability is current (_current is not None).     *)
CurrentPhases == {"PROMPT_ARM", "ARMED", "RECORDING", "FINALIZE"}

(* TypeOK is not inductive: arm and disarm use the cursor as a position,   *)
(* and counting a line reads the last line of the log.                     *)
TypeInv ==
    /\ TypeOK
    /\ pc \in CurrentPhases => cursor >= 1
    /\ lock # "free" => log # <<>>

LEMMA WalkType == Walk \in Seq(STRING) /\ Len(Walk) \in Nat
                  /\ \A p \in Positions : Walk[p] \in CapIds /\ Walk[p] # NoCap
  BY WalkAssumption DEF Positions, CapIds

LEMMA InitTypeInv == Init => TypeInv
<1> SUFFICES ASSUME Init PROVE TypeInv
  OBVIOUS
<1>1. slices \in [Positions -> Seq(Line)] /\ raw \in Seq(Nat) /\ log \in Seq(Line)
      /\ index \in Seq(Row)
  BY DEF Init, OpenWriter
<1>2. WriterTypeOK
  BY <1>1 DEF Init, OpenWriter, WriterTypeOK, Threads, NoSlice, Nothing
<1>3. chunk \in Seq(Nat) /\ fbuf \in Seq(Nat)
  BY DEF Init
<1>4. copy \in [Threads -> Nat] /\ taken \in [Threads -> Seq(Nat)]
  BY DEF Init, NoFrame
<1>5. cursor \in 0..Len(Walk) /\ nextFrame \in Nat
  BY WalkType DEF Init
<1>6. quit \in BOOLEAN /\ raised \in BOOLEAN /\ joined \in BOOLEAN /\ stop \in BOOLEAN
  BY DEF Init
<1>7. TypeOK
  BY <1>2, <1>3, <1>4, <1>5, <1>6 DEF Init, TypeOK, MainTypeOK, ReaderTypeOK, WalkPhases,
     ReaderSteps
<1> QED
  BY <1>7 DEF Init, OpenWriter, TypeInv, CurrentPhases

LEMMA ArmType ==
  ASSUME WriterTypeOK, NEW p \in Positions, Arm(p)
  PROVE  WriterTypeOK' /\ lock' = lock /\ log' = log
  BY WalkType DEF WriterTypeOK, Arm, rootVars, indexVars

LEMMA DisarmType ==
  ASSUME WriterTypeOK, NEW p \in Positions, NEW s \in Statuses, DisarmAndIndex(p, s)
  PROVE  WriterTypeOK' /\ lock' = lock /\ log' = log
<1>1. WindowEnd \in Nat \union {Nothing}
  BY DEF WriterTypeOK, WindowEnd, Nothing
<1>2. AttemptRow(p, s) \in Row
  BY <1>1, WalkType DEF WriterTypeOK, AttemptRow, Row
<1> QED
  BY <1>2 DEF WriterTypeOK, DisarmAndIndex, ForgetSlice, rootVars, NoSlice, Nothing

LEMMA CountType ==
  ASSUME WriterTypeOK, NEW t \in Threads, CountLine(t), log # <<>>
  PROVE  WriterTypeOK' /\ lock' = "free" /\ log' = log
<1>1. log[Len(log)] \in Line
  BY DEF WriterTypeOK
<1>2. CASE active # NoCap /\ sliceFp # NoSlice
  <2>1. Append(slices[sliceFp], log[Len(log)]) \in Seq(Line)
    BY <1>1, <1>2 DEF WriterTypeOK, NoSlice
  <2>2. slices' \in [Positions -> Seq(Line)]
    BY <1>2, <2>1 DEF WriterTypeOK, CountLine
  <2> QED
    BY <1>2, <2>2 DEF WriterTypeOK, CountLine, indexVars
<1>3. CASE ~(active # NoCap /\ sliceFp # NoSlice)
  BY <1>3 DEF WriterTypeOK, CountLine, indexVars
<1> QED
  BY <1>2, <1>3

LEMMA WriteLineType ==
  ASSUME WriterTypeOK, NEW t \in Threads, NEW f \in Nat, WriteLine(t, f)
  PROVE  WriterTypeOK' /\ log' # <<>>
<1> DEFINE line == [seq |-> frameSeq, frame |-> f, cap |-> active]
<1>1. line \in Line
  BY DEF WriterTypeOK, Line
<1>2. log' = Append(log, line) /\ log \in Seq(Line)
  BY DEF WriterTypeOK, WriteLine
<1>3. log' \in Seq(Line) /\ log' # <<>>
  <2> HIDE DEF line
  <2>1. Append(log, line) \in Seq(Line) /\ Len(Append(log, line)) = Len(log) + 1
    BY <1>1, <1>2
  <2> QED
    BY <1>2, <2>1
<1> QED
  BY <1>3 DEF WriterTypeOK, WriteLine, windowVars, indexVars

-----------------------------------------------------------------------------
LEMMA WriterUnchanged ==
  ASSUME WriterTypeOK, UNCHANGED writerVars
  PROVE  WriterTypeOK' /\ lock' = lock /\ log' = log
  BY DEF WriterTypeOK, writerVars, rootVars, windowVars, indexVars

LEMMA ReaderUnchanged ==
  ASSUME ReaderTypeOK, UNCHANGED <<framerVars, readerVars>>
  PROVE  ReaderTypeOK'
  BY DEF ReaderTypeOK, framerVars, readerVars

LEMMA MainUnchanged ==
  ASSUME MainTypeOK, UNCHANGED mainVars
  PROVE  MainTypeOK' /\ pc' = pc /\ cursor' = cursor
  BY DEF MainTypeOK, mainVars, walkVars, endVars, linkVars

LEMMA DrainType ==
  ASSUME ReaderTypeOK, NEW t \in Threads, DrainStep(t)
  PROVE  fbuf' \in Seq(Nat) /\ copy' \in [Threads -> Nat]
         /\ taken' \in [Threads -> Seq(Nat)]
<1>1. CASE DrainCopy(t)
  <2>1. Head(fbuf) \in Nat
    BY <1>1 DEF ReaderTypeOK, DrainCopy
  <2> QED
    BY <1>1, <2>1 DEF ReaderTypeOK, DrainCopy
<1>2. CASE DrainDelete(t)
  <2>1. Append(taken[t], copy[t]) \in Seq(Nat)
    BY DEF ReaderTypeOK
  <2>2. fbuf' \in Seq(Nat)
    BY <1>2 DEF ReaderTypeOK, DrainDelete
  <2> QED
    BY <1>2, <2>1, <2>2 DEF ReaderTypeOK, DrainDelete, NoFrame
<1> QED
  BY <1>1, <1>2 DEF DrainStep

LEMMA WriteTakenType ==
  ASSUME TypeOK, NEW t \in Threads, WriteTaken(t)
  PROVE  /\ WriterTypeOK' /\ log' # <<>>
         /\ fbuf' = fbuf /\ copy' = copy /\ taken' \in [Threads -> Seq(Nat)]
<1>1. Head(taken[t]) \in Nat /\ Tail(taken[t]) \in Seq(Nat)
  BY DEF TypeOK, ReaderTypeOK, WriteTaken
<1>2. WriterTypeOK' /\ log' # <<>>
  BY <1>1, WriteLineType DEF TypeOK, WriteTaken
<1> QED
  BY <1>1, <1>2 DEF TypeOK, ReaderTypeOK, WriteTaken

LEMMA NextPosition ==
  ASSUME MainTypeOK, ~WalkEnded
  PROVE  cursor + 1 \in Positions
<1>1. cursor # Len(Walk)
  BY DEF WalkEnded
<1> QED
  BY <1>1, WalkType DEF MainTypeOK, Positions

LEMMA CurrentPosition ==
  ASSUME TypeInv, pc \in CurrentPhases
  PROVE  cursor \in Positions
  BY WalkType DEF TypeInv, TypeOK, MainTypeOK, Positions

LEMMA CloseType ==
  ASSUME WriterTypeOK,
         CloseSlice \/ WriteIndex \/ CloseRaw \/ CloseFrames \/ WriteMeta
  PROVE  WriterTypeOK' /\ lock' = lock /\ log' = log
<1> USE DEF WriterTypeOK, rootVars, windowVars, indexVars
<1>1. CASE CloseSlice
  BY <1>1 DEF CloseSlice, ForgetSlice, NoSlice, Nothing
<1>2. CASE WriteIndex
  BY <1>2 DEF WriteIndex
<1>3. CASE CloseRaw
  BY <1>3 DEF CloseRaw
<1>4. CASE CloseFrames
  BY <1>4 DEF CloseFrames
<1>5. CASE WriteMeta
  BY <1>5 DEF WriteMeta
<1> QED
  BY <1>1, <1>2, <1>3, <1>4, <1>5

LEMMA DeadType ==
  ASSUME ReaderTypeOK, ReaderDies
  PROVE  ReaderTypeOK'
<1>1. <<>> \in Seq(Nat)
  OBVIOUS
<1>2. taken' \in [Threads -> Seq(Nat)]
  BY <1>1 DEF ReaderTypeOK, ReaderDies
<1> QED
  BY <1>1, <1>2 DEF ReaderTypeOK, ReaderDies, ReaderSteps

LEMMA TypeInvStep == TypeInv /\ [Next]_vars => TypeInv'
<1> SUFFICES ASSUME TypeInv, [Next]_vars PROVE TypeInv'
  OBVIOUS
<1> USE WalkType DEF TypeInv, TypeOK, CurrentPhases
<1>a. WriterTypeOK /\ MainTypeOK /\ ReaderTypeOK
  OBVIOUS
<1>1. CASE Start
  BY <1>1, WriterUnchanged, ReaderUnchanged DEF Start, Move, AfterArm, MainTypeOK,
     Goto, walkVars, endVars, linkVars, WalkPhases, ClosingSteps
<1>2. CASE SelectEnd
  BY <1>2, WriterUnchanged, ReaderUnchanged DEF SelectEnd, Move, AfterArm,
     MainTypeOK, Goto, walkVars, endVars, linkVars, WalkPhases, ClosingSteps
<1>3. CASE ReaderStarted
  BY <1>3, WriterUnchanged, ReaderUnchanged DEF ReaderStarted, Move, AfterArm,
     MainTypeOK, Goto, walkVars, endVars, linkVars, WalkPhases, ClosingSteps
<1>4. CASE JoinTimeout
  BY <1>4, WriterUnchanged, ReaderUnchanged DEF JoinTimeout, Move, AfterArm,
     MainTypeOK, Goto, walkVars, endVars, linkVars, WalkPhases, ClosingSteps
<1>5. CASE FlushDone
  BY <1>5, WriterUnchanged, ReaderUnchanged DEF FlushDone, Move, AfterArm,
     MainTypeOK, Goto, walkVars, endVars, linkVars, WalkPhases, ClosingSteps
<1>6. CASE MarkDone
  BY <1>6, WriterUnchanged, ReaderUnchanged DEF MarkDone, Move, AfterArm,
     MainTypeOK, Goto, walkVars, endVars, linkVars, WalkPhases, ClosingSteps
<1>7. CASE SelectNext
  <2>1. cursor + 1 \in Positions
    BY <1>7, NextPosition DEF SelectNext
  <2> QED
    BY <1>7, <2>1, WriterUnchanged, ReaderUnchanged DEF SelectNext, Positions,
       MainTypeOK, Goto, walkVars, endVars, linkVars, WalkPhases, ClosingSteps
<1>8. CASE OpenRaises
  BY <1>8, WriterUnchanged, ReaderUnchanged DEF OpenRaises, Raise, MainTypeOK, Goto,
     walkVars, endVars, linkVars, WalkPhases, ClosingSteps
<1>9. CASE Interrupt
  BY <1>9, WriterUnchanged, ReaderUnchanged DEF Interrupt, Raise, MainTypeOK, Goto,
     walkVars, endVars, linkVars, WalkPhases, ClosingSteps
<1>10. CASE InterruptJoin
  BY <1>10, WriterUnchanged, ReaderUnchanged DEF InterruptJoin, Raise, MainTypeOK,
     Goto, walkVars, endVars, linkVars, WalkPhases, ClosingSteps
<1>11. CASE ShutdownFails
  BY <1>11, WriterUnchanged, ReaderUnchanged DEF ShutdownFails, Raise, MainTypeOK,
     Goto, walkVars, endVars, linkVars, WalkPhases, ClosingSteps
<1>12. CASE StopReader
  BY <1>12, WriterUnchanged, ReaderUnchanged DEF StopReader, Raise, MainTypeOK,
     Goto, walkVars, endVars, linkVars, WalkPhases, ClosingSteps
<1>13. CASE JoinReader
  BY <1>13, WriterUnchanged, ReaderUnchanged DEF JoinReader, Raise, MainTypeOK,
     Goto, walkVars, endVars, linkVars, WalkPhases, ClosingSteps
<1>14. CASE CloseLink
  BY <1>14, WriterUnchanged, ReaderUnchanged DEF CloseLink, Raise, MainTypeOK, Goto,
     walkVars, endVars, linkVars, WalkPhases, ClosingSteps
<1>15. CASE SelectSkipped
  <2>1. cursor + 1 \in Positions
    BY <1>15, NextPosition DEF SelectSkipped
  <2>2. WriterTypeOK' /\ lock' = lock /\ log' = log
    BY <1>15, <2>1, ArmType DEF SelectSkipped
  <2> QED
    BY <1>15, <2>1, <2>2, ReaderUnchanged DEF SelectSkipped, Positions, Statuses,
       MainTypeOK, Goto, walkVars, endVars, linkVars, WalkPhases, ClosingSteps
<1>16. CASE PromptArms
  <2>1. cursor \in Positions
    BY <1>16, CurrentPosition DEF PromptArms
  <2>2. WriterTypeOK' /\ lock' = lock /\ log' = log
    BY <1>16, <2>1, ArmType DEF PromptArms
  <2> QED
    BY <1>16, <2>1, <2>2, ReaderUnchanged DEF PromptArms, Positions, Statuses,
       MainTypeOK, Goto, walkVars, endVars, linkVars, WalkPhases, ClosingSteps
<1>17. CASE \E s \in Statuses \union {NoStatus}, q \in BOOLEAN : PromptKey(s, q)
  <2>1. cursor \in Positions
    BY <1>17, CurrentPosition DEF PromptKey
  <2>2. WriterTypeOK' /\ lock' = lock /\ log' = log
    BY <1>17, <2>1, ArmType DEF PromptKey
  <2> QED
    BY <1>17, <2>1, <2>2, ReaderUnchanged DEF PromptKey, Positions, Statuses,
       MainTypeOK, Goto, walkVars, endVars, linkVars, WalkPhases, ClosingSteps
<1>18. CASE \E s \in Statuses, q \in BOOLEAN : RecordingKey(s, q)
  BY <1>18, WriterUnchanged, ReaderUnchanged DEF RecordingKey, MainTypeOK, Goto,
     walkVars, endVars, linkVars, WalkPhases, ClosingSteps
<1>19. CASE ArmRaises
  <2>1. cursor' \in 0..Len(Walk)
    BY <1>19, NextPosition DEF ArmRaises, MainTypeOK, Positions
  <2>2. WriterTypeOK' /\ lock' = lock /\ log' = log
    BY <1>19 DEF ArmRaises, ArmFails, ForgetSlice, WriterTypeOK, rootVars,
       indexVars,
       NoSlice, Nothing
  <2> QED
    BY <1>19, <2>1, <2>2, ReaderUnchanged DEF ArmRaises, Raise,
       MainTypeOK, Goto, walkVars, endVars, linkVars, WalkPhases, ClosingSteps
<1>20. CASE EnsureReader
  <2>1. ReaderTypeOK'
    BY <1>20 DEF EnsureReader, ReaderTypeOK, ReaderSteps, framerVars, readerVars
  <2> QED
    BY <1>20, <2>1, WriterUnchanged DEF EnsureReader, AfterArm,
       MainTypeOK, Goto, walkVars, endVars, linkVars, WalkPhases, ClosingSteps
<1>21. CASE Finalize
  <2>1. cursor \in Positions
    BY <1>21, CurrentPosition DEF Finalize
  <2>2. (IF pending = NoStatus THEN "skipped" ELSE pending) \in Statuses
    BY DEF MainTypeOK, Statuses
  <2>3. WriterTypeOK' /\ lock' = lock /\ log' = log
    BY <1>21, <2>1, <2>2, DisarmType DEF Finalize
  <2> QED
    BY <1>21, <2>3, ReaderUnchanged DEF Finalize,
       MainTypeOK, Goto, walkVars, endVars, linkVars, WalkPhases, ClosingSteps
<1>22. CASE Flush
  <2>1. ReaderTypeOK'
    BY <1>22, DrainType DEF Flush, Threads, ReaderTypeOK, ReaderSteps, framerVars,
       readerVars
  <2> QED
    BY <1>22, <2>1, WriterUnchanged DEF Flush, MainTypeOK, Goto, walkVars, endVars,
       linkVars, WalkPhases, ClosingSteps
<1>23. CASE FlushWrite
  <2>1. CASE WriteTaken("main")
    BY <1>23, <2>1, WriteTakenType DEF FlushWrite, Threads, mainVars, ReaderTypeOK,
       ReaderSteps, framerVars, readerVars,
       MainTypeOK, Goto, walkVars, endVars, linkVars, WalkPhases, ClosingSteps
  <2>2. CASE CountLine("main") /\ UNCHANGED framerVars
    <3>1. log # <<>>
      BY <2>2 DEF CountLine
    <3>2. WriterTypeOK' /\ lock' = "free" /\ log' = log
      BY <2>2, <3>1, CountType DEF Threads
    <3> QED
      BY <1>23, <2>2, <3>2, MainUnchanged DEF FlushWrite, ReaderTypeOK, ReaderSteps,
         framerVars, readerVars
  <2> QED
    BY <1>23, <2>1, <2>2 DEF FlushWrite
<1>24. CASE MarkRemaining
  <2>1. cursor + 1 \in Positions
    BY <1>24 DEF MarkRemaining, MainTypeOK, Positions
  <2>2. [seq |-> cursor + 1, id |-> Walk[cursor + 1], status |-> "not_run",
         frames |-> 0, start |-> Nothing, end |-> Nothing] \in Row
    BY <2>1 DEF Row, Statuses
  <2>3. WriterTypeOK' /\ lock' = lock /\ log' = log
    BY <1>24, <2>1, <2>2 DEF MarkRemaining, MarkNotRun, WriterTypeOK, rootVars
  <2> QED
    BY <1>24, <2>1, <2>3, ReaderUnchanged DEF MarkRemaining, Positions,
       MainTypeOK, Goto, walkVars, endVars, linkVars, WalkPhases, ClosingSteps
<1>25. CASE CloseWriter
  <2>1. WriterTypeOK' /\ lock' = lock /\ log' = log
    BY <1>25, CloseType DEF CloseWriter
  <2> QED
    BY <1>25, <2>1, ReaderUnchanged DEF CloseWriter, MainTypeOK, Goto, walkVars,
       endVars, linkVars, WalkPhases, ClosingSteps
<1>26. CASE ReaderCheck
  BY <1>26, WriterUnchanged, MainUnchanged DEF ReaderCheck, ReaderTypeOK,
     ReaderSteps, framerVars, readerVars
<1>27. CASE ReadNothing
  BY <1>27, WriterUnchanged, MainUnchanged DEF ReadNothing, ReaderTypeOK,
     ReaderSteps, framerVars, readerVars
<1>28. CASE ReaderWritten
  BY <1>28, WriterUnchanged, MainUnchanged DEF ReaderWritten, ReaderTypeOK,
     ReaderSteps, framerVars, readerVars
<1>29. CASE \E m \in 1..MaxChunk : ReadFrames(m)
  <2>1. PICK m \in 1..MaxChunk : ReadFrames(m)
    BY <1>29
  <2>2. chunk' \in Seq(Nat)
    BY <2>1 DEF ReadFrames, ReaderTypeOK
  <2> QED
    BY <2>1, <2>2, WriterUnchanged, MainUnchanged DEF ReadFrames, ReaderTypeOK,
       ReaderSteps, framerVars, readerVars
<1>30. CASE ReaderRaw
  <2>1. raw \o chunk \in Seq(Nat)
    BY DEF WriterTypeOK, ReaderTypeOK
  <2>2. WriterTypeOK' /\ lock' = lock /\ log' = log
    BY <1>30, <2>1 DEF ReaderRaw, WriteRaw, WriterTypeOK, windowVars, indexVars
  <2> QED
    BY <1>30, <2>2, MainUnchanged DEF ReaderRaw, ReaderTypeOK, ReaderSteps,
       framerVars, readerVars
<1>31. CASE ReaderFeed
  <2>1. fbuf \o chunk \in Seq(Nat) /\ <<>> \in Seq(Nat)
    BY DEF ReaderTypeOK
  <2> QED
    BY <1>31, <2>1, WriterUnchanged, MainUnchanged DEF ReaderFeed, ReaderTypeOK,
       ReaderSteps, framerVars, readerVars
<1>32. CASE ReaderDrain
  <2>1. ReaderTypeOK'
    BY <1>32, DrainType DEF ReaderDrain, Threads, ReaderTypeOK, ReaderSteps,
       framerVars, readerVars
  <2> QED
    BY <1>32, <2>1, WriterUnchanged, MainUnchanged DEF ReaderDrain
<1>33. CASE ReaderWrite
  <2>1. CASE WriteTaken("reader")
    BY <1>33, <2>1, WriteTakenType DEF ReaderWrite, Threads, mainVars, ReaderTypeOK,
       ReaderSteps, framerVars, readerVars,
       MainTypeOK, Goto, walkVars, endVars, linkVars, WalkPhases, ClosingSteps
  <2>2. CASE CountLine("reader") /\ UNCHANGED framerVars
    <3>1. log # <<>>
      BY <2>2 DEF CountLine
    <3>2. WriterTypeOK' /\ lock' = "free" /\ log' = log
      BY <2>2, <3>1, CountType DEF Threads
    <3> QED
      BY <1>33, <2>2, <3>2, MainUnchanged DEF ReaderWrite, ReaderTypeOK,
         ReaderSteps, framerVars, readerVars
  <2> QED
    BY <1>33, <2>1, <2>2 DEF ReaderWrite
<1>34. CASE ReaderFindsClosed
  <2>1. ReaderTypeOK'
    BY <1>34, DeadType DEF ReaderFindsClosed
  <2> QED
    BY <1>34, <2>1, WriterUnchanged, MainUnchanged DEF ReaderFindsClosed, ReaderDies
<1>35. CASE ReaderDiskError
  <2>1. ReaderTypeOK'
    BY <1>35, DeadType DEF ReaderDiskError
  <2>2. CASE UNCHANGED writerVars
    BY <1>35, <2>1, <2>2, WriterUnchanged, MainUnchanged DEF ReaderDiskError,
       ReaderDies
  <2>3. CASE CountLineFails("reader")
    <3>1. WriterTypeOK' /\ lock' = "free" /\ log' = log
      BY <2>3 DEF CountLineFails, WriterTypeOK, windowVars, indexVars
    <3> QED
      BY <1>35, <2>1, <3>1, MainUnchanged DEF ReaderDiskError, ReaderDies
  <2> QED
    BY <1>35, <2>2, <2>3 DEF ReaderDiskError
<1>36. CASE UNCHANGED vars
  BY <1>36, WriterUnchanged, MainUnchanged, ReaderUnchanged DEF vars
<1> QED
  BY <1>1, <1>2, <1>3, <1>4, <1>5, <1>6, <1>7, <1>8, <1>9, <1>10, <1>11, <1>12,
     <1>13, <1>14, <1>15, <1>16, <1>17, <1>18, <1>19, <1>20, <1>21, <1>22, <1>23,
     <1>24, <1>25, <1>26, <1>27, <1>28, <1>29, <1>30, <1>31, <1>32, <1>33, <1>34,
     <1>35, <1>36 DEF Next,
     MainStep, Keys, Failures, ReaderStep, Read, Terminated, Statuses

\* Type correctness: in every reachable state the fields hold what their
\* declarations in the code say, whatever fails and however the threads interleave.
THEOREM TypeCorrect == Spec => []TypeOK
<1>1. Spec => []TypeInv
  BY InitTypeInv, TypeInvStep, PTL DEF Spec
<1> QED
  BY <1>1, PTL DEF TypeInv

-----------------------------------------------------------------------------
(* The index rows of a capability session describe its root log.           *)

USE DEF Nothing, NoSlice

(* The inductive invariant, by what it relates.                            *)

(* Where a slice can be open, who can hold the lock, when there is a reader. *)
PhaseInv ==
    /\ pc \in {"SESSION_INIT", "SELECT_NEXT", "PROMPT_ARM"} => sliceFp = NoSlice
    /\ pc \in {"ARMED", "RECORDING", "FINALIZE"} => sliceFp = cursor
    /\ lock = "main" => pc = "FLUSH_WRITE"
    /\ lock = "reader" => rpc = "write"
    /\ link = "new" => rpc = "off"

(* The log is counted, except for the line whose writer holds the lock.    *)
LineInv ==
    /\ Len(log) = frameSeq + (IF lock = "free" THEN 0 ELSE 1)
    /\ LinesAreNumbered
    /\ lock # "free" => log[Len(log)].cap = active

(* During the walk the open slice is the end of the counted log.  A reader *)
(* killed by a failing slice write leaves it one line short, for good.     *)
WindowInv ==
    pc \in WalkPhases /\ sliceFp # NoSlice =>
        /\ active = Walk[sliceFp]
        /\ capStart \in Nat
        /\ capCount = Len(slices[sliceFp])
        /\ capStart + capCount <= frameSeq
        /\ rpc # "dead" => capStart + capCount = frameSeq
        /\ \A i \in 1..capCount : /\ slices[sliceFp][i] = log[capStart + i]
                                  /\ log[capStart + i].cap = Walk[sliceFp]

(* Rows are for positions the walk has left, so never for the open window. *)
RowInv ==
    /\ sliceFp <= cursor
    /\ \A r \in 1..Len(index) : /\ index[r].seq <= cursor
                                /\ pc \in CurrentPhases => index[r].seq < cursor
                                /\ index[r].seq # sliceFp

SessionInv ==
    /\ TypeInv /\ PhaseInv /\ LineInv /\ WindowInv /\ RowInv
    /\ RowsMatchLog

LEMMA InitSessionInv == Init => SessionInv
<1> SUFFICES ASSUME Init PROVE SessionInv
  OBVIOUS
<1>1. TypeInv
  BY InitTypeInv
<1>2. PhaseInv /\ LineInv /\ WindowInv /\ RowInv /\ RowsMatchLog
  BY DEF Init, OpenWriter, PhaseInv, LineInv, LinesAreNumbered, WindowInv, RowInv,
     RowsMatchLog, CurrentPhases
<1> QED
  BY <1>1, <1>2 DEF SessionInv

-----------------------------------------------------------------------------
(* The steps as the invariant sees them: by what they do to the writer.    *)

core == <<log, frameSeq, lock, active, sliceFp, capStart, capCount, slices, index>>

QuietStep ==
    /\ UNCHANGED <<core, cursor>>
    /\ pc' \in WalkPhases => pc \in WalkPhases
    /\ pc' \in CurrentPhases => pc \in CurrentPhases
    /\ pc' = "PROMPT_ARM" => pc = "PROMPT_ARM"
    /\ rpc' # "dead" => rpc # "dead"

AdvanceStep ==
    /\ UNCHANGED core
    /\ pc = "SELECT_NEXT" /\ pc' = "PROMPT_ARM"
    /\ cursor' = cursor + 1 /\ rpc' = rpc

ArmStep ==
    /\ cursor' \in Positions /\ Arm(cursor')
    /\ \/ pc = "SELECT_NEXT" /\ cursor' = cursor + 1
       \/ pc = "PROMPT_ARM" /\ cursor' = cursor
    /\ pc' = "ARMED" /\ rpc' = rpc

ArmFailsStep ==
    /\ ArmFails /\ pc' = "STOP"
    /\ cursor' \in {cursor, cursor + 1}

DisarmStep ==
    /\ pc = "FINALIZE" /\ pc' \in {"STOP", "SELECT_NEXT"}
    /\ \E s \in Statuses : DisarmAndIndex(cursor, s)
    /\ UNCHANGED <<cursor, rpc>>

MarkStep ==
    /\ pc = "MARK" /\ pc' = pc
    /\ cursor < Len(Walk) /\ cursor' = cursor + 1
    /\ MarkNotRun(cursor')

WriteStep ==
    /\ \E t \in Threads, f \in Nat : WriteLine(t, f)
    /\ UNCHANGED <<pc, cursor, rpc>>

CountStep ==
    /\ CountLine("reader") \/ CountLine("main")
    /\ UNCHANGED <<pc, cursor, rpc>>

CountFailsStep ==
    /\ CountLineFails("reader")
    /\ rpc' = "dead" /\ UNCHANGED <<pc, cursor>>

CloseStep ==
    /\ CloseSlice /\ pc' = "WRITE_INDEX"
    /\ UNCHANGED <<cursor, rpc>>

AnyStep ==
    \/ QuietStep \/ AdvanceStep \/ ArmStep \/ ArmFailsStep \/ DisarmStep \/ MarkStep
    \/ WriteStep \/ CountStep \/ CountFailsStep \/ CloseStep

LEMMA StepKinds ==
  ASSUME TypeInv, PhaseInv, [Next]_vars
  PROVE  AnyStep
<1> USE DEF AnyStep, CurrentPhases, WalkPhases
<1>1. CASE Start
  BY <1>1 DEF Start, Move, Goto, AfterArm, QuietStep, core, writerVars, rootVars,
     windowVars, indexVars, walkVars, readerVars
<1>2. CASE SelectEnd
  BY <1>2 DEF SelectEnd, Move, Goto, AfterArm, QuietStep, core, writerVars,
     rootVars, windowVars, indexVars, walkVars, readerVars
<1>3. CASE ReaderStarted
  BY <1>3 DEF ReaderStarted, Move, Goto, AfterArm, QuietStep, core, writerVars,
     rootVars, windowVars, indexVars, walkVars, readerVars
<1>4. CASE JoinTimeout
  BY <1>4 DEF JoinTimeout, Move, Goto, AfterArm, QuietStep, core, writerVars,
     rootVars, windowVars, indexVars, walkVars, readerVars
<1>5. CASE FlushDone
  BY <1>5 DEF FlushDone, Move, Goto, AfterArm, QuietStep, core, writerVars,
     rootVars, windowVars, indexVars, walkVars, readerVars
<1>6. CASE MarkDone
  BY <1>6 DEF MarkDone, Move, Goto, AfterArm, QuietStep, core, writerVars, rootVars,
     windowVars, indexVars, walkVars, readerVars
<1>7. CASE OpenRaises
  BY <1>7 DEF OpenRaises, Raise, Goto, QuietStep, core, writerVars, rootVars,
     windowVars, indexVars, walkVars, readerVars
<1>8. CASE Interrupt
  BY <1>8 DEF Interrupt, Raise, Goto, QuietStep, core, writerVars, rootVars,
     windowVars, indexVars, walkVars, readerVars
<1>9. CASE InterruptJoin
  BY <1>9 DEF InterruptJoin, Raise, Goto, QuietStep, core, writerVars, rootVars,
     windowVars, indexVars, walkVars, readerVars
<1>10. CASE ShutdownFails
  BY <1>10 DEF ShutdownFails, Raise, Goto, QuietStep, core, writerVars, rootVars,
     windowVars, indexVars, walkVars, readerVars
<1>11. CASE StopReader
  BY <1>11 DEF StopReader, Raise, Goto, QuietStep, core, writerVars, rootVars,
     windowVars, indexVars, walkVars, readerVars
<1>12. CASE JoinReader
  BY <1>12 DEF JoinReader, Raise, Goto, QuietStep, core, writerVars, rootVars,
     windowVars, indexVars, walkVars, readerVars
<1>13. CASE CloseLink
  BY <1>13 DEF CloseLink, Raise, Goto, QuietStep, core, writerVars, rootVars,
     windowVars, indexVars, walkVars, readerVars
<1>14. CASE Flush
  BY <1>14 DEF Flush, Raise, Goto, QuietStep, core, writerVars, rootVars,
     windowVars, indexVars, walkVars, readerVars
<1>15. CASE \E s \in Statuses, q \in BOOLEAN : RecordingKey(s, q)
  BY <1>15 DEF RecordingKey, Raise, Goto, QuietStep, core, writerVars, rootVars,
     windowVars, indexVars, walkVars, readerVars
<1>16. CASE EnsureReader
  BY <1>16 DEF EnsureReader, AfterArm, Goto, PhaseInv, QuietStep, core, writerVars,
     rootVars, windowVars, indexVars, walkVars, readerVars
<1>17. CASE ReaderCheck
  BY <1>17 DEF ReaderCheck, WriteRaw, ReaderDies, mainVars, QuietStep, core,
     writerVars, rootVars, windowVars, indexVars, walkVars, readerVars
<1>18. CASE ReadNothing
  BY <1>18 DEF ReadNothing, WriteRaw, ReaderDies, mainVars, QuietStep, core,
     writerVars, rootVars, windowVars, indexVars, walkVars, readerVars
<1>19. CASE ReaderWritten
  BY <1>19 DEF ReaderWritten, WriteRaw, ReaderDies, mainVars, QuietStep, core,
     writerVars, rootVars, windowVars, indexVars, walkVars, readerVars
<1>20. CASE ReaderRaw
  BY <1>20 DEF ReaderRaw, WriteRaw, ReaderDies, mainVars, QuietStep, core,
     writerVars, rootVars, windowVars, indexVars, walkVars, readerVars
<1>21. CASE ReaderFeed
  BY <1>21 DEF ReaderFeed, WriteRaw, ReaderDies, mainVars, QuietStep, core,
     writerVars, rootVars, windowVars, indexVars, walkVars, readerVars
<1>22. CASE ReaderDrain
  BY <1>22 DEF ReaderDrain, WriteRaw, ReaderDies, mainVars, QuietStep, core,
     writerVars, rootVars, windowVars, indexVars, walkVars, readerVars
<1>23. CASE ReaderFindsClosed
  BY <1>23 DEF ReaderFindsClosed, WriteRaw, ReaderDies, mainVars, QuietStep, core,
     writerVars, rootVars, windowVars, indexVars, walkVars, readerVars
<1>24. CASE \E m \in 1..MaxChunk : ReadFrames(m)
  BY <1>24 DEF ReadFrames, mainVars, QuietStep, core, writerVars, rootVars,
     windowVars, indexVars, walkVars, readerVars
<1>25. CASE UNCHANGED vars
  BY <1>25 DEF vars, mainVars, QuietStep, core, writerVars, rootVars, windowVars,
     indexVars, walkVars, readerVars
<1>26. CASE SelectNext
  BY <1>26 DEF SelectNext, Goto, AdvanceStep, core, writerVars, rootVars,
     windowVars, indexVars, walkVars, readerVars
<1>27. CASE SelectSkipped
  BY <1>27, NextPosition DEF SelectSkipped, Goto, ArmStep, TypeInv, TypeOK, core,
     writerVars, rootVars, windowVars, indexVars, walkVars, readerVars
<1>28. CASE PromptArms
  BY <1>28, CurrentPosition DEF PromptArms, Goto, ArmStep, core, writerVars,
     rootVars, windowVars, indexVars, walkVars, readerVars
<1>29. CASE \E s \in Statuses \union {NoStatus}, q \in BOOLEAN : PromptKey(s, q)
  BY <1>29, CurrentPosition DEF PromptKey, Goto, ArmStep, core, writerVars,
     rootVars, windowVars, indexVars, walkVars, readerVars
<1>30. CASE ArmRaises
  BY <1>30 DEF ArmRaises, Raise, Goto, ArmFailsStep
<1>31. CASE Finalize
  <2>1. (IF pending = NoStatus THEN "skipped" ELSE pending) \in Statuses
    BY DEF TypeInv, TypeOK, MainTypeOK, Statuses
  <2> QED
    BY <1>31, <2>1 DEF Finalize, Goto, DisarmStep, readerVars
<1>32. CASE MarkRemaining
  BY <1>32 DEF MarkRemaining, MarkStep
<1>33. CASE CloseWriter
  BY <1>33 DEF CloseWriter, Goto, CloseStep, WriteIndex, CloseRaw, CloseFrames,
     WriteMeta, QuietStep, core, writerVars, rootVars, windowVars, indexVars,
     walkVars, readerVars
<1>34. CASE FlushWrite
  <2>1. CASE WriteTaken("main")
    <3>1. Head(taken["main"]) \in Nat
      BY <2>1 DEF WriteTaken, TypeInv, TypeOK, ReaderTypeOK, Threads
    <3> QED
      BY <1>34, <2>1, <3>1 DEF FlushWrite, WriteTaken, WriteStep, Threads, mainVars,
         walkVars, readerVars
  <2>2. CASE CountLine("main")
    BY <1>34, <2>2 DEF FlushWrite, CountStep, mainVars, walkVars, readerVars
  <2> QED
    BY <1>34, <2>1, <2>2 DEF FlushWrite
<1>35. CASE ReaderWrite
  <2>1. CASE WriteTaken("reader")
    <3>1. Head(taken["reader"]) \in Nat
      BY <2>1 DEF WriteTaken, TypeInv, TypeOK, ReaderTypeOK, Threads
    <3> QED
      BY <1>35, <2>1, <3>1 DEF ReaderWrite, WriteTaken, WriteStep, Threads,
         mainVars, walkVars, readerVars
  <2>2. CASE CountLine("reader")
    BY <1>35, <2>2 DEF ReaderWrite, CountStep, mainVars, walkVars, readerVars
  <2> QED
    BY <1>35, <2>1, <2>2 DEF ReaderWrite
<1>36. CASE ReaderDiskError
  <2>1. CASE UNCHANGED writerVars
    BY <1>36, <2>1 DEF ReaderDiskError, ReaderDies, mainVars, QuietStep, core,
       writerVars, rootVars, windowVars, indexVars, walkVars, readerVars
  <2>2. CASE CountLineFails("reader")
    BY <1>36, <2>2 DEF ReaderDiskError, ReaderDies, CountFailsStep, mainVars,
       walkVars
  <2> QED
    BY <1>36, <2>1, <2>2 DEF ReaderDiskError
<1> QED
  BY <1>1, <1>2, <1>3, <1>4, <1>5, <1>6, <1>7, <1>8, <1>9, <1>10, <1>11, <1>12,
     <1>13, <1>14, <1>15, <1>16, <1>17, <1>18, <1>19, <1>20, <1>21, <1>22, <1>23,
     <1>24, <1>25, <1>26, <1>27, <1>28, <1>29, <1>30, <1>31, <1>32, <1>33, <1>34,
     <1>35, <1>36 DEF Next,
     MainStep, Keys, Failures, ReaderStep, Read, Terminated, Statuses

LEMMA PhaseInvStep ==
  ASSUME TypeInv, PhaseInv, [Next]_vars
  PROVE  PhaseInv'
<1> USE DEF PhaseInv
<1>a. cursor \in Nat /\ lock \in {"main", "reader", "free"}
  BY WalkType DEF TypeInv, TypeOK, WriterTypeOK, MainTypeOK, Threads
<1>1. CASE Start
  BY <1>1 DEF Start, Move, Goto, AfterArm, writerVars, windowVars, walkVars,
     endVars, linkVars, readerVars
<1>2. CASE SelectEnd
  BY <1>2 DEF SelectEnd, Move, Goto, AfterArm, writerVars, windowVars, walkVars,
     endVars, linkVars, readerVars
<1>3. CASE ReaderStarted
  BY <1>3 DEF ReaderStarted, Move, Goto, AfterArm, writerVars, windowVars, walkVars,
     endVars, linkVars, readerVars
<1>4. CASE JoinTimeout
  BY <1>4 DEF JoinTimeout, Move, Goto, AfterArm, writerVars, windowVars, walkVars,
     endVars, linkVars, readerVars
<1>5. CASE FlushDone
  BY <1>5 DEF FlushDone, Move, Goto, AfterArm, writerVars, windowVars, walkVars,
     endVars, linkVars, readerVars
<1>6. CASE MarkDone
  BY <1>6 DEF MarkDone, Move, Goto, AfterArm, writerVars, windowVars, walkVars,
     endVars, linkVars, readerVars
<1>7. CASE OpenRaises
  BY <1>7 DEF OpenRaises, Raise, Goto, AfterArm, writerVars, windowVars, walkVars,
     endVars, linkVars, readerVars
<1>8. CASE Interrupt
  BY <1>8 DEF Interrupt, Raise, Goto, AfterArm, writerVars, windowVars, walkVars,
     endVars, linkVars, readerVars
<1>9. CASE InterruptJoin
  BY <1>9 DEF InterruptJoin, Raise, Goto, AfterArm, writerVars, windowVars,
     walkVars, endVars, linkVars, readerVars
<1>10. CASE ShutdownFails
  BY <1>10 DEF ShutdownFails, Raise, Goto, AfterArm, writerVars, windowVars,
     walkVars, endVars, linkVars, readerVars
<1>11. CASE StopReader
  BY <1>11 DEF StopReader, Raise, Goto, AfterArm, writerVars, windowVars, walkVars,
     endVars, linkVars, readerVars
<1>12. CASE JoinReader
  BY <1>12 DEF JoinReader, Raise, Goto, AfterArm, writerVars, windowVars, walkVars,
     endVars, linkVars, readerVars
<1>13. CASE CloseLink
  BY <1>13 DEF CloseLink, Raise, Goto, AfterArm, writerVars, windowVars, walkVars,
     endVars, linkVars, readerVars
<1>14. CASE Flush
  BY <1>14 DEF Flush, Raise, Goto, AfterArm, writerVars, windowVars, walkVars,
     endVars, linkVars, readerVars
<1>15. CASE SelectNext
  BY <1>15 DEF SelectNext, Raise, Goto, AfterArm, writerVars, windowVars, walkVars,
     endVars, linkVars, readerVars
<1>16. CASE EnsureReader
  BY <1>16 DEF EnsureReader, Raise, Goto, AfterArm, writerVars, windowVars,
     walkVars, endVars, linkVars, readerVars
<1>17. CASE \E s \in Statuses, q \in BOOLEAN : RecordingKey(s, q)
  BY <1>17 DEF RecordingKey, Raise, Goto, AfterArm, writerVars, windowVars,
     walkVars, endVars, linkVars, readerVars
<1>18. CASE ReaderCheck
  BY <1>18 DEF ReaderCheck, WriteRaw, ReaderDies, WriterIsClosed, mainVars,
     writerVars, windowVars, walkVars, endVars, linkVars, readerVars
<1>19. CASE ReadNothing
  BY <1>19 DEF ReadNothing, WriteRaw, ReaderDies, WriterIsClosed, mainVars,
     writerVars, windowVars, walkVars, endVars, linkVars, readerVars
<1>20. CASE ReaderWritten
  BY <1>20 DEF ReaderWritten, WriteRaw, ReaderDies, WriterIsClosed, mainVars,
     writerVars, windowVars, walkVars, endVars, linkVars, readerVars
<1>21. CASE ReaderRaw
  BY <1>21 DEF ReaderRaw, WriteRaw, ReaderDies, WriterIsClosed, mainVars,
     writerVars, windowVars, walkVars, endVars, linkVars, readerVars
<1>22. CASE ReaderFeed
  BY <1>22 DEF ReaderFeed, WriteRaw, ReaderDies, WriterIsClosed, mainVars,
     writerVars, windowVars, walkVars, endVars, linkVars, readerVars
<1>23. CASE ReaderDrain
  BY <1>23 DEF ReaderDrain, WriteRaw, ReaderDies, WriterIsClosed, mainVars,
     writerVars, windowVars, walkVars, endVars, linkVars, readerVars
<1>24. CASE ReaderFindsClosed
  BY <1>24 DEF ReaderFindsClosed, WriteRaw, ReaderDies, WriterIsClosed, mainVars,
     writerVars, windowVars, walkVars, endVars, linkVars, readerVars
<1>25. CASE \E m \in 1..MaxChunk : ReadFrames(m)
  BY <1>25 DEF ReadFrames, mainVars, writerVars, windowVars, walkVars, endVars,
     linkVars, readerVars
<1>26. CASE UNCHANGED vars
  BY <1>26 DEF vars, mainVars, writerVars, windowVars, walkVars, endVars, linkVars,
     readerVars
<1>27. CASE SelectSkipped
  BY <1>27 DEF SelectSkipped, Arm, Goto, writerVars, windowVars, walkVars, endVars,
     linkVars, readerVars
<1>28. CASE PromptArms
  BY <1>28 DEF PromptArms, Arm, Goto, writerVars, windowVars, walkVars, endVars,
     linkVars, readerVars
<1>29. CASE \E s \in Statuses \union {NoStatus}, q \in BOOLEAN : PromptKey(s, q)
  BY <1>29 DEF PromptKey, Arm, Goto, writerVars, windowVars, walkVars, endVars,
     linkVars, readerVars
<1>30. CASE ArmRaises
  BY <1>30 DEF ArmRaises, ArmFails, ForgetSlice, Raise, Goto, writerVars,
     windowVars, walkVars, endVars, linkVars, readerVars
<1>31. CASE Finalize
  BY <1>31 DEF Finalize, DisarmAndIndex, ForgetSlice, Goto, writerVars, windowVars,
     walkVars, endVars, linkVars, readerVars
<1>32. CASE MarkRemaining
  BY <1>32 DEF MarkRemaining, MarkNotRun, writerVars, windowVars, walkVars, endVars,
     linkVars, readerVars
<1>33. CASE CloseWriter
  BY <1>33 DEF CloseWriter, Goto, CloseSlice, ForgetSlice, WriteIndex, CloseRaw,
     CloseFrames, WriteMeta, writerVars, windowVars, walkVars, endVars, linkVars,
     readerVars
<1>34. CASE FlushWrite
  BY <1>34 DEF FlushWrite, WriteTaken, WriteLine, CountLine, mainVars, writerVars,
     windowVars, walkVars, endVars, linkVars, readerVars
<1>35. CASE ReaderWrite
  BY <1>35 DEF ReaderWrite, WriteTaken, WriteLine, CountLine, mainVars, writerVars,
     windowVars, walkVars, endVars, linkVars, readerVars
<1>36. CASE ReaderDiskError
  BY <1>36 DEF ReaderDiskError, ReaderDies, CountLineFails, mainVars, writerVars,
     windowVars, walkVars, endVars, linkVars, readerVars
<1> QED
  BY <1>1, <1>2, <1>3, <1>4, <1>5, <1>6, <1>7, <1>8, <1>9, <1>10, <1>11, <1>12,
     <1>13, <1>14, <1>15, <1>16, <1>17, <1>18, <1>19, <1>20, <1>21, <1>22, <1>23,
     <1>24, <1>25, <1>26, <1>27, <1>28, <1>29, <1>30, <1>31, <1>32, <1>33, <1>34,
     <1>35, <1>36 DEF Next,
     MainStep, Keys, Failures, ReaderStep, Read, Terminated, Statuses

-----------------------------------------------------------------------------
(* What a step keeps: the log grows at its end, and so does the index; the *)
(* slice of a position that has a row is not written again.                *)

LogKept ==
    /\ Len(log') \in Nat /\ Len(log') >= Len(log)
    /\ \A i \in 1..Len(log) : log'[i] = log[i]

RowsKept ==
    /\ Len(index') >= Len(index)
    /\ \A r \in 1..Len(index) :
          index'[r] = index[r] /\ slices'[index[r].seq] = slices[index[r].seq]

LEMMA IndexTyped ==
  ASSUME TypeInv
  PROVE  /\ Len(index) \in Nat /\ Len(log) \in Nat /\ cursor \in Nat /\ frameSeq \in Nat
         /\ capCount \in Nat /\ sliceFp \in Nat
         /\ \A r \in 1..Len(index) : index[r] \in Row /\ index[r].seq \in Positions
         /\ \A p \in Positions : p \in Nat /\ p # NoSlice /\ slices[p] \in Seq(Line)
<1>1. \A r \in 1..Len(index) : index[r] \in Row
  BY DEF TypeInv, TypeOK, WriterTypeOK
<1>2. \A r \in 1..Len(index) : index[r].seq \in Positions
  BY <1>1 DEF Row
<1>3. \A p \in Positions : p \in Nat /\ p # NoSlice /\ slices[p] \in Seq(Line)
  BY WalkType DEF TypeInv, TypeOK, WriterTypeOK, Positions
<1>4. /\ Len(index) \in Nat /\ Len(log) \in Nat /\ frameSeq \in Nat /\ capCount \in Nat
      /\ sliceFp \in Nat
  BY <1>3 DEF TypeInv, TypeOK, WriterTypeOK
<1>5. cursor \in Nat
  BY WalkType DEF TypeInv, TypeOK, MainTypeOK
<1> QED
  BY <1>1, <1>2, <1>3, <1>4, <1>5

LEMMA LogIsKept ==
  ASSUME TypeInv, AnyStep
  PROVE  LogKept
<1>1. CASE WriteStep
  <2>1. PICK l : log' = Append(log, l)
    BY <1>1 DEF WriteStep, WriteLine
  <2> QED
    BY <2>1 DEF TypeInv, TypeOK, WriterTypeOK, LogKept
<1>2. CASE ~WriteStep
  <2>1. log' = log
    BY <1>2 DEF AnyStep, QuietStep, AdvanceStep, ArmStep, ArmFailsStep, DisarmStep,
       MarkStep, CountStep, CountFailsStep, CloseStep, core, Arm, ArmFails,
       DisarmAndIndex, MarkNotRun, CountLine, CountLineFails, CloseSlice, rootVars
  <2> QED
    BY <2>1, IndexTyped DEF LogKept
<1> QED
  BY <1>1, <1>2

LEMMA RowsAreKept ==
  ASSUME TypeInv, RowInv, AnyStep
  PROVE  RowsKept
<1> USE IndexTyped DEF RowsKept, RowInv
<1>1. CASE ArmStep
  <2>1. \A r \in 1..Len(index) : index[r].seq # cursor'
    BY <1>1 DEF ArmStep, CurrentPhases
  <2> QED
    BY <1>1, <2>1 DEF ArmStep, Arm, indexVars, TypeInv, TypeOK, WriterTypeOK
<1>2. CASE MarkStep
  <2>1. \A r \in 1..Len(index) : index[r].seq # cursor'
    BY <1>2 DEF MarkStep
  <2>2. \A r \in 1..Len(index) : slices'[index[r].seq] = slices[index[r].seq]
    BY <1>2, <2>1 DEF MarkStep, MarkNotRun, TypeInv, TypeOK, WriterTypeOK
  <2>3. PICK row : index' = Append(index, row)
    BY <1>2 DEF MarkStep, MarkNotRun
  <2> QED
    BY <2>2, <2>3 DEF TypeInv, TypeOK, WriterTypeOK
<1>3. CASE DisarmStep
  <2>1. PICK row : index' = Append(index, row)
    BY <1>3 DEF DisarmStep, DisarmAndIndex
  <2>2. slices' = slices
    BY <1>3 DEF DisarmStep, DisarmAndIndex
  <2> QED
    BY <2>1, <2>2 DEF TypeInv, TypeOK, WriterTypeOK
<1>4. CASE CountStep
  <2>1. \A p \in Positions : p # sliceFp => slices'[p] = slices[p]
    BY <1>4 DEF CountStep, CountLine, TypeInv, TypeOK, WriterTypeOK
  <2>2. index' = index
    BY <1>4 DEF CountStep, CountLine, indexVars
  <2> QED
    BY <2>1, <2>2
<1>5. CASE ~(ArmStep \/ MarkStep \/ DisarmStep \/ CountStep)
  <2>1. slices' = slices /\ index' = index
    BY <1>5 DEF AnyStep, QuietStep, AdvanceStep, ArmFailsStep, WriteStep, CountFailsStep,
       CloseStep, core, ArmFails, WriteLine, CountLineFails, CloseSlice, windowVars,
       indexVars
  <2> QED
    BY <2>1
<1> QED
  BY <1>1, <1>2, <1>3, <1>4, <1>5

-----------------------------------------------------------------------------
LEMMA LineInvStep ==
  ASSUME TypeInv, PhaseInv, LineInv, AnyStep
  PROVE  LineInv'
<1> USE IndexTyped DEF LineInv, LinesAreNumbered
<1>1. CASE WriteStep
  <2>1. PICK t \in Threads, f \in Nat : WriteLine(t, f)
    BY <1>1 DEF WriteStep
  <2> DEFINE line == [seq |-> frameSeq, frame |-> f, cap |-> active]
  <2>2. /\ log' = Append(log, line) /\ lock = "free" /\ lock' # "free"
        /\ frameSeq' = frameSeq /\ active' = active
    BY <2>1 DEF WriteLine, windowVars, Threads
  <2>3. line.seq = frameSeq /\ line.cap = active
    OBVIOUS
  <2> HIDE DEF line
  <2>4. Len(log') = Len(log) + 1 /\ log'[Len(log) + 1] = line
        /\ \A i \in 1..Len(log) : log'[i] = log[i]
    <3>1. log \in Seq(Line)
      BY DEF TypeInv, TypeOK, WriterTypeOK
    <3> QED
      BY <2>2, <3>1
  <2>5. Len(log') = frameSeq' + 1 /\ log'[Len(log')].cap = active'
    BY <2>2, <2>3, <2>4
  <2>6. \A i \in 1..Len(log') : log'[i].seq = i - 1
    BY <2>2, <2>3, <2>4
  <2> QED
    BY <2>2, <2>5, <2>6
<1>2. CASE CountStep
  BY <1>2 DEF CountStep, CountLine, Threads
<1>3. CASE CountFailsStep
  BY <1>3 DEF CountFailsStep, CountLineFails
<1>4. CASE ~(WriteStep \/ CountStep \/ CountFailsStep)
  <2>1. log' = log /\ frameSeq' = frameSeq /\ lock' = lock
    BY <1>4 DEF AnyStep, QuietStep, AdvanceStep, ArmStep, ArmFailsStep, DisarmStep,
       MarkStep, CloseStep, core, Arm, ArmFails, DisarmAndIndex, MarkNotRun, CloseSlice,
       rootVars
  <2>2. lock = "free" \/ active' = active
    BY <1>4 DEF AnyStep, QuietStep, AdvanceStep, ArmStep, ArmFailsStep, DisarmStep,
       MarkStep, CloseStep, core, Arm, DisarmAndIndex, MarkNotRun, CloseSlice, ArmFails
  <2> QED
    BY <2>1, <2>2
<1> QED
  BY <1>1, <1>2, <1>3, <1>4

LEMMA RowInvStep ==
  ASSUME TypeInv, PhaseInv, RowInv, AnyStep
  PROVE  RowInv'
<1> USE IndexTyped DEF RowInv
<1>1. CASE DisarmStep
  <2>1. PICK s \in Statuses : index' = Append(index, AttemptRow(cursor, s))
    BY <1>1 DEF DisarmStep, DisarmAndIndex
  <2>2. AttemptRow(cursor, s).seq = cursor
    BY DEF AttemptRow
  <2>3. sliceFp' = NoSlice /\ cursor' = cursor /\ pc' \notin CurrentPhases /\ cursor # NoSlice
    BY <1>1, CurrentPosition DEF DisarmStep, DisarmAndIndex, ForgetSlice, CurrentPhases
  <2>4. \A r \in 1..Len(index') : index'[r].seq \in Positions /\ index'[r].seq <= cursor
    BY <1>1, <2>1, <2>2, CurrentPosition
    DEF DisarmStep, CurrentPhases, TypeInv, TypeOK, WriterTypeOK
  <2> QED
    BY <2>3, <2>4
<1>2. CASE MarkStep
  <2>1. PICK row : index' = Append(index, row) /\ row.seq = cursor'
    BY <1>2 DEF MarkStep, MarkNotRun
  <2>2. sliceFp' = sliceFp /\ cursor' = cursor + 1 /\ pc' \notin CurrentPhases
    BY <1>2 DEF MarkStep, MarkNotRun, CurrentPhases
  <2>3. \A r \in 1..Len(index') : index'[r].seq <= cursor' /\ index'[r].seq # sliceFp'
    BY SMTT(30), <2>1, <2>2 DEF TypeInv, TypeOK, WriterTypeOK
  <2> QED
    BY <2>2, <2>3
<1>3. CASE ArmStep
  <2>1. index' = index /\ sliceFp' = cursor' /\ \A r \in 1..Len(index) : index[r].seq < cursor'
    BY SMTT(30), <1>3 DEF ArmStep, Arm, indexVars, CurrentPhases
  <2>2. cursor' \in Nat
    BY <1>3 DEF ArmStep
  <2> QED
    BY <2>1, <2>2
<1>4. CASE ~(DisarmStep \/ MarkStep \/ ArmStep)
  <2>1. index' = index /\ sliceFp' \in {sliceFp, NoSlice}
    BY <1>4 DEF AnyStep, QuietStep, AdvanceStep, ArmFailsStep, WriteStep, CountStep,
       CountFailsStep, CloseStep, core, ArmFails, ForgetSlice, WriteLine, CountLine,
       CountLineFails, CloseSlice, windowVars, indexVars
  <2>2. \/ cursor' = cursor /\ (pc' \in CurrentPhases => pc \in CurrentPhases)
        \/ cursor' \in {cursor, cursor + 1} /\ pc' \notin CurrentPhases
        \/ cursor' = cursor + 1
    BY <1>4 DEF AnyStep, QuietStep, AdvanceStep, ArmFailsStep, WriteStep, CountStep,
       CountFailsStep, CloseStep, CurrentPhases
  <2> QED
    BY <2>1, <2>2
<1> QED
  BY <1>1, <1>2, <1>3, <1>4

LEMMA WindowInvStep ==
  ASSUME TypeInv, PhaseInv, LineInv, WindowInv, AnyStep
  PROVE  WindowInv'
<1> USE IndexTyped DEF WindowInv
<1>l. LogKept
  BY LogIsKept
<1>1. CASE QuietStep \/ AdvanceStep
  BY <1>1 DEF QuietStep, AdvanceStep, core, WalkPhases
<1>2. CASE ArmStep
  <2>1. /\ active' = Walk[cursor'] /\ sliceFp' = cursor' /\ capStart' = frameSeq
        /\ capCount' = 0 /\ frameSeq' = frameSeq /\ slices'[cursor'] = <<>>
    BY <1>2 DEF ArmStep, Arm, rootVars, TypeInv, TypeOK, WriterTypeOK
  <2> QED
    BY <2>1
<1>3. CASE ArmFailsStep \/ DisarmStep \/ CloseStep
  BY <1>3 DEF ArmFailsStep, ArmFails, DisarmStep, DisarmAndIndex, CloseStep, CloseSlice,
     ForgetSlice
<1>4. CASE MarkStep
  BY <1>4 DEF MarkStep, WalkPhases
<1>5. CASE WriteStep
  <2>1. UNCHANGED <<pc, rpc, frameSeq, active, sliceFp, capStart, capCount, slices>>
        /\ lock = "free"
    BY <1>5 DEF WriteStep, WriteLine, windowVars
  <2>2. Len(log) = frameSeq
    BY <2>1 DEF LineInv
  <2> SUFFICES ASSUME pc \in WalkPhases, sliceFp # NoSlice
               PROVE  \A i \in 1..capCount : /\ slices[sliceFp][i] = log'[capStart + i]
                                             /\ log'[capStart + i].cap = Walk[sliceFp]
    BY <2>1
  <2>3. capStart \in Nat /\ capStart + capCount <= Len(log)
    BY <2>2
  <2>4. \A i \in 1..capCount : log'[capStart + i] = log[capStart + i]
    <3> SUFFICES ASSUME NEW i \in 1..capCount
                 PROVE  log'[capStart + i] = log[capStart + i]
      OBVIOUS
    <3>1. capStart + i \in 1..Len(log)
      BY <2>3
    <3> QED
      BY <1>l, <3>1 DEF LogKept
  <2> QED
    BY <2>4
<1>6. CASE CountStep
  <2> SUFFICES ASSUME pc \in WalkPhases, sliceFp # NoSlice PROVE WindowInv'
    BY <1>6 DEF CountStep, CountLine
  <2>1. lock = "reader" /\ rpc # "dead"
    BY <1>6 DEF CountStep, CountLine, PhaseInv, WalkPhases
  <2>2. /\ active = Walk[sliceFp] /\ capStart \in Nat /\ capStart + capCount = frameSeq
        /\ capCount = Len(slices[sliceFp])
    BY <2>1
  <2>3. active # NoCap /\ sliceFp \in Positions
    BY <2>2, WalkType DEF TypeInv, TypeOK, WriterTypeOK
  <2>4. /\ slices' = [slices EXCEPT ![sliceFp] = Append(@, log[Len(log)])]
        /\ capCount' = capCount + 1 /\ frameSeq' = frameSeq + 1
        /\ UNCHANGED <<log, active, sliceFp, capStart, pc, rpc>>
    BY <1>6, <2>3 DEF CountStep, CountLine
  <2>5. slices'[sliceFp] = Append(slices[sliceFp], log[Len(log)])
    BY <2>3, <2>4 DEF TypeInv, TypeOK, WriterTypeOK
  <2>6. /\ Len(slices'[sliceFp]) = capCount + 1
        /\ slices'[sliceFp][capCount + 1] = log[Len(log)]
        /\ \A i \in 1..capCount : slices'[sliceFp][i] = slices[sliceFp][i]
    BY <2>2, <2>3, <2>5
  <2>7. Len(log) = capStart + capCount + 1 /\ log[Len(log)].cap = Walk[sliceFp]
    BY <2>1, <2>2 DEF LineInv
  <2>8. \A i \in 1..capCount + 1 : /\ slices'[sliceFp][i] = log[capStart + i]
                                   /\ log[capStart + i].cap = Walk[sliceFp]
    <3> SUFFICES ASSUME NEW i \in 1..capCount + 1
                 PROVE  /\ slices'[sliceFp][i] = log[capStart + i]
                        /\ log[capStart + i].cap = Walk[sliceFp]
      OBVIOUS
    <3>1. CASE i = capCount + 1
      BY <2>2, <2>6, <2>7, <3>1
    <3>2. CASE i \in 1..capCount
      BY <2>6, <3>2
    <3> QED
      BY <3>1, <3>2
  <2> QED
    BY SMTT(30), <2>2, <2>4, <2>6, <2>8
<1>7. CASE CountFailsStep
  BY <1>7 DEF CountFailsStep, CountLineFails, windowVars
<1> QED
  BY <1>1, <1>2, <1>3, <1>4, <1>5, <1>6, <1>7 DEF AnyStep

(* A row goes on matching while the log only grows and its slice is kept.  *)
LEMMA RowMatchKept ==
  ASSUME TypeInv, NEW row \in Row, RowMatches(row), LogKept,
         slices'[row.seq] = slices[row.seq]
  PROVE  RowMatches(row)'
<1> SUFFICES ASSUME row.start # Nothing
             PROVE  /\ row.frames = Len(slices'[row.seq])
                    /\ row.end = IF row.frames = 0 THEN Nothing
                                 ELSE row.start + row.frames - 1
                    /\ row.start + row.frames <= Len(log')
                    /\ \A i \in 1..row.frames :
                          /\ slices'[row.seq][i] = log'[row.start + i]
                          /\ log'[row.start + i].cap = row.id
  BY DEF RowMatches
<1>1. row.start \in Nat /\ row.frames \in Nat /\ Len(log) \in Nat /\ Len(log') >= Len(log)
  BY IndexTyped DEF Row, LogKept
<1>2. /\ row.frames = Len(slices[row.seq]) /\ row.start + row.frames <= Len(log)
      /\ row.end = IF row.frames = 0 THEN Nothing ELSE row.start + row.frames - 1
      /\ \A i \in 1..row.frames : /\ slices[row.seq][i] = log[row.start + i]
                                  /\ log[row.start + i].cap = row.id
  BY DEF RowMatches
<1>3. \A i \in 1..row.frames : log'[row.start + i] = log[row.start + i]
  <2> SUFFICES ASSUME NEW i \in 1..row.frames
               PROVE  log'[row.start + i] = log[row.start + i]
    OBVIOUS
  <2>1. row.start + i \in 1..Len(log)
    BY <1>1, <1>2
  <2> QED
    BY <2>1 DEF LogKept
<1>4. row.start + row.frames <= Len(log')
  BY <1>1, <1>2 DEF LogKept
<1> QED
  BY <1>2, <1>3, <1>4

LEMMA RowsMatchStep ==
  ASSUME TypeInv, PhaseInv, LineInv, WindowInv, RowInv, RowsMatchLog, AnyStep
  PROVE  RowsMatchLog'
<1> USE IndexTyped
<1>l. LogKept /\ RowsKept
  BY LogIsKept, RowsAreKept
<1>1. ASSUME NEW r \in 1..Len(index)
      PROVE  RowMatches(index[r])'
  <2>1. PICK row \in Row : row = index[r]
    OBVIOUS
  <2>2. RowMatches(row) /\ index'[r] = row /\ slices'[row.seq] = slices[row.seq]
    BY <1>l, <2>1 DEF RowsMatchLog, RowsKept
  <2>3. RowMatches(row)'
    BY <1>l, <2>2, RowMatchKept
  <2> QED
    BY <2>2, <2>3 DEF RowMatches
<1>2. CASE DisarmStep
  <2>1. PICK s \in Statuses : DisarmAndIndex(cursor, s)
    BY <1>2 DEF DisarmStep
  <2>2. PICK row : row = AttemptRow(cursor, s)
    OBVIOUS
  <2>3. /\ row.seq = cursor /\ row.id = Walk[cursor] /\ row.frames = capCount
        /\ row.start = capStart /\ row.end = WindowEnd
    BY <2>2 DEF AttemptRow
  <2>4. index' = Append(index, row) /\ UNCHANGED <<log, slices>> /\ lock = "free"
    BY <2>1, <2>2 DEF DisarmAndIndex, rootVars
  <2>5. /\ sliceFp = cursor /\ cursor # NoSlice /\ capStart \in Nat
        /\ capCount = Len(slices[cursor]) /\ capStart + capCount <= Len(log)
        /\ \A i \in 1..capCount : /\ slices[cursor][i] = log[capStart + i]
                                  /\ log[capStart + i].cap = Walk[cursor]
    BY <1>2, <2>4, CurrentPosition DEF DisarmStep, PhaseInv, WindowInv, LineInv,
       WalkPhases, CurrentPhases
  <2>6. row.end = IF capCount = 0 THEN Nothing ELSE capStart + capCount - 1
    BY <2>3, <2>5 DEF WindowEnd
  <2>7. RowMatches(row)
    BY <2>3, <2>5, <2>6 DEF RowMatches
  <2>8. RowMatches(row)'
    BY <2>4, <2>7 DEF RowMatches
  <2>9. Len(index') = Len(index) + 1 /\ index'[Len(index) + 1] = row
    BY <2>4 DEF TypeInv, TypeOK, WriterTypeOK
  <2> QED
    <3> SUFFICES ASSUME NEW r \in 1..Len(index') PROVE RowMatches(index[r])'
      BY DEF RowsMatchLog
    <3>1. CASE r \in 1..Len(index)
      BY <1>1, <3>1
    <3>2. CASE r = Len(index')
      BY <2>8, <2>9, <3>2 DEF RowMatches
    <3> QED
      BY <2>9, <3>1, <3>2
<1>3. CASE MarkStep
  <2>1. PICK row : index' = Append(index, row) /\ row.start = Nothing
    BY <1>3 DEF MarkStep, MarkNotRun
  <2> QED
    BY SMTT(30), <1>1, <1>l, <2>1 DEF RowsMatchLog, RowsKept, RowMatches, TypeInv, TypeOK,
       WriterTypeOK
<1>4. CASE ~(DisarmStep \/ MarkStep)
  <2>1. index' = index
    BY <1>4 DEF AnyStep, QuietStep, AdvanceStep, ArmStep, ArmFailsStep, WriteStep,
       CountStep, CountFailsStep, CloseStep, core, Arm, ArmFails, WriteLine, CountLine,
       CountLineFails, CloseSlice, indexVars
  <2> QED
    BY <1>1, <2>1 DEF RowsMatchLog
<1> QED
  BY <1>2, <1>3, <1>4

LEMMA SessionInvStep == SessionInv /\ [Next]_vars => SessionInv'
<1> SUFFICES ASSUME SessionInv, [Next]_vars PROVE SessionInv'
  OBVIOUS
<1> USE DEF SessionInv
<1>1. TypeInv' /\ PhaseInv' /\ AnyStep
  BY TypeInvStep, PhaseInvStep, StepKinds
<1>2. LineInv' /\ RowInv'
  BY <1>1, LineInvStep, RowInvStep
<1>3. WindowInv' /\ RowsMatchLog'
  BY <1>1, WindowInvStep, RowsMatchStep
<1> QED
  BY <1>1, <1>2, <1>3

LEMMA SessionInvHolds == Spec => []SessionInv
  BY InitSessionInv, SessionInvStep, PTL DEF Spec

-----------------------------------------------------------------------------
\* Every index row counts the lines of its window's slice file, and the slice
\* is the row's frame range of the root log, tagged with its capability: for
\* every catalog, every bus, and every fault the model has.
THEOREM RowsMatch == Spec => []RowsMatchLog
  BY SessionInvHolds, PTL DEF SessionInv

\* The number on a root line is its place in frames.ndjson, although two
\* threads write lines and a line may be counted whose slice write failed.
THEOREM Numbered == Spec => []LinesAreNumbered
  BY SessionInvHolds, PTL DEF SessionInv, LineInv

\* A row of the index and the slice file it describes never change again.
THEOREM RowsFinal == Spec => RowsAreFinal
<1>1. SessionInv /\ [Next]_vars => [RowsKept]_vars
  BY StepKinds, RowsAreKept DEF SessionInv
<1> QED
  BY <1>1, SessionInvHolds, PTL DEF Spec, RowsAreFinal, RowsKept

=============================================================================
