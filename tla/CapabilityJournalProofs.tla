----------------------- MODULE CapabilityJournalProofs -----------------------
(***************************************************************************)
(* What a capability session leaves behind, for every catalog, bus and     *)
(* fault set.  How it ends: the saved index covers the walk, the reader    *)
(* lives until it is told to stop, the root log follows the raw one, and   *)
(* nothing that was read is lost when the reader could be joined.  And the *)
(* journal: it keeps that of CapabilityLog, for every bus, every catalog   *)
(* without a repeated id and every fault except a failing write, which     *)
(* leaves a row one frame short.                                           *)
(***************************************************************************)
EXTENDS CapabilitySessionProofs, RecursionProofs, FiniteSetTheorems

-----------------------------------------------------------------------------
(* The reader.                                                             *)

(* The root files are closed only after the reader was told to stop.       *)
StopInv ==
    /\ pc \in ClosingSteps \ {"STOP"} => stop
    /\ ~rawFp \/ ~framesFp => pc \in ClosingSteps \ {"STOP"}
    /\ "disk" \notin Faults => ReaderOutlivesWalk

LEMMA InitStopInv == Init => StopInv
BY DEF Init, OpenWriter, StopInv, ReaderOutlivesWalk, ClosingSteps

LEMMA StopInvStep ==
  ASSUME TypeInv, PhaseInv, StopInv, [Next]_vars
  PROVE  StopInv'
<1> USE DEF StopInv, ReaderOutlivesWalk, ClosingSteps
<1>1. CASE Start
  BY <1>1 DEF Start, Move, Goto, writerVars, rootVars, windowVars, indexVars, walkVars,
     endVars, linkVars, readerVars, framerVars
<1>2. CASE SelectEnd
  BY <1>2 DEF SelectEnd, Move, Goto, writerVars, rootVars, windowVars, indexVars,
     walkVars, endVars, linkVars, readerVars, framerVars
<1>3. CASE ReaderStarted
  BY <1>3 DEF ReaderStarted, Move, Goto, AfterArm, writerVars, rootVars, windowVars,
     indexVars, walkVars, endVars, linkVars, readerVars, framerVars
<1>4. CASE JoinTimeout
  BY <1>4 DEF JoinTimeout, Move, Goto, writerVars, rootVars, windowVars, indexVars,
     walkVars, endVars, linkVars, readerVars, framerVars
<1>5. CASE FlushDone
  BY <1>5 DEF FlushDone, Move, Goto, writerVars, rootVars, windowVars, indexVars,
     walkVars, endVars, linkVars, readerVars, framerVars
<1>6. CASE MarkDone
  BY <1>6 DEF MarkDone, Move, Goto, writerVars, rootVars, windowVars, indexVars,
     walkVars, endVars, linkVars, readerVars, framerVars
<1>7. CASE OpenRaises
  BY <1>7 DEF OpenRaises, Raise, Goto, writerVars, rootVars, windowVars, indexVars,
     walkVars, endVars, linkVars, readerVars, framerVars
<1>8. CASE Interrupt
  BY <1>8 DEF Interrupt, Raise, Goto, writerVars, rootVars, windowVars, indexVars,
     walkVars, endVars, linkVars, readerVars, framerVars
<1>9. CASE InterruptJoin
  BY <1>9 DEF InterruptJoin, Goto, writerVars, rootVars, windowVars, indexVars,
     walkVars, endVars, linkVars, readerVars, framerVars
<1>10. CASE ShutdownFails
  BY <1>10 DEF ShutdownFails, Goto, writerVars, rootVars, windowVars, indexVars,
     walkVars, endVars, linkVars, readerVars, framerVars
<1>11. CASE StopReader
  BY <1>11 DEF StopReader, Goto, writerVars, rootVars, windowVars, indexVars, walkVars,
     endVars, linkVars, readerVars, framerVars
<1>12. CASE JoinReader
  BY <1>12 DEF JoinReader, Goto, writerVars, rootVars, windowVars, indexVars, walkVars,
     endVars, linkVars, readerVars, framerVars
<1>13. CASE CloseLink
  BY <1>13 DEF CloseLink, Goto, writerVars, rootVars, windowVars, indexVars, walkVars,
     endVars, linkVars, readerVars, framerVars
<1>14. CASE Flush
  BY <1>14 DEF Flush, Goto, writerVars, rootVars, windowVars, indexVars, walkVars,
     endVars, linkVars, readerVars, framerVars
<1>15. CASE SelectNext
  BY <1>15 DEF SelectNext, Goto, writerVars, rootVars, windowVars, indexVars, walkVars,
     endVars, linkVars, readerVars, framerVars
<1>16. CASE EnsureReader
  BY <1>16 DEF EnsureReader, Goto, AfterArm, writerVars, rootVars, windowVars,
     indexVars, walkVars, endVars, linkVars, readerVars, framerVars
<1>17. CASE SelectSkipped
  BY <1>17 DEF SelectSkipped, Arm, Goto, writerVars, rootVars, windowVars, indexVars,
     walkVars, endVars, linkVars, readerVars, framerVars
<1>18. CASE PromptArms
  BY <1>18 DEF PromptArms, Arm, Goto, writerVars, rootVars, windowVars, indexVars,
     walkVars, endVars, linkVars, readerVars, framerVars
<1>19. CASE PromptKey("not_run", TRUE)
  BY <1>19 DEF PromptKey, Arm, Goto, writerVars, rootVars, windowVars, indexVars,
     walkVars, endVars, linkVars, readerVars, framerVars
<1>20. CASE \E s \in {"done", "skipped", NoStatus} : PromptKey(s, FALSE)
  BY <1>20 DEF PromptKey, Arm, Goto, writerVars, rootVars, windowVars, indexVars,
     walkVars, endVars, linkVars, readerVars, framerVars
<1>21. CASE \E s \in {"done", "skipped"}, q \in BOOLEAN : RecordingKey(s, q)
  BY <1>21 DEF RecordingKey, Goto, writerVars, rootVars, windowVars, indexVars,
     walkVars, endVars, linkVars, readerVars, framerVars
<1>22. CASE ArmRaises
  BY <1>22 DEF ArmRaises, ArmFails, ForgetSlice, Raise, Goto, writerVars, rootVars,
     windowVars, indexVars, walkVars, endVars, linkVars, readerVars, framerVars
<1>23. CASE Finalize
  BY <1>23 DEF Finalize, DisarmAndIndex, ForgetSlice, Goto, writerVars, rootVars,
     windowVars, indexVars, walkVars, endVars, linkVars, readerVars, framerVars
<1>24. CASE MarkRemaining
  BY <1>24 DEF MarkRemaining, MarkNotRun, writerVars, rootVars, windowVars, indexVars,
     walkVars, endVars, linkVars, readerVars, framerVars
<1>25. CASE CloseWriter
  BY <1>25 DEF CloseWriter, Goto, CloseSlice, ForgetSlice, WriteIndex, CloseRaw,
     CloseFrames, WriteMeta, writerVars, rootVars, windowVars, indexVars, walkVars,
     endVars, linkVars, readerVars, framerVars
<1>26. CASE FlushWrite
  BY <1>26 DEF FlushWrite, WriteTaken, WriteLine, CountLine, mainVars, writerVars,
     rootVars, windowVars, indexVars, walkVars, endVars, linkVars, readerVars,
     framerVars
<1>27. CASE ReaderCheck
  BY <1>27 DEF ReaderCheck, mainVars, writerVars, rootVars, windowVars, indexVars,
     walkVars, endVars, linkVars, readerVars, framerVars
<1>28. CASE ReadNothing
  BY <1>28 DEF ReadNothing, mainVars, writerVars, rootVars, windowVars, indexVars,
     walkVars, endVars, linkVars, readerVars, framerVars
<1>29. CASE ReaderWritten
  BY <1>29 DEF ReaderWritten, mainVars, writerVars, rootVars, windowVars, indexVars,
     walkVars, endVars, linkVars, readerVars, framerVars
<1>30. CASE ReaderRaw
  BY <1>30 DEF ReaderRaw, WriteRaw, mainVars, writerVars, rootVars, windowVars,
     indexVars, walkVars, endVars, linkVars, readerVars, framerVars
<1>31. CASE ReaderFeed
  BY <1>31 DEF ReaderFeed, mainVars, writerVars, rootVars, windowVars, indexVars,
     walkVars, endVars, linkVars, readerVars, framerVars
<1>32. CASE ReaderDrain
  BY <1>32 DEF ReaderDrain, mainVars, writerVars, rootVars, windowVars, indexVars,
     walkVars, endVars, linkVars, readerVars, framerVars
<1>33. CASE ReaderFindsClosed
  BY <1>33 DEF ReaderFindsClosed, ReaderDies, WriterIsClosed, mainVars, writerVars,
     rootVars, windowVars, indexVars, walkVars, endVars, linkVars, readerVars,
     framerVars
<1>34. CASE \E m \in 1..MaxChunk : ReadFrames(m)
  BY <1>34 DEF ReadFrames, mainVars, writerVars, rootVars, windowVars, indexVars,
     walkVars, endVars, linkVars, readerVars, framerVars
<1>35. CASE ReaderWrite
  BY <1>35 DEF ReaderWrite, WriteTaken, WriteLine, CountLine, mainVars, writerVars,
     rootVars, windowVars, indexVars, walkVars, endVars, linkVars, readerVars,
     framerVars
<1>36. CASE ReaderDiskError
  BY <1>36 DEF ReaderDiskError, ReaderDies, CountLineFails, mainVars, writerVars,
     rootVars, windowVars, indexVars, walkVars, endVars, linkVars, readerVars,
     framerVars
<1>37. CASE UNCHANGED vars
  BY <1>37 DEF vars, mainVars, writerVars, rootVars, windowVars, indexVars, walkVars,
     endVars, linkVars, readerVars, framerVars
<1> QED
  BY <1>1, <1>2, <1>3, <1>4, <1>5, <1>6, <1>7, <1>8, <1>9, <1>10, <1>11, <1>12, <1>13,
     <1>14, <1>15, <1>16, <1>17, <1>18, <1>19, <1>20, <1>21, <1>22, <1>23, <1>24,
     <1>25, <1>26, <1>27, <1>28, <1>29, <1>30, <1>31, <1>32, <1>33, <1>34, <1>35,
     <1>36, <1>37 DEF Next, MainStep, Keys, Failures, ReaderStep, Read, Terminated

\* Unless a write fails, the reader ends only after it was told to: a bus that is
\* silent or drops its link, the closing of the writer and a time-out of the join
\* do not end it early.
THEOREM ReaderOutlives == "disk" \notin Faults => (Spec => []ReaderOutlivesWalk)
<1> SUFFICES ASSUME "disk" \notin Faults PROVE Spec => []ReaderOutlivesWalk
  OBVIOUS
<1>1. SessionInv /\ StopInv /\ [Next]_vars => StopInv'
  BY StopInvStep DEF SessionInv
<1>2. StopInv => ReaderOutlivesWalk
  BY DEF StopInv
<1> QED
  BY <1>1, <1>2, InitStopInv, SessionInvHolds, PTL DEF Spec

-----------------------------------------------------------------------------
(* The index.                                                              *)

(* Until the walk ends no row is not_run, then every row is; each position *)
(* up to the cursor has one, but for the current position or the one that  *)
(* an exception or a Ctrl-C has left.                                      *)
CoverInv ==
    /\ IndexInOrder
    /\ pc \in WalkPhases =>
          /\ ~raised /\ ~saved
          /\ pending = "not_run" => quit
          /\ \A r \in 1..Len(index) : index[r].status # "not_run"
    /\ \A r, s \in 1..Len(index) :
          r < s /\ index[r].status = "not_run" => index[s].status = "not_run"
    /\ Len(index) + (IF raised \/ pc \in CurrentPhases THEN 1 ELSE 0) >= cursor
    /\ pc \in {"CLOSE_SLICE", "WRITE_INDEX", "CLOSE_RAW", "CLOSE_FRAMES", "WRITE_META",
              "CLOSE_LINK"} \/ saved => cursor = Len(Walk)

LEMMA InitCoverInv == Init => CoverInv
<1> SUFFICES ASSUME Init PROVE CoverInv
  OBVIOUS
<1> QED
  BY WalkType, ConfigAssumption DEF Init, OpenWriter, CoverInv, IndexInOrder,
     CurrentPhases, Statuses

LEMMA CoverInvStep ==
  ASSUME TypeInv, RowInv, CoverInv, [Next]_vars
  PROVE  CoverInv'
<1> USE DEF CoverInv, IndexInOrder, RowInv, WalkPhases, ClosingSteps, CurrentPhases
<1>a. /\ Len(index) \in Nat /\ cursor \in Nat /\ Len(Walk) \in Nat
      /\ NoStatus # "not_run" /\ index \in Seq(Row)
      /\ \A r \in 1..Len(index) : index[r].seq \in Nat
  <2>1. \A r \in 1..Len(index) : index[r].seq \in Positions
    BY IndexTyped
  <2> QED
    BY <2>1, IndexTyped, WalkType, ConfigAssumption
    DEF Positions, Statuses, TypeInv, TypeOK, WriterTypeOK
<1>1. CASE Start
  BY <1>1, <1>a DEF Start, Move, Goto, writerVars, rootVars, windowVars, indexVars,
     walkVars, endVars, linkVars, readerVars, framerVars
<1>2. CASE SelectEnd
  BY <1>2, <1>a DEF SelectEnd, Move, Goto, writerVars, rootVars, windowVars, indexVars,
     walkVars, endVars, linkVars, readerVars, framerVars
<1>3. CASE ReaderStarted
  BY <1>3, <1>a DEF ReaderStarted, Move, Goto, AfterArm, writerVars, rootVars,
     windowVars, indexVars, walkVars, endVars, linkVars, readerVars, framerVars
<1>4. CASE JoinTimeout
  BY <1>4, <1>a DEF JoinTimeout, Move, Goto, writerVars, rootVars, windowVars,
     indexVars, walkVars, endVars, linkVars, readerVars, framerVars
<1>5. CASE FlushDone
  BY <1>5, <1>a DEF FlushDone, Move, Goto, writerVars, rootVars, windowVars, indexVars,
     walkVars, endVars, linkVars, readerVars, framerVars
<1>6. CASE MarkDone
  BY <1>6, <1>a DEF MarkDone, Move, Goto, writerVars, rootVars, windowVars, indexVars,
     walkVars, endVars, linkVars, readerVars, framerVars
<1>7. CASE OpenRaises
  BY <1>7, <1>a DEF OpenRaises, Raise, Goto, writerVars, rootVars, windowVars,
     indexVars, walkVars, endVars, linkVars, readerVars, framerVars
<1>8. CASE Interrupt
  BY <1>8, <1>a DEF Interrupt, Raise, Goto, writerVars, rootVars, windowVars,
     indexVars, walkVars, endVars, linkVars, readerVars, framerVars
<1>9. CASE InterruptJoin
  BY <1>9, <1>a DEF InterruptJoin, Goto, writerVars, rootVars, windowVars, indexVars,
     walkVars, endVars, linkVars, readerVars, framerVars
<1>10. CASE ShutdownFails
  BY <1>10, <1>a DEF ShutdownFails, Goto, writerVars, rootVars, windowVars, indexVars,
     walkVars, endVars, linkVars, readerVars, framerVars
<1>11. CASE StopReader
  BY <1>11, <1>a DEF StopReader, Goto, writerVars, rootVars, windowVars, indexVars,
     walkVars, endVars, linkVars, readerVars, framerVars
<1>12. CASE JoinReader
  BY <1>12, <1>a DEF JoinReader, Goto, writerVars, rootVars, windowVars, indexVars,
     walkVars, endVars, linkVars, readerVars, framerVars
<1>13. CASE CloseLink
  BY <1>13, <1>a DEF CloseLink, Goto, writerVars, rootVars, windowVars, indexVars,
     walkVars, endVars, linkVars, readerVars, framerVars
<1>14. CASE Flush
  BY <1>14, <1>a DEF Flush, Goto, writerVars, rootVars, windowVars, indexVars,
     walkVars, endVars, linkVars, readerVars, framerVars
<1>15. CASE SelectNext
  BY <1>15, <1>a DEF SelectNext, Goto, writerVars, rootVars, windowVars, indexVars,
     walkVars, endVars, linkVars, readerVars, framerVars
<1>16. CASE EnsureReader
  BY <1>16, <1>a DEF EnsureReader, Goto, AfterArm, writerVars, rootVars, windowVars,
     indexVars, walkVars, endVars, linkVars, readerVars, framerVars
<1>17. CASE SelectSkipped
  BY <1>17, <1>a DEF SelectSkipped, Arm, Goto, writerVars, rootVars, windowVars,
     indexVars, walkVars, endVars, linkVars, readerVars, framerVars
<1>18. CASE PromptArms
  BY <1>18, <1>a DEF PromptArms, Arm, Goto, writerVars, rootVars, windowVars,
     indexVars, walkVars, endVars, linkVars, readerVars, framerVars
<1>19. CASE PromptKey("not_run", TRUE)
  BY <1>19, <1>a DEF PromptKey, Arm, Goto, writerVars, rootVars, windowVars, indexVars,
     walkVars, endVars, linkVars, readerVars, framerVars
<1>20. CASE \E s \in {"done", "skipped", NoStatus} : PromptKey(s, FALSE)
  BY <1>20, <1>a DEF PromptKey, Arm, Goto, writerVars, rootVars, windowVars, indexVars,
     walkVars, endVars, linkVars, readerVars, framerVars
<1>21. CASE \E s \in {"done", "skipped"}, q \in BOOLEAN : RecordingKey(s, q)
  BY <1>21, <1>a DEF RecordingKey, Goto, writerVars, rootVars, windowVars, indexVars,
     walkVars, endVars, linkVars, readerVars, framerVars
<1>22. CASE ArmRaises
  BY <1>22, <1>a DEF ArmRaises, ArmFails, ForgetSlice, Raise, Goto, writerVars,
     rootVars, windowVars, indexVars, walkVars, endVars, linkVars, readerVars,
     framerVars
<1>23. CASE Finalize
  <2>1. index' = Append(index, AttemptRow(cursor, IF pending = NoStatus THEN "skipped" ELSE pending))
    BY <1>23 DEF Finalize, DisarmAndIndex
  <2>2. PICK row : /\ index' = Append(index, row) /\ row.seq = cursor
                   /\ row.status = IF pending = NoStatus THEN "skipped" ELSE pending
    BY <2>1 DEF AttemptRow
  <2>3. /\ cursor' = cursor /\ raised' = raised /\ saved' = saved /\ pending' = NoStatus
        /\ pc = "FINALIZE" /\ pc' = IF quit THEN "STOP" ELSE "SELECT_NEXT"
    BY <1>23 DEF Finalize, DisarmAndIndex, Goto, endVars
  <2>4. /\ Len(index') = Len(index) + 1 /\ index'[Len(index')] = row
        /\ \A r \in 1..Len(index) : index'[r] = index[r]
    BY <2>2, <1>a
  <2>5. IndexInOrder'
    BY <2>2, <2>3, <2>4 DEF IndexInOrder
  <2>6. \A r \in 1..Len(index') : r \in 1..Len(index) \/ r = Len(index')
    BY <2>4, <1>a
  <2>7. \A r \in 1..Len(index) : index'[r].status # "not_run"
    BY <2>3, <2>4
  <2>8. row.status = "not_run" => quit
    BY <2>2, <2>3
  <2>9. \A r, s \in 1..Len(index') :
           r < s /\ index'[r].status = "not_run" => index'[s].status = "not_run"
    BY <2>4, <2>6, <2>7, <1>a
  <2>10. pc' \in WalkPhases => /\ ~raised' /\ ~saved' /\ pending' # "not_run"
                              /\ \A r \in 1..Len(index') : index'[r].status # "not_run"
    BY <2>3, <2>4, <2>6, <2>7, <2>8, <1>a
  <2> QED
    BY <2>3, <2>4, <2>5, <2>9, <2>10, <1>a
<1>24. CASE MarkRemaining
  <2>1. PICK row : /\ index' = Append(index, row) /\ row.seq = cursor + 1
                   /\ row.status = "not_run"
    BY <1>24 DEF MarkRemaining, MarkNotRun
  <2>2. /\ cursor' = cursor + 1 /\ raised' = raised /\ saved' = saved
        /\ pending' = pending /\ pc = "MARK" /\ pc' = "MARK" /\ cursor < Len(Walk)
    BY <1>24 DEF MarkRemaining, MarkNotRun, endVars
  <2>3. /\ Len(index') = Len(index) + 1 /\ index'[Len(index')] = row
        /\ \A r \in 1..Len(index) : index'[r] = index[r]
    BY <2>1, <1>a
  <2>4. \A r \in 1..Len(index') : r \in 1..Len(index) \/ r = Len(index')
    BY <2>3, <1>a
  <2>5. \A r \in 1..Len(index) : index[r].seq < row.seq
    BY <2>1, <1>a
  <2>6. IndexInOrder'
    <3> SUFFICES ASSUME NEW r \in 1..Len(index') - 1
                 PROVE  index'[r].seq < index'[r + 1].seq
      BY DEF IndexInOrder
    <3>1. CASE r = Len(index)
      BY <3>1, <2>3, <2>5, <1>a
    <3>2. CASE r # Len(index)
      BY <3>2, <2>3, <1>a
    <3> QED
      BY <3>1, <3>2
  <2>7. \A r, s \in 1..Len(index') :
           r < s /\ index'[r].status = "not_run" => index'[s].status = "not_run"
    BY <2>1, <2>3, <2>4, <1>a
  <2> QED
    BY <2>2, <2>3, <2>6, <2>7, <1>a
<1>25. CASE CloseWriter
  BY <1>25, <1>a DEF CloseWriter, Goto, CloseSlice, ForgetSlice, WriteIndex, CloseRaw,
     CloseFrames, WriteMeta, writerVars, rootVars, windowVars, indexVars, walkVars,
     endVars, linkVars, readerVars, framerVars
<1>26. CASE FlushWrite
  BY <1>26, <1>a DEF FlushWrite, WriteTaken, WriteLine, CountLine, mainVars,
     writerVars, rootVars, windowVars, indexVars, walkVars, endVars, linkVars,
     readerVars, framerVars
<1>27. CASE ReaderCheck
  BY <1>27, <1>a DEF ReaderCheck, mainVars, writerVars, rootVars, windowVars,
     indexVars, walkVars, endVars, linkVars, readerVars, framerVars
<1>28. CASE ReadNothing
  BY <1>28, <1>a DEF ReadNothing, mainVars, writerVars, rootVars, windowVars,
     indexVars, walkVars, endVars, linkVars, readerVars, framerVars
<1>29. CASE ReaderWritten
  BY <1>29, <1>a DEF ReaderWritten, mainVars, writerVars, rootVars, windowVars,
     indexVars, walkVars, endVars, linkVars, readerVars, framerVars
<1>30. CASE ReaderRaw
  BY <1>30, <1>a DEF ReaderRaw, WriteRaw, mainVars, writerVars, rootVars, windowVars,
     indexVars, walkVars, endVars, linkVars, readerVars, framerVars
<1>31. CASE ReaderFeed
  BY <1>31, <1>a DEF ReaderFeed, mainVars, writerVars, rootVars, windowVars, indexVars,
     walkVars, endVars, linkVars, readerVars, framerVars
<1>32. CASE ReaderDrain
  BY <1>32, <1>a DEF ReaderDrain, mainVars, writerVars, rootVars, windowVars,
     indexVars, walkVars, endVars, linkVars, readerVars, framerVars
<1>33. CASE ReaderFindsClosed
  BY <1>33, <1>a DEF ReaderFindsClosed, ReaderDies, WriterIsClosed, mainVars,
     writerVars, rootVars, windowVars, indexVars, walkVars, endVars, linkVars,
     readerVars, framerVars
<1>34. CASE \E m \in 1..MaxChunk : ReadFrames(m)
  BY <1>34, <1>a DEF ReadFrames, mainVars, writerVars, rootVars, windowVars, indexVars,
     walkVars, endVars, linkVars, readerVars, framerVars
<1>35. CASE ReaderWrite
  BY <1>35, <1>a DEF ReaderWrite, WriteTaken, WriteLine, CountLine, mainVars,
     writerVars, rootVars, windowVars, indexVars, walkVars, endVars, linkVars,
     readerVars, framerVars
<1>36. CASE ReaderDiskError
  BY <1>36, <1>a DEF ReaderDiskError, ReaderDies, CountLineFails, mainVars, writerVars,
     rootVars, windowVars, indexVars, walkVars, endVars, linkVars, readerVars,
     framerVars
<1>37. CASE UNCHANGED vars
  BY <1>37, <1>a DEF vars, mainVars, writerVars, rootVars, windowVars, indexVars,
     walkVars, endVars, linkVars, readerVars, framerVars
<1> QED
  BY <1>1, <1>2, <1>3, <1>4, <1>5, <1>6, <1>7, <1>8, <1>9, <1>10, <1>11, <1>12, <1>13,
     <1>14, <1>15, <1>16, <1>17, <1>18, <1>19, <1>20, <1>21, <1>22, <1>23, <1>24,
     <1>25, <1>26, <1>27, <1>28, <1>29, <1>30, <1>31, <1>32, <1>33, <1>34, <1>35,
     <1>36, <1>37 DEF Next, MainStep, Keys, Failures, ReaderStep, Read, Terminated

\* A saved index has the positions of the walk in order, misses one at most, and
\* none if the walk was not broken off, and its not_run rows are the last ones.
THEOREM IndexCovers == Spec => []IndexCoversWalk
<1>1. SessionInv /\ CoverInv /\ [Next]_vars => CoverInv'
  BY CoverInvStep DEF SessionInv
<1>2. SessionInv /\ CoverInv => IndexCoversWalk
  <2> SUFFICES ASSUME SessionInv, CoverInv, saved PROVE IndexCoversWalk
    BY DEF IndexCoversWalk
  <2>1. Len(index) \in Nat /\ Len(Walk) \in Nat /\ cursor = Len(Walk) /\ pc \notin WalkPhases
    BY IndexTyped, WalkType DEF SessionInv, CoverInv
  <2>2. Len(index) >= Len(Walk) - (IF raised THEN 1 ELSE 0)
    BY <2>1 DEF CoverInv, CurrentPhases, WalkPhases
  <2> QED
    BY <2>2 DEF CoverInv, IndexCoversWalk
<1> QED
  BY <1>1, <1>2, InitCoverInv, SessionInvHolds, PTL DEF Spec


-----------------------------------------------------------------------------
(* The order of the frames.                                                *)

(* The root files are open, and the join is still to come, until the walk  *)
(* is over; a reader that was joined is gone; meta.json has the count.     *)
EndInv ==
    /\ pc \in WalkPhases \union {"STOP"} => ~stop
    /\ pc \in WalkPhases \union {"STOP", "JOIN"} => ~joined /\ rawFp /\ framesFp
    /\ joined => rpc \in {"off", "dead"}
    /\ link = "closed" => pc = "DONE"
    /\ joined /\ (pc = "CLOSE_LINK" \/ link = "closed") => metaFrames = frameSeq

(* raw.ndjson is the bus as far as it was read, but for the chunk that is  *)
(* about to be written to it.                                              *)
RawInv ==
    /\ \A i \in 1..Len(raw) : raw[i] = i
    /\ rpc = "raw" => /\ nextFrame = Len(raw) + Len(chunk) + 1
                      /\ \A i \in 1..Len(chunk) : chunk[i] = Len(raw) + i
    /\ rpc \notin {"raw", "dead"} => nextFrame = Len(raw) + 1
    /\ rpc = "dead" /\ ~TimedOut /\ "disk" \notin Faults => nextFrame = Len(raw) + 1

(* Only the reader is in the framer, and it leaves the framer empty.       *)
Alone ==
    /\ taken["main"] = <<>> /\ copy["main"] = NoFrame
    /\ rpc # "drain" => fbuf = <<>> /\ copy["reader"] = NoFrame
    /\ rpc \notin {"drain", "write"} => taken["reader"] = <<>>
    /\ copy["reader"] # NoFrame => fbuf # <<>> /\ copy["reader"] = Head(fbuf)

(* The frames on their way to the log continue it.                         *)
InOrder ==
    /\ \A i \in 1..Len(log) : log[i].frame = i
    /\ \A i \in 1..Len(taken["reader"]) : taken["reader"][i] = Len(log) + i
    /\ \A i \in 1..Len(fbuf) : fbuf[i] = Len(log) + Len(taken["reader"]) + i
    /\ rpc = "feed" => \A i \in 1..Len(chunk) : chunk[i] = Len(log) + i

(* They are the ones that raw.ndjson has and the log has not.              *)
Accounted ==
    /\ rpc = "dead" => Len(log) <= Len(raw) /\ ("disk" \notin Faults => Len(log) = Len(raw))
    /\ rpc \notin {"dead", "feed"} => Len(raw) = Len(log) + Len(taken["reader"]) + Len(fbuf)
    /\ rpc = "feed" => Len(raw) = Len(log) + Len(chunk)

PipeInv == TimedOut \/ (Alone /\ InOrder /\ Accounted)

OrderInv == EndInv /\ RawInv /\ PipeInv

LEMMA InitOrderInv == Init => OrderInv
<1> SUFFICES ASSUME Init PROVE OrderInv
  OBVIOUS
<1>1. EndInv
  BY DEF Init, OpenWriter, EndInv, WalkPhases
<1>2. RawInv
  BY DEF Init, OpenWriter, RawInv
<1>3. Alone /\ InOrder /\ Accounted
  BY DEF Init, OpenWriter, Alone, InOrder, Accounted, Threads, NoFrame
<1> QED
  BY <1>1, <1>2, <1>3 DEF OrderInv, PipeInv

(* The steps as the frames see them.                                       *)
flow == <<raw, log, rpc, chunk, nextFrame, fbuf, copy, taken>>

StartsReader ==
    /\ rpc = "off" /\ rpc' = "loop" /\ fbuf' = <<>>
    /\ UNCHANGED <<raw, log, chunk, nextFrame, copy, taken>>

FlowStep ==
    \/ UNCHANGED flow
    \/ StartsReader
    \/ pc = "FLUSH" /\ Flush
    \/ pc = "FLUSH_WRITE" /\ FlushWrite
    \/ ReaderStep \/ Read \/ ReaderDiskError

LEMMA FlowSteps ==
  ASSUME TypeInv, PhaseInv, EndInv, [Next]_vars
  PROVE  EndInv' /\ (TimedOut => TimedOut') /\ FlowStep
<1> USE DEF EndInv, TimedOut, FlowStep, ClosingSteps, WalkPhases, flow,
            Goto, writerVars, rootVars, windowVars, indexVars, mainVars, walkVars, endVars,
            linkVars, framerVars, readerVars
<1>1. CASE Start \/ SelectEnd \/ ReaderStarted \/ JoinTimeout \/ FlushDone \/ MarkDone
  BY <1>1 DEF Start, SelectEnd, ReaderStarted, AfterArm, JoinTimeout, FlushDone, MarkDone, Move
<1>2. CASE OpenRaises \/ Interrupt \/ InterruptJoin \/ ShutdownFails
  BY <1>2 DEF OpenRaises, Interrupt, InterruptJoin, ShutdownFails, Raise
<1>3. CASE StopReader \/ JoinReader \/ CloseLink \/ SelectNext
  BY <1>3 DEF StopReader, JoinReader, CloseLink, SelectNext
<1>4. CASE EnsureReader
  BY <1>4 DEF EnsureReader, StartsReader, AfterArm, PhaseInv
<1>5. CASE SelectSkipped \/ PromptArms
  BY <1>5 DEF SelectSkipped, PromptArms, Arm
<1>6. CASE \E s \in Statuses \union {NoStatus}, q \in BOOLEAN :
              PromptKey(s, q) \/ RecordingKey(s, q)
  BY <1>6 DEF PromptKey, RecordingKey, Arm
<1>7. CASE ArmRaises
  BY <1>7 DEF ArmRaises, ArmFails, ForgetSlice, Raise
<1>8. CASE Finalize
  BY <1>8 DEF Finalize, DisarmAndIndex, ForgetSlice
<1>9. CASE MarkRemaining
  BY <1>9 DEF MarkRemaining, MarkNotRun
<1>10. CASE CloseWriter
  BY <1>10 DEF CloseWriter, CloseSlice, ForgetSlice, WriteIndex, CloseRaw, CloseFrames,
     WriteMeta
<1>11. CASE Flush
  BY <1>11 DEF Flush
<1>12. CASE FlushWrite
  BY <1>12 DEF FlushWrite, WriteTaken, WriteLine, CountLine
<1>13. CASE Read
  BY <1>13 DEF Read, ReadNothing, ReadFrames
<1>14. CASE ReaderCheck \/ ReaderWritten \/ ReaderFeed \/ ReaderDrain \/ ReaderRaw
  BY <1>14 DEF ReaderStep, ReaderCheck, ReaderWritten, ReaderFeed, ReaderDrain, ReaderRaw,
     WriteRaw
<1>15. CASE ReaderWrite
  BY <1>15 DEF ReaderStep, ReaderWrite, WriteTaken, WriteLine, CountLine, PhaseInv
<1>16. CASE ReaderFindsClosed
  BY <1>16 DEF ReaderStep, ReaderFindsClosed, ReaderDies
<1>17. CASE ReaderDiskError
  BY <1>17 DEF ReaderDiskError, ReaderDies, CountLineFails
<1>18. CASE UNCHANGED vars
  BY <1>18 DEF vars
<1> QED
  BY <1>1, <1>2, <1>3, <1>4, <1>5, <1>6, <1>7, <1>8, <1>9, <1>10, <1>11, <1>12, <1>13,
     <1>14, <1>15, <1>16, <1>17, <1>18
  DEF Next, MainStep, Keys, Failures, ReaderStep, Terminated, Statuses


LEMMA FlowTyped ==
  ASSUME TypeInv
  PROVE  /\ raw \in Seq(Nat) /\ chunk \in Seq(Nat) /\ fbuf \in Seq(Nat) /\ log \in Seq(Line)
         /\ taken \in [Threads -> Seq(Nat)] /\ copy \in [Threads -> Nat] /\ nextFrame \in Nat
         /\ Len(log) \in Nat /\ Len(raw) \in Nat /\ Len(chunk) \in Nat /\ Len(fbuf) \in Nat
         /\ taken["reader"] \in Seq(Nat) /\ Len(taken["reader"]) \in Nat /\ frameSeq \in Nat
  BY DEF TypeInv, TypeOK, WriterTypeOK, ReaderTypeOK, Threads

LEMMA RawInvStep ==
  ASSUME TypeInv, EndInv, EndInv', RawInv, TimedOut => TimedOut', FlowStep
  PROVE  RawInv'
<1> USE FlowTyped DEF RawInv
<1>1. CASE UNCHANGED <<raw, chunk, nextFrame, rpc>>
  BY <1>1
<1>2. CASE StartsReader
  BY <1>2 DEF StartsReader
<1>3. CASE Flush \/ FlushWrite \/ ReaderWrite
  BY <1>1, <1>3 DEF Flush, FlushWrite, ReaderWrite, WriteTaken, WriteLine, CountLine,
     mainVars, writerVars, rootVars, readerVars
<1>4. CASE ReaderCheck \/ ReadNothing \/ ReaderWritten \/ ReaderFeed \/ ReaderDrain
  BY <1>4 DEF ReaderCheck, ReadNothing, ReaderWritten, ReaderFeed, ReaderDrain, writerVars,
     rootVars
<1>5. CASE \E n \in 1..MaxChunk : ReadFrames(n)
  <2>1. PICK n \in 1..MaxChunk : ReadFrames(n)
    BY <1>5
  <2>2. /\ raw' = raw /\ rpc' = "raw" /\ nextFrame' = nextFrame + n
        /\ chunk' = [i \in 1..n |-> nextFrame + i - 1] /\ nextFrame = Len(raw) + 1
    BY <2>1 DEF ReadFrames, writerVars, rootVars
  <2>3. Len(chunk') = n /\ \A i \in 1..n : chunk'[i] = Len(raw) + i
    BY <2>2
  <2> QED
    BY <2>2, <2>3
<1>6. CASE ReaderRaw
  <2>1. /\ raw' = raw \o chunk /\ rpc = "raw" /\ rpc' = "feed"
        /\ chunk' = chunk /\ nextFrame' = nextFrame
    BY <1>6 DEF ReaderRaw, WriteRaw
  <2>2. /\ Len(raw') = Len(raw) + Len(chunk)
        /\ \A i \in 1..Len(raw) : raw'[i] = raw[i]
        /\ \A i \in 1..Len(chunk) : raw'[Len(raw) + i] = chunk[i]
    BY <2>1
  <2>3. \A i \in 1..Len(raw') : i \in 1..Len(raw) \/ i - Len(raw) \in 1..Len(chunk)
    BY <2>2
  <2>4. \A i \in 1..Len(raw') : raw'[i] = i
    <3> SUFFICES ASSUME NEW i \in 1..Len(raw') PROVE raw'[i] = i
      OBVIOUS
    <3>1. CASE i \in 1..Len(raw)
      BY <2>2, <3>1
    <3>2. CASE i - Len(raw) \in 1..Len(chunk)
      <4>1. raw'[Len(raw) + (i - Len(raw))] = chunk[i - Len(raw)]
        BY <2>2, <3>2
      <4>2. chunk[i - Len(raw)] = Len(raw) + (i - Len(raw))
        BY <2>1, <3>2
      <4> QED
        BY <4>1, <4>2
    <3> QED
      BY <2>3, <3>1, <3>2
  <2> QED
    BY <2>1, <2>2, <2>4
<1>7. CASE ReaderFindsClosed
  <2>1. rpc \in {"raw", "write"} /\ (~rawFp \/ ~framesFp)
    BY <1>7 DEF ReaderFindsClosed, WriterIsClosed
  <2>2. ~joined /\ pc \notin WalkPhases \union {"STOP", "JOIN"}
    BY <2>1 DEF EndInv
  <2>3. TimedOut'
    BY <2>2 DEF TypeInv, TypeOK, MainTypeOK, TimedOut
  <2> QED
    BY <1>7, <2>3 DEF ReaderFindsClosed, ReaderDies, writerVars, rootVars
<1>8. CASE ReaderDiskError
  BY <1>8 DEF ReaderDiskError, ReaderDies, CountLineFails, writerVars, rootVars
<1> QED
  BY <1>1, <1>2, <1>3, <1>4, <1>5, <1>6, <1>7, <1>8 DEF FlowStep, flow, ReaderStep, Read

LEMMA PipeInvStep ==
  ASSUME TypeInv, PhaseInv, EndInv, RawInv, PipeInv, TimedOut => TimedOut', FlowStep
  PROVE  PipeInv'
<1> SUFFICES ASSUME ~TimedOut, Alone, InOrder, Accounted
             PROVE  Alone' /\ InOrder' /\ Accounted'
  BY DEF PipeInv
<1> USE FlowTyped DEF Alone, InOrder, Accounted, Threads, NoFrame
<1>c. \/ pc \in WalkPhases \union {"STOP", "JOIN"} /\ rawFp /\ framesFp
      \/ rpc \in {"off", "dead"}
  BY DEF EndInv, TimedOut, TypeInv, TypeOK, MainTypeOK
<1>1. CASE UNCHANGED flow
  BY <1>1 DEF flow
<1>2. CASE StartsReader
  BY <1>2 DEF StartsReader
<1>3. CASE pc = "FLUSH" /\ Flush
  <2>1. fbuf = <<>> /\ UNCHANGED <<framerVars, flow>>
    BY <1>3, <1>c DEF Flush, DrainStep, DrainCopy, DrainDelete, WalkPhases, framerVars,
       readerVars, writerVars, rootVars, flow
  <2> QED
    BY <2>1 DEF flow
<1>4. CASE pc = "FLUSH_WRITE" /\ FlushWrite
  <2>1. UNCHANGED flow
    BY <1>4 DEF FlushWrite, WriteTaken, CountLine, framerVars, readerVars, mainVars, flow
  <2> QED
    BY <2>1 DEF flow
<1>5. CASE ReaderCheck \/ ReadNothing \/ ReaderWritten
  <2>1. /\ rpc \in {"loop", "read", "write"} /\ rpc' \in {"loop", "read", "dead"}
        /\ taken["reader"] = <<>> /\ fbuf = <<>>
        /\ UNCHANGED <<raw, log, fbuf, copy, taken>>
    BY <1>5 DEF ReaderCheck, ReadNothing, ReaderWritten, framerVars, writerVars, rootVars
  <2> QED
    BY <2>1
<1>6. CASE \E n \in 1..MaxChunk : ReadFrames(n)
  <2>1. /\ rpc = "read" /\ rpc' = "raw" /\ UNCHANGED <<raw, log, fbuf, copy, taken>>
    BY <1>6 DEF ReadFrames, framerVars, writerVars, rootVars
  <2> QED
    BY <2>1
<1>7. CASE ReaderRaw
  <2>1. /\ rpc = "raw" /\ rpc' = "feed" /\ raw' = raw \o chunk
        /\ UNCHANGED <<log, chunk, fbuf, copy, taken>>
    BY <1>7 DEF ReaderRaw, WriteRaw, framerVars
  <2>2. Len(raw) = Len(log) /\ Len(raw') = Len(raw) + Len(chunk)
    BY <2>1
  <2>3. \A i \in 1..Len(chunk) : chunk[i] = Len(log) + i
    BY <2>1, <2>2 DEF RawInv
  <2> QED
    BY <2>1, <2>2, <2>3
<1>8. CASE ReaderFeed
  <2>1. /\ rpc = "feed" /\ rpc' = "drain" /\ fbuf = <<>> /\ fbuf' = chunk
        /\ UNCHANGED <<raw, log, copy, taken>>
    BY <1>8 DEF ReaderFeed, writerVars, rootVars
  <2>2. /\ \A i \in 1..Len(chunk) : chunk[i] = Len(log) + i
        /\ Len(raw) = Len(log) + Len(chunk) /\ taken["reader"] = <<>>
    BY <2>1
  <2> QED
    BY <2>1, <2>2
<1>9. CASE ReaderDrain
  <2>0. UNCHANGED <<raw, log, chunk, nextFrame>> /\ rpc = "drain"
    BY <1>9 DEF ReaderDrain, writerVars, rootVars
  <2>1. CASE DrainCopy("reader") /\ UNCHANGED rpc
    BY <2>0, <2>1 DEF DrainCopy
  <2>2. CASE DrainDelete("reader") /\ UNCHANGED rpc
    <3>1. /\ fbuf # <<>> /\ copy["reader"] = Head(fbuf) /\ fbuf' = Tail(fbuf)
          /\ taken' = [taken EXCEPT !["reader"] = Append(@, copy["reader"])]
          /\ copy' = [copy EXCEPT !["reader"] = NoFrame]
      BY <2>2 DEF DrainDelete
    <3>2. taken'["reader"] = Append(taken["reader"], fbuf[1]) /\ taken'["main"] = <<>>
      BY <3>1
    <3>3. /\ Len(taken'["reader"]) = Len(taken["reader"]) + 1
          /\ taken'["reader"][Len(taken["reader"]) + 1] = Len(log) + Len(taken["reader"]) + 1
          /\ \A i \in 1..Len(taken["reader"]) : taken'["reader"][i] = taken["reader"][i]
      BY <3>1, <3>2
    <3>4. Len(fbuf') = Len(fbuf) - 1 /\ \A i \in 1..Len(fbuf') : fbuf'[i] = fbuf[i + 1]
      BY <3>1
    <3>5. Len(fbuf) > 0 /\ Len(fbuf') \in Nat
      BY <3>1, <3>4
    <3>6. \A i \in 1..Len(taken'["reader"]) : taken'["reader"][i] = Len(log) + i
      <4>1. \A i \in 1..Len(taken'["reader"]) :
               i \in 1..Len(taken["reader"]) \/ i = Len(taken["reader"]) + 1
        BY <3>3
      <4>2. \A i \in 1..Len(taken["reader"]) : taken'["reader"][i] = Len(log) + i
        BY <3>3
      <4>3. taken'["reader"][Len(taken["reader"]) + 1] = Len(log) + (Len(taken["reader"]) + 1)
        BY <3>3
      <4> QED
        BY <4>1, <4>2, <4>3
    <3>7. \A i \in 1..Len(fbuf') : fbuf'[i] = Len(log) + Len(taken'["reader"]) + i
      BY SMTT(30), <3>3, <3>4, <3>5
    <3>8. InOrder'
      BY <2>0, <2>2, <3>6, <3>7
    <3>9. Alone'
      BY <2>0, <2>2, <3>1, <3>2
    <3>10. Len(raw) = Len(log) + Len(taken'["reader"]) + Len(fbuf')
      <4>1. Len(raw) = Len(log) + Len(taken["reader"]) + Len(fbuf)
        BY <2>0
      <4> QED
        BY <2>0, <3>3, <3>4, <4>1
    <3>11. Accounted'
      BY <2>0, <2>2, <3>10
    <3> QED
      BY <3>8, <3>9, <3>11
  <2>3. CASE Drained("reader") /\ rpc' = "write" /\ UNCHANGED framerVars
    BY <2>0, <2>3 DEF Drained, framerVars
  <2> QED
    BY <1>9, <2>1, <2>2, <2>3 DEF ReaderDrain, DrainStep
<1>10. CASE ReaderWrite
  <2>0. UNCHANGED <<chunk, nextFrame, rpc, raw>> /\ rpc = "write"
    BY <1>10 DEF ReaderWrite, WriteTaken, WriteLine, CountLine, mainVars, readerVars
  <2>1. CASE CountLine("reader") /\ UNCHANGED framerVars
    BY <2>0, <2>1 DEF CountLine, framerVars
  <2>2. CASE WriteTaken("reader")
    <3> DEFINE line == [seq |-> frameSeq, frame |-> Head(taken["reader"]), cap |-> active]
    <3>1. /\ taken["reader"] # <<>> /\ log' = Append(log, line)
          /\ taken' = [taken EXCEPT !["reader"] = Tail(@)]
          /\ UNCHANGED <<fbuf, copy>>
      BY <2>2 DEF WriteTaken, WriteLine
    <3>2. line.frame = Len(log) + 1
      BY <3>1
    <3> HIDE DEF line
    <3>3. /\ Len(log') = Len(log) + 1 /\ log'[Len(log) + 1] = line
          /\ \A i \in 1..Len(log) : log'[i] = log[i]
      BY <3>1
    <3>4. taken'["reader"] = Tail(taken["reader"]) /\ taken'["main"] = <<>>
      BY <3>1
    <3>5. /\ Len(taken'["reader"]) = Len(taken["reader"]) - 1
          /\ \A i \in 1..Len(taken'["reader"]) : taken'["reader"][i] = taken["reader"][i + 1]
      BY <3>1, <3>4
    <3>6. Alone' /\ Accounted'
      BY <2>0, <3>1, <3>3, <3>4, <3>5
    <3>7. \A i \in 1..Len(log') : log'[i].frame = i
      <4>1. \A i \in 1..Len(log') : i \in 1..Len(log) \/ i = Len(log) + 1
        BY SMTT(30), <3>3
      <4>2. \A i \in 1..Len(log) : log'[i].frame = i
        BY <3>3
      <4>3. log'[Len(log) + 1].frame = Len(log) + 1
        BY <3>2, <3>3
      <4> QED
        BY <4>1, <4>2, <4>3
    <3>8. \A i \in 1..Len(taken'["reader"]) : taken'["reader"][i] = Len(log') + i
      BY SMTT(30), <3>3, <3>5
    <3>9. \A i \in 1..Len(fbuf') : fbuf'[i] = Len(log') + Len(taken'["reader"]) + i
      BY <2>0, <3>1
    <3> QED
      BY <2>0, <3>6, <3>7, <3>8, <3>9
  <2> QED
    BY <1>10, <2>1, <2>2 DEF ReaderWrite
<1>11. CASE ReaderFindsClosed
  BY <1>11, <1>c DEF ReaderFindsClosed, WriterIsClosed
<1>12. CASE ReaderDiskError
  <2>1. /\ "disk" \in Faults /\ rpc \in {"raw", "write"} /\ rpc' = "dead"
        /\ taken' = [taken EXCEPT !["reader"] = <<>>] /\ UNCHANGED <<raw, log, fbuf, copy>>
    BY <1>12 DEF ReaderDiskError, ReaderDies, CountLineFails, writerVars, rootVars
  <2>2. taken'["main"] = <<>> /\ taken'["reader"] = <<>>
    BY <2>1
  <2>3. Len(log) <= Len(raw)
    BY <2>1
  <2> QED
    BY <2>1, <2>2, <2>3
<1> QED
  BY <1>1, <1>2, <1>3, <1>4, <1>5, <1>6, <1>7, <1>8, <1>9, <1>10, <1>11, <1>12
  DEF FlowStep, ReaderStep, Read

LEMMA OrderInvHolds == Spec => []OrderInv
<1>1. SessionInv /\ OrderInv /\ [Next]_vars => OrderInv'
  BY FlowSteps, RawInvStep, PipeInvStep DEF SessionInv, OrderInv
<1> QED
  BY <1>1, InitOrderInv, SessionInvHolds, PTL DEF Spec

\* Unless a join has timed out, the root log is the frames of raw.ndjson in the
\* order of the bus, each of them once: whatever the operator, the bus and the
\* disk do, and whichever thread writes.
THEOREM LogInOrder == Spec => []LogFollowsRaw
<1>1. SessionInv /\ OrderInv => LogFollowsRaw
  <2> SUFFICES ASSUME SessionInv, OrderInv, ~TimedOut
               PROVE  Len(log) <= Len(raw) /\ \A i \in 1..Len(log) : log[i].frame = raw[i]
    BY DEF LogFollowsRaw
  <2> USE FlowTyped DEF SessionInv, OrderInv, PipeInv
  <2>1. Len(log) <= Len(raw)
    BY DEF Alone, Accounted, Threads
  <2>2. \A i \in 1..Len(log) : log[i].frame = i
    BY DEF InOrder
  <2>3. \A i \in 1..Len(raw) : raw[i] = i
    BY DEF RawInv
  <2>4. \A i \in 1..Len(log) : i \in 1..Len(raw)
    BY <2>1
  <2> QED
    BY <2>1, <2>2, <2>3, <2>4
<1> QED
  BY <1>1, OrderInvHolds, SessionInvHolds, PTL

\* A shutdown that ran to its end with the reader joined has lost no frame that the
\* bus delivered, in either root file, and meta.json counts them: unless a write fails.
THEOREM NothingLost == "disk" \notin Faults => (Spec => []CleanShutdown)
<1> SUFFICES ASSUME "disk" \notin Faults PROVE Spec => []CleanShutdown
  OBVIOUS
<1>1. SessionInv /\ OrderInv => CleanShutdown
  <2> SUFFICES ASSUME SessionInv, OrderInv, pc = "DONE", joined, link = "closed"
               PROVE  Len(raw) = nextFrame - 1 /\ Len(log) = Len(raw) /\ metaFrames = Len(log)
    BY DEF CleanShutdown
  <2> USE FlowTyped DEF SessionInv, OrderInv
  <2>1. rpc \in {"off", "dead"} /\ ~TimedOut /\ metaFrames = frameSeq
    BY DEF EndInv, TimedOut
  <2>2. Len(raw) = nextFrame - 1
    BY <2>1 DEF RawInv
  <2>3. Len(log) = Len(raw)
    BY <2>1 DEF PipeInv, Alone, Accounted, Threads
  <2>4. lock = "free"
    BY <2>1 DEF PhaseInv, TypeInv, TypeOK, WriterTypeOK, Threads
  <2> QED
    BY <2>1, <2>2, <2>3, <2>4 DEF LineInv
<1> QED
  BY <1>1, OrderInvHolds, SessionInvHolds, PTL

-----------------------------------------------------------------------------
(* The journal.                                                            *)

(* test_default_catalog_count_and_unique_ids: the ids of a catalog.        *)
DistinctIds == \A p, q \in Positions : Walk[p] = Walk[q] => p = q

BusFrames == 1..MaxFrames

(* What is anywhere between the bus and the root log came from the bus.    *)
RangeInv ==
    /\ nextFrame \in 1..MaxFrames + 1
    /\ chunk \in Seq(BusFrames) /\ fbuf \in Seq(BusFrames)
    /\ copy \in [Threads -> BusFrames \union {NoFrame}]
    /\ taken \in [Threads -> Seq(BusFrames)]
    /\ \A i \in 1..Len(log) : log[i].frame \in BusFrames

(* No root line has the tag of position p.                                 *)
Unused(p) == \A i \in 1..Len(log) : log[i].cap # Walk[p]

(* A tag is used from the moment its window opens: never before, and, once *)
(* the window is closed, nothing is active until the next one opens.       *)
TagInv ==
    /\ \A p \in Positions : p > cursor => active # Walk[p] /\ Unused(p)
    /\ pc \in WalkPhases /\ sliceFp = NoSlice => active = NoCap
    /\ pc = "PROMPT_ARM" => Unused(cursor)
    /\ pc \in WalkPhases /\ sliceFp # NoSlice =>
          \A i \in 1..capStart : log[i].cap # Walk[sliceFp]

LEMMA InitJournalInv == Init => RangeInv /\ TagInv
<1> SUFFICES ASSUME Init PROVE RangeInv /\ TagInv
  OBVIOUS
<1>1. RangeInv
  <2>1. <<>> \in Seq(BusFrames) /\ 1 \in 1..MaxFrames + 1
    BY ConfigAssumption
  <2> QED
    BY <2>1 DEF Init, OpenWriter, RangeInv, Threads, NoFrame
<1>2. TagInv
  BY WalkType DEF Init, OpenWriter, TagInv, Unused, Positions
<1> QED
  BY <1>1, <1>2

LEMMA RangeInvStep ==
  ASSUME TypeInv, RangeInv, FlowStep
  PROVE  RangeInv'
<1> USE FlowTyped DEF RangeInv, Threads
<1>1. CASE UNCHANGED flow
  BY <1>1 DEF flow
<1>2. CASE StartsReader
  BY <1>2 DEF StartsReader
<1>3. ASSUME NEW t \in Threads, DrainStep(t), UNCHANGED <<writerVars, readerVars>>
      PROVE  RangeInv'
  <2>1. CASE DrainCopy(t)
    <3>1. Head(fbuf) \in BusFrames
      BY <2>1 DEF DrainCopy
    <3> QED
      BY <1>3, <2>1, <3>1 DEF DrainCopy, readerVars, writerVars, rootVars
  <2>2. CASE DrainDelete(t)
    <3>0. taken[t] \in Seq(BusFrames) /\ copy[t] \in BusFrames
      BY <2>2 DEF DrainDelete
    <3>1. Append(taken[t], copy[t]) \in Seq(BusFrames)
      BY <3>0
    <3>2. fbuf' \in Seq(BusFrames)
      BY <2>2 DEF DrainDelete
    <3> QED
      BY <1>3, <2>2, <3>1, <3>2 DEF DrainDelete, readerVars, writerVars, rootVars
  <2> QED
    BY <1>3, <2>1, <2>2 DEF DrainStep
<1>4. ASSUME NEW t \in Threads, WriteTaken(t), UNCHANGED readerVars
      PROVE  RangeInv'
  <2>1. Head(taken[t]) \in BusFrames /\ Tail(taken[t]) \in Seq(BusFrames)
    BY <1>4 DEF WriteTaken
  <2> DEFINE line == [seq |-> frameSeq, frame |-> Head(taken[t]), cap |-> active]
  <2>2. log' = Append(log, line) /\ line.frame \in BusFrames
    BY <1>4, <2>1 DEF WriteTaken, WriteLine
  <2> HIDE DEF line
  <2>3. /\ Len(log') = Len(log) + 1 /\ log'[Len(log) + 1] = line
        /\ \A i \in 1..Len(log) : log'[i] = log[i]
    BY <2>2
  <2>4. \A i \in 1..Len(log') : log'[i].frame \in BusFrames
    BY <2>2, <2>3
  <2> QED
    BY <1>4, <2>1, <2>4 DEF WriteTaken, readerVars
<1>5. CASE Flush \/ ReaderDrain
  BY <1>1, <1>3, <1>5 DEF Flush, ReaderDrain, framerVars, readerVars, flow, writerVars, rootVars
<1>6. CASE FlushWrite \/ ReaderWrite
  BY <1>4, <1>6 DEF FlushWrite, ReaderWrite, CountLine, framerVars, readerVars, mainVars
<1>7. CASE ReaderCheck \/ ReadNothing \/ ReaderWritten
  BY <1>7 DEF ReaderCheck, ReadNothing, ReaderWritten, framerVars, writerVars, rootVars
<1>8. CASE \E n \in 1..MaxChunk : ReadFrames(n)
  <2>1. PICK n \in 1..MaxChunk : ReadFrames(n)
    BY <1>8
  <2>2. n \in Nat /\ nextFrame' = nextFrame + n /\ nextFrame' \in 1..MaxFrames + 1
    BY <2>1, ConfigAssumption DEF ReadFrames
  <2>3. chunk' \in Seq(BusFrames)
    <3>1. \A i \in 1..n : nextFrame + i - 1 \in BusFrames
      BY <2>1, <2>2, ConfigAssumption DEF BusFrames
    <3>2. chunk' = [i \in 1..n |-> nextFrame + i - 1]
      BY <2>1 DEF ReadFrames
    <3> QED
      BY <2>2, <3>1, <3>2
  <2> QED
    BY <2>1, <2>2, <2>3 DEF ReadFrames, framerVars, writerVars, rootVars
<1>9. CASE ReaderRaw
  BY <1>9 DEF ReaderRaw, WriteRaw, framerVars
<1>10. CASE ReaderFeed
  <2>1. fbuf \o chunk \in Seq(BusFrames) /\ <<>> \in Seq(BusFrames)
    OBVIOUS
  <2> QED
    BY <1>10, <2>1 DEF ReaderFeed, writerVars, rootVars
<1>11. CASE ReaderFindsClosed \/ ReaderDiskError
  <2>1. <<>> \in Seq(BusFrames)
    OBVIOUS
  <2> QED
    BY <1>11, <2>1 DEF ReaderFindsClosed, ReaderDiskError, ReaderDies, CountLineFails,
       writerVars, rootVars
<1> QED
  BY <1>1, <1>2, <1>5, <1>6, <1>7, <1>8, <1>9, <1>10, <1>11 DEF FlowStep, ReaderStep, Read

LEMMA TagInvStep ==
  ASSUME DistinctIds, TypeInv, TypeInv', PhaseInv, LineInv, WindowInv, TagInv, AnyStep
  PROVE  TagInv'
<1> USE IndexTyped, WalkType DEF TagInv, Unused
<1>a. cursor' \in 0..Len(Walk) /\ \A p \in Positions : p \in Nat
  BY DEF TypeInv, TypeOK, MainTypeOK, Positions
<1>1. CASE QuietStep \/ AdvanceStep
  BY SMTT(30), <1>1, <1>a DEF QuietStep, AdvanceStep, core, WalkPhases, Positions
<1>2. CASE ArmStep
  <2>1. /\ active' = Walk[cursor'] /\ sliceFp' = cursor' /\ capStart' = frameSeq
        /\ log' = log /\ cursor' \in Positions /\ Len(log) = frameSeq
        /\ pc' = "ARMED" /\ cursor' >= cursor
    BY <1>2 DEF ArmStep, Arm, rootVars, LineInv
  <2>2. Unused(cursor')
    BY <1>2, <2>1 DEF ArmStep
  <2> QED
    BY <1>2, <1>a, <2>1, <2>2 DEF DistinctIds
<1>3. CASE ArmFailsStep \/ CloseStep
  BY SMTT(30), <1>3, <1>a DEF ArmFailsStep, ArmFails, CloseStep, CloseSlice, rootVars, WalkPhases
<1>4. CASE DisarmStep
  BY <1>4 DEF DisarmStep, DisarmAndIndex, ForgetSlice, rootVars
<1>5. CASE MarkStep
  BY <1>5, <1>a DEF MarkStep, MarkNotRun, rootVars, WalkPhases
<1>6. CASE WriteStep
  <2>1. PICK line : log' = Append(log, line) /\ line.cap = active
    BY <1>6 DEF WriteStep, WriteLine
  <2>2. /\ Len(log') = Len(log) + 1 /\ log'[Len(log) + 1] = line
        /\ \A i \in 1..Len(log) : log'[i] = log[i]
    BY <2>1 DEF TypeInv, TypeOK, WriterTypeOK
  <2>3. \A i \in 1..Len(log') : i \in 1..Len(log) \/ i = Len(log) + 1
    BY <2>2
  <2>4. UNCHANGED <<pc, cursor, active, sliceFp, capStart>> /\ Len(log) = frameSeq
    BY <1>6 DEF WriteStep, WriteLine, windowVars, LineInv
  <2>5. \A p \in Positions : p > cursor => active # Walk[p] /\ Unused(p)'
    BY <2>1, <2>2, <2>3
  <2>6. pc = "PROMPT_ARM" => Unused(cursor)'
    <3> SUFFICES ASSUME pc = "PROMPT_ARM" PROVE Unused(cursor)'
      OBVIOUS
    <3>1. active = NoCap /\ cursor \in Positions
      BY CurrentPosition DEF PhaseInv, WalkPhases, CurrentPhases
    <3> QED
      BY <2>1, <2>2, <2>3, <2>4, <3>1
  <2>7. pc \in WalkPhases /\ sliceFp # NoSlice =>
           \A i \in 1..capStart : log'[i].cap # Walk[sliceFp]
    BY <2>2, <2>4 DEF WindowInv
  <2> QED
    BY <2>4, <2>5, <2>6, <2>7
<1>7. CASE CountStep \/ CountFailsStep
  BY <1>7 DEF CountStep, CountLine, CountFailsStep, CountLineFails, windowVars
<1> QED
  BY <1>1, <1>2, <1>3, <1>4, <1>5, <1>6, <1>7 DEF AnyStep

-----------------------------------------------------------------------------
(* The mapping.                                                            *)

JournalInv == SessionInv /\ StopInv /\ OrderInv /\ RangeInv /\ TagInv

LEMMA JournalInvHolds == DistinctIds => (Spec => []JournalInv)
<1> SUFFICES ASSUME DistinctIds PROVE Spec => []JournalInv
  OBVIOUS
<1>1. JournalInv /\ [Next]_vars => JournalInv'
  <2> SUFFICES ASSUME JournalInv, [Next]_vars PROVE JournalInv'
    OBVIOUS
  <2> USE DEF JournalInv
  <2>1. SessionInv' /\ StopInv' /\ AnyStep
    BY SessionInvStep, StopInvStep, StepKinds DEF SessionInv
  <2>2. OrderInv' /\ FlowStep
    BY FlowSteps, RawInvStep, PipeInvStep DEF SessionInv, OrderInv
  <2>3. RangeInv' /\ TagInv'
    BY <2>1, <2>2, RangeInvStep, TagInvStep DEF SessionInv
  <2> QED
    BY <2>1, <2>2, <2>3
<1>2. Init => JournalInv
  BY InitSessionInv, InitStopInv, InitOrderInv, InitJournalInv DEF JournalInv
<1> QED
  BY <1>1, <1>2, PTL DEF Spec

LEMMA WindowOfNone == WindowOf(NoCap) = 0
BY DEF WindowOf

LEMMA WindowOfWalk ==
  ASSUME DistinctIds, NEW p \in Positions
  PROVE  WindowOf(Walk[p]) = p
BY WalkType DEF WindowOf, DistinctIds

LEMMA WindowTyped ==
  ASSUME NEW cap \in CapIds \union {NoCap}
  PROVE  WindowOf(cap) \in 0..Len(Walk)
BY WalkType DEF WindowOf, CapIds, Positions

Entries   == [frame : BusFrames, window : 0..Len(Walk)]
Summaries == [window : Positions, status : Statuses, frames : Nat]

(* The mapped state is one of the journal's.                               *)
Mapped ==
    /\ recorded \in Seq(Entries) /\ Len(recorded) = frameSeq
    /\ summary \in Seq(Summaries) /\ Len(summary) = Len(index)
    /\ \A i \in 1..frameSeq : i \in 1..Len(log) /\ log[i].cap \in CapIds \union {NoCap}

LEMMA MappedTyped == TypeInv /\ LineInv /\ RangeInv => Mapped
<1> SUFFICES ASSUME TypeInv, LineInv, RangeInv PROVE Mapped
  OBVIOUS
<1> USE IndexTyped
<1>1. frameSeq \in Nat /\ frameSeq <= Len(log) /\ \A i \in 1..Len(log) : log[i] \in Line
  BY DEF TypeInv, TypeOK, WriterTypeOK, LineInv
<1>2. \A i \in 1..frameSeq :
         [frame |-> log[i].frame, window |-> WindowOf(log[i].cap)] \in Entries
  BY SMTT(30), <1>1, WindowTyped DEF RangeInv, Line, Entries
<1>3. \A r \in 1..Len(index) :
         [window |-> index[r].seq, status |-> index[r].status,
          frames |-> index[r].frames] \in Summaries
  BY DEF Row, Summaries
<1>4. recorded \in Seq(Entries) /\ Len(recorded) = frameSeq
  BY <1>1, <1>2 DEF recorded
<1>5. summary \in Seq(Summaries) /\ Len(summary) = Len(index)
  BY <1>3 DEF summary
<1>6. \A i \in 1..frameSeq : i \in 1..Len(log) /\ log[i].cap \in CapIds \union {NoCap}
  BY <1>1 DEF Line
<1> QED
  BY <1>4, <1>5, <1>6 DEF Mapped

(* A function on 1..n + 1 is its restriction to 1..n with one more.        *)
LEMMA OneMore ==
  ASSUME NEW S, NEW s \in Seq(S), NEW t \in Seq(S), NEW e \in S,
         Len(t) = Len(s) + 1, t[Len(t)] = e,
         \A i \in 1..Len(s) : t[i] = s[i]
  PROVE  t = Append(s, e)
<1>1. /\ Append(s, e) \in Seq(S) /\ Len(Append(s, e)) = Len(t)
      /\ \A i \in 1..Len(s) : Append(s, e)[i] = t[i]
      /\ Append(s, e)[Len(t)] = t[Len(t)]
  BY AppendProperties
<1>2. \A i \in 1..Len(t) : Append(s, e)[i] = t[i]
  BY <1>1
<1> QED
  BY <1>1, <1>2, SeqEqual

LEMMA NothingRecorded == UNCHANGED <<log, frameSeq>> => recorded' = recorded
BY DEF recorded, WindowOf

LEMMA NothingMoreRecorded ==
  ASSUME TypeInv, LogKept, Mapped, frameSeq' = frameSeq
  PROVE  recorded' = recorded
BY ZenonT(30), IndexTyped DEF recorded, WindowOf, Mapped, LogKept

LEMMA MoreRecorded ==
  ASSUME TypeInv, LineInv, RangeInv, Mapped, Mapped',
         log' = log, frameSeq' = frameSeq + 1, lock # "free"
  PROVE  \E f \in BusFrames :
            recorded' = Append(recorded, [frame |-> f, window |-> WindowOf(active)])
<1> USE IndexTyped DEF Mapped
<1>1. Len(log) = frameSeq + 1 /\ log[frameSeq + 1].cap = active
  BY DEF LineInv
<1> DEFINE e == [frame |-> log[frameSeq + 1].frame, window |-> WindowOf(active)]
<1>2. e \in Entries /\ log[frameSeq + 1].frame \in BusFrames
  BY SMTT(30), <1>1, WindowTyped DEF RangeInv, Entries, TypeInv, TypeOK, WriterTypeOK
<1>3. recorded' \in Seq(Entries) /\ Len(recorded') = frameSeq + 1
  OBVIOUS
<1>4. \A i \in 1..frameSeq + 1 :
         recorded'[i] = [frame |-> log[i].frame, window |-> WindowOf(log[i].cap)]
  BY DEF recorded, WindowOf
<1>5. recorded'[Len(recorded')] = e /\ \A i \in 1..Len(recorded) : recorded'[i] = recorded[i]
  BY <1>1, <1>3, <1>4 DEF recorded
<1>6. recorded' = Append(recorded, e)
  <2> HIDE DEF e
  <2> QED
    BY <1>2, <1>3, <1>5, OneMore
<1> QED
  BY <1>2, <1>6

LEMMA MoreRows ==
  ASSUME TypeInv, Mapped, Mapped', NEW row \in Row, index' = Append(index, row)
  PROVE  summary' = Append(summary, [window |-> row.seq, status |-> row.status,
                                     frames |-> row.frames])
<1> USE IndexTyped DEF Mapped
<1> DEFINE e == [window |-> row.seq, status |-> row.status, frames |-> row.frames]
<1>1. /\ Len(index') = Len(index) + 1 /\ index'[Len(index) + 1] = row
      /\ \A r \in 1..Len(index) : index'[r] = index[r]
  BY DEF TypeInv, TypeOK, WriterTypeOK
<1>2. e \in Summaries
  BY DEF Row, Summaries
<1>3. summary' \in Seq(Summaries) /\ Len(summary') = Len(summary) + 1
  BY <1>1
<1>4. summary'[Len(summary')] = e /\ \A r \in 1..Len(summary) : summary'[r] = summary[r]
  BY <1>1, <1>3 DEF summary
<1> HIDE DEF e
<1>5. summary' = Append(summary, e)
  BY <1>2, <1>3, <1>4, OneMore
<1> QED
  BY <1>5 DEF e

LEMMA NoMoreRows == index' = index => summary' = summary
BY DEF summary

(* What the abstract guards say of the mapped state.                       *)
LEMMA CountOf ==
  ASSUME NEW p, NEW S, {i \in 1..Len(recorded) : recorded[i].window = p} = S
  PROVE  Journal!FramesOf(p) = Cardinality(S)
BY DEF Journal!FramesOf, Journal!Cardinality, Cardinality

LEMMA NoneOfWindow ==
  ASSUME DistinctIds, Mapped, NEW p \in Positions, Unused(p)
  PROVE  Journal!FramesOf(p) = 0
<1>1. ASSUME NEW i \in 1..frameSeq, WindowOf(log[i].cap) = p PROVE FALSE
  <2>1. i \in 1..Len(log) /\ log[i].cap \in CapIds \union {NoCap} /\ log[i].cap # Walk[p]
    BY DEF Mapped, Unused
  <2>2. p # 0
    BY DEF Positions
  <2> QED
    BY <1>1, <2>1, <2>2, WindowOfNone, WindowOfWalk DEF CapIds
<1>2. {i \in 1..Len(recorded) : recorded[i].window = p} = {}
  BY <1>1 DEF Mapped, recorded
<1> QED
  BY <1>2, CountOf, FS_EmptySet

LEMMA UntouchedFrom ==
  ASSUME Mapped, NEW p \in Nat, \A r \in 1..Len(index) : index[r].seq < p
  PROVE  Journal!Untouched(p)
BY DEF Mapped, Journal!Untouched, summary

LEMMA WindowIsCounted ==
  ASSUME DistinctIds, SessionInv, TagInv, Mapped, pc \in WalkPhases, sliceFp # NoSlice,
         rpc # "dead"
  PROVE  Journal!FramesOf(sliceFp) = capCount
<1> USE IndexTyped DEF SessionInv
<1>1. /\ sliceFp \in Positions /\ capStart \in Nat /\ capStart + capCount = frameSeq
      /\ \A i \in 1..capCount : log[capStart + i].cap = Walk[sliceFp]
      /\ \A i \in 1..capStart : log[i].cap # Walk[sliceFp]
  BY DEF TypeInv, TypeOK, WriterTypeOK, WindowInv, TagInv
<1>2. capCount \in Nat /\ frameSeq \in Nat /\ sliceFp # 0
  BY DEF NoSlice
<1> HIDE DEF SessionInv
<1>3. ASSUME NEW i \in 1..frameSeq
      PROVE  WindowOf(log[i].cap) = sliceFp <=> i \in capStart + 1..capStart + capCount
  <2>1. CASE i <= capStart
    <3>1. i \in 1..capStart /\ ~ (i \in capStart + 1..capStart + capCount)
      BY <1>1, <1>2, <2>1
    <3>2. log[i].cap # Walk[sliceFp] /\ log[i].cap \in CapIds \union {NoCap}
      BY <1>1, <3>1 DEF Mapped
    <3>3. WindowOf(log[i].cap) # sliceFp
      BY <1>2, <3>2, WindowOfNone, WindowOfWalk DEF CapIds
    <3> QED
      BY <3>1, <3>3
  <2>2. CASE i > capStart
    <3>1. i - capStart \in 1..capCount /\ capStart + (i - capStart) = i
      BY <1>1, <1>2, <2>2
    <3>2. log[i].cap = Walk[sliceFp]
      BY <1>1, <3>1
    <3> QED
      BY <1>1, <1>2, <2>2, <3>2, WindowOfWalk
  <2> QED
    BY <1>1, <2>1, <2>2
<1>4. {i \in 1..Len(recorded) : recorded[i].window = sliceFp} =
         capStart + 1..capStart + capCount
  BY <1>1, <1>2, <1>3 DEF recorded, Mapped
<1>5. Cardinality(capStart + 1..capStart + capCount) = capCount
  <2>1. capStart + 1 \in Int /\ capStart + capCount \in Int
    BY <1>1, <1>2
  <2>2. Cardinality(capStart + 1..capStart + capCount) =
           IF capStart + 1 > capStart + capCount THEN 0
           ELSE (capStart + capCount) - (capStart + 1) + 1
    BY <2>1, FS_Interval
  <2> QED
    BY <1>1, <1>2, <2>2
<1> QED
  BY <1>4, <1>5, CountOf

-----------------------------------------------------------------------------
(* Every step of the session is a step of the journal, or none.            *)

journalSame == UNCHANGED <<recorded, WindowOf(active), summary>>

LEMMA StutterSteps ==
  ASSUME JournalInv, Mapped,
         QuietStep \/ AdvanceStep \/ ArmFailsStep \/ WriteStep \/ CloseStep
  PROVE  journalSame
<1>1. UNCHANGED <<frameSeq, index, active>>
  BY DEF QuietStep, AdvanceStep, ArmFailsStep, ArmFails, WriteStep, WriteLine, CloseStep,
     CloseSlice, core, rootVars, windowVars, indexVars
<1>2. TypeInv /\ LogKept
  BY LogIsKept DEF JournalInv, SessionInv, AnyStep
<1>3. recorded' = recorded /\ summary' = summary
  BY <1>1, <1>2, NothingMoreRecorded, NoMoreRows
<1> QED
  BY <1>1, <1>3 DEF journalSame, WindowOf

LEMMA ArmOpens ==
  ASSUME DistinctIds, JournalInv, Mapped, ArmStep
  PROVE  \E w \in 1..Len(Walk) : Journal!OpenWindow(w)
<1> USE IndexTyped DEF JournalInv, SessionInv
<1>1. /\ cursor' \in Positions /\ active' = Walk[cursor'] /\ sliceFp = NoSlice
      /\ UNCHANGED <<log, frameSeq, index>> /\ pc \in WalkPhases
  BY DEF ArmStep, Arm, rootVars, indexVars, PhaseInv, WalkPhases
<1>2. WindowOf(active) = 0
  BY <1>1, WindowOfNone DEF TagInv
<1>3. WindowOf(active') = cursor'
  BY <1>1, WindowOfWalk
<1>4. Unused(cursor') /\ \A r \in 1..Len(index) : index[r].seq < cursor'
  BY <1>1 DEF ArmStep, TagInv, RowInv, CurrentPhases
<1>5. Journal!FramesOf(cursor') = 0 /\ Journal!Untouched(cursor')
  BY <1>1, <1>4, NoneOfWindow, UntouchedFrom DEF Positions
<1>6. recorded' = recorded /\ summary' = summary
  BY <1>1, NothingRecorded, NoMoreRows
<1>7. Journal!OpenWindow(cursor')
  BY <1>2, <1>3, <1>5, <1>6 DEF Journal!OpenWindow, Journal!NoWindow, WindowOf
<1> QED
  BY <1>1, <1>7 DEF Positions

LEMMA CountRecords ==
  ASSUME JournalInv, Mapped, Mapped', CountStep \/ CountFailsStep
  PROVE  \E f \in BusFrames : Journal!Record(f)
<1>1. /\ log' = log /\ frameSeq' = frameSeq + 1 /\ lock # "free"
      /\ active' = active /\ index' = index
  BY DEF CountStep, CountLine, CountFailsStep, CountLineFails, windowVars, indexVars
<1>2. PICK f \in BusFrames :
         recorded' = Append(recorded, [frame |-> f, window |-> WindowOf(active)])
  BY <1>1, MoreRecorded DEF JournalInv, SessionInv
<1>3. summary' = summary
  BY <1>1, NoMoreRows
<1>4. WindowOf(active') = WindowOf(active)
  BY <1>1 DEF WindowOf
<1>5. Journal!Record(f)
  BY <1>2, <1>3, <1>4 DEF Journal!Record, WindowOf
<1> QED
  BY <1>5

LEMMA DisarmCloses ==
  ASSUME DistinctIds, "disk" \notin Faults, JournalInv, Mapped, Mapped', DisarmStep
  PROVE  \E status \in Journal!Outcomes : Journal!CloseWindow(status)
<1> USE IndexTyped DEF JournalInv, SessionInv
<1>1. PICK s \in Statuses : DisarmAndIndex(cursor, s)
  BY DEF DisarmStep
<1>2. /\ pc = "FINALIZE" /\ sliceFp = cursor /\ cursor \in Positions /\ sliceFp # NoSlice
      /\ active = Walk[cursor] /\ pc \in WalkPhases
  BY CurrentPosition
  DEF DisarmStep, PhaseInv, WindowInv, WalkPhases, CurrentPhases, Positions, NoSlice
<1>3. rpc # "dead"
  BY <1>2 DEF StopInv, ReaderOutlivesWalk, OrderInv, EndInv
<1>4. Journal!FramesOf(cursor) = capCount /\ WindowOf(active) = cursor
  BY <1>2, <1>3, WindowIsCounted, WindowOfWalk
<1> DEFINE row == AttemptRow(cursor, s)
<1>5. /\ index' = Append(index, row) /\ active' = NoCap /\ UNCHANGED <<log, frameSeq>>
      /\ row.seq = cursor /\ row.status = s /\ row.frames = capCount
  BY <1>1 DEF DisarmAndIndex, AttemptRow, rootVars
<1>6. row \in Row
  <2>1. WindowEnd \in Nat \union {Nothing}
    BY DEF TypeInv, TypeOK, WriterTypeOK, WindowEnd, Nothing
  <2> QED
    BY <1>2, <2>1, WalkType DEF TypeInv, TypeOK, WriterTypeOK, AttemptRow, Row
<1> HIDE DEF row
<1>7. summary' = Append(summary, [window |-> cursor, status |-> s, frames |-> capCount])
  BY <1>5, <1>6, MoreRows
<1>8. recorded' = recorded
  BY <1>5, NothingRecorded
<1>9. WindowOf(active') = 0 /\ cursor # 0
  BY <1>2, <1>5, WindowOfNone DEF NoSlice
<1>10. Journal!CloseWindow(s)
  BY <1>4, <1>7, <1>8, <1>9 DEF Journal!CloseWindow, Journal!NoWindow, WindowOf
<1> QED
  BY <1>10 DEF Journal!Outcomes, Statuses

LEMMA MarkMarks ==
  ASSUME DistinctIds, JournalInv, Mapped, Mapped', MarkStep
  PROVE  \E w \in 1..Len(Walk) : Journal!MarkNotRun(w)
<1> USE IndexTyped DEF JournalInv, SessionInv
<1> DEFINE p == cursor + 1
           row == [seq |-> p, id |-> Walk[p], status |-> "not_run",
                   frames |-> 0, start |-> Nothing, end |-> Nothing]
<1>1. p \in Positions /\ p \in Nat /\ p > cursor
  BY WalkType DEF MarkStep, Positions
<1>2. index' = Append(index, row) /\ UNCHANGED <<log, frameSeq, active>>
  BY DEF MarkStep, MarkNotRun, rootVars
<1>3. row \in Row /\ row.seq = p /\ row.status = "not_run" /\ row.frames = 0
  BY <1>1, WalkType DEF Row, Statuses
<1> HIDE DEF row
<1>4. summary' = Append(summary, [window |-> p, status |-> "not_run", frames |-> 0])
  BY <1>2, <1>3, MoreRows
<1>5. Unused(p) /\ active # Walk[p] /\ \A r \in 1..Len(index) : index[r].seq < p
  BY <1>1 DEF TagInv, RowInv
<1>6. Journal!FramesOf(p) = 0 /\ Journal!Untouched(p)
  BY <1>1, <1>5, NoneOfWindow, UntouchedFrom
<1>7. WindowOf(active) < p
  <2>1. active \in CapIds \union {NoCap}
    BY DEF TypeInv, TypeOK, WriterTypeOK
  <2>2. CASE active = NoCap
    BY <1>1, <2>2, WindowOfNone
  <2>3. CASE active \in CapIds
    <3>1. PICK q \in Positions : active = Walk[q]
      BY <2>3 DEF CapIds
    <3>2. ~ (q > cursor) /\ WindowOf(active) = q /\ q \in Nat
      BY <3>1, WindowOfWalk DEF TagInv, Positions
    <3> QED
      BY <1>1, <3>2
  <2> QED
    BY <2>1, <2>2, <2>3
<1>8. recorded' = recorded
  BY <1>2, NothingRecorded
<1>9. Journal!MarkNotRun(p)
  <2>1. p > WindowOf(active)
    BY <1>1, <1>7, WindowTyped DEF TypeInv, TypeOK, WriterTypeOK
  <2> QED
    BY <1>2, <1>4, <1>6, <1>8, <2>1 DEF Journal!MarkNotRun, WindowOf
<1> QED
  BY <1>1, <1>9 DEF Positions

LEMMA StepImplements ==
  ASSUME DistinctIds, "disk" \notin Faults, JournalInv, Mapped, Mapped', AnyStep
  PROVE  [Journal!Next]_Journal!vars
<1>1. CASE QuietStep \/ AdvanceStep \/ ArmFailsStep \/ WriteStep \/ CloseStep
  BY <1>1, StutterSteps DEF journalSame, Journal!vars
<1>2. CASE ArmStep
  BY <1>2, ArmOpens DEF Journal!Next
<1>3. CASE CountStep \/ CountFailsStep
  BY <1>3, CountRecords DEF Journal!Next, BusFrames
<1>4. CASE DisarmStep
  BY <1>4, DisarmCloses DEF Journal!Next
<1>5. CASE MarkStep
  BY <1>5, MarkMarks DEF Journal!Next
<1> QED
  BY <1>1, <1>2, <1>3, <1>4, <1>5 DEF AnyStep

\* A session implements the journal of CapabilityLog: each frame belongs to the
\* one window that was open when it was counted, whichever thread wrote it, and
\* the row that closes a window counts exactly its frames.
THEOREM JournalKept == DistinctIds /\ "disk" \notin Faults => (Spec => KeepsJournal)
<1> SUFFICES ASSUME DistinctIds, "disk" \notin Faults PROVE Spec => KeepsJournal
  OBVIOUS
<1>1. Init => Journal!Init
  BY WindowOfNone
  DEF Init, OpenWriter, Journal!Init, Journal!NoWindow, recorded, summary
<1>2. JournalInv /\ JournalInv' /\ [Next]_vars => [Journal!Next]_Journal!vars
  <2>1. JournalInv => Mapped
    BY MappedTyped DEF JournalInv, SessionInv
  <2>2. JournalInv' => Mapped'
    BY <2>1, PTL
  <2> QED
    BY <2>1, <2>2, StepKinds, StepImplements DEF JournalInv, SessionInv
<1>3. Spec => []JournalInv
  BY JournalInvHolds
<1> QED
  BY <1>1, <1>2, <1>3, PTL DEF Spec, KeepsJournal, Journal!Spec

-----------------------------------------------------------------------------
(* Extraction.                                                             *)

(* The lines with the tag of a window are its slice file, from the moment  *)
(* it opens; while a line is being written, the log is one line ahead.     *)
SliceInv ==
    /\ \A r \in 1..Len(index) : /\ index[r].id = Walk[index[r].seq]
                                /\ active # index[r].id
                                /\ ExtractFrames(log, index[r].id) = slices[index[r].seq]
    /\ \A p \in Positions : p > cursor => ExtractFrames(log, Walk[p]) = <<>>
    /\ pc = "PROMPT_ARM" => ExtractFrames(log, Walk[cursor]) = <<>>
    /\ pc \in WalkPhases /\ sliceFp # NoSlice =>
          ExtractFrames(log, Walk[sliceFp]) = IF lock = "free" THEN slices[sliceFp]
                               ELSE Append(slices[sliceFp], log[Len(log)])

LEMMA InitSliceInv == Init => SliceInv
BY ExtractNothing, WalkType DEF Init, OpenWriter, SliceInv, NoSlice, Positions

(* A line that is written is extracted by its own tag and no other.        *)
LEMMA WriteExtracts ==
  ASSUME TypeInv, WriteStep
  PROVE  /\ log' # <<>> /\ lock = "free" /\ lock' # "free"
         /\ UNCHANGED <<pc, cursor, active, sliceFp, slices, index>>
         /\ \A p \in Positions :
               ExtractFrames(log', Walk[p]) = IF active = Walk[p] THEN Append(ExtractFrames(log, Walk[p]), log'[Len(log')])
                                                   ELSE ExtractFrames(log, Walk[p])
<1>1. PICK t \in Threads, f \in Nat : WriteLine(t, f)
  BY DEF WriteStep
<1> DEFINE line == [seq |-> frameSeq, frame |-> f, cap |-> active]
<1>2. /\ log' = Append(log, line) /\ log \in Seq(Line) /\ line \in Line /\ line.cap = active
      /\ lock = "free" /\ lock' = t
      /\ UNCHANGED <<pc, cursor, active, sliceFp, slices, index>>
  BY <1>1 DEF WriteStep, WriteLine, windowVars, indexVars, TypeInv, TypeOK, WriterTypeOK, Line
<1> HIDE DEF line
<1>3. log' # <<>> /\ log'[Len(log')] = line
  BY <1>2
<1>4. ASSUME NEW p \in Positions
      PROVE  ExtractFrames(log', Walk[p]) = IF active = Walk[p] THEN Append(ExtractFrames(log, Walk[p]), line)
                                                 ELSE ExtractFrames(log, Walk[p])
  BY ZenonT(30), <1>2, ExtractAppend
<1> QED
  BY <1>2, <1>3, <1>4 DEF Threads

LEMMA SliceInvStep ==
  ASSUME DistinctIds, "disk" \notin Faults, JournalInv, JournalInv', SliceInv, AnyStep
  PROVE  SliceInv'
<1> USE IndexTyped DEF JournalInv, SessionInv
<1>a. cursor' \in 0..Len(Walk) /\ \A p \in Positions : p \in Nat /\ p # NoSlice
  BY WalkType DEF TypeInv, TypeOK, MainTypeOK, Positions, NoSlice
<1>b. rpc' = "dead" => pc' \notin WalkPhases
  BY DEF StopInv, ReaderOutlivesWalk, OrderInv, EndInv
<1>c. RowsKept
  BY RowsAreKept
<1>1. CASE QuietStep \/ AdvanceStep
  BY SMTT(30), <1>1, <1>a DEF QuietStep, AdvanceStep, core, WalkPhases, Positions, SliceInv
<1>2. CASE ArmStep
  <2>1. /\ active' = Walk[cursor'] /\ sliceFp' = cursor' /\ lock' = lock /\ lock = "free"
        /\ log' = log /\ index' = index /\ cursor' \in Positions /\ pc' = "ARMED"
        /\ slices' = [slices EXCEPT ![cursor'] = <<>>] /\ cursor' >= cursor
        /\ (pc = "SELECT_NEXT" /\ cursor' > cursor) \/ (pc = "PROMPT_ARM" /\ cursor' = cursor)
    BY <1>2 DEF ArmStep, Arm, rootVars, indexVars
  <2>2. slices'[cursor'] = <<>>
    BY <2>1 DEF TypeInv, TypeOK, WriterTypeOK
  <2>3. ExtractFrames(log', Walk[cursor']) = <<>>
    BY <2>1 DEF SliceInv
  <2>4. \A r \in 1..Len(index) : index[r].seq < cursor' /\ index[r].seq \in Positions
    BY <2>1 DEF RowInv, CurrentPhases
  <2>5. \A r \in 1..Len(index) : index[r].seq # cursor'
    BY <2>1, <2>4, <1>a
  <2>6. \A r \in 1..Len(index) : index[r].id # active'
    BY <2>1, <2>4, <2>5 DEF SliceInv, DistinctIds
  <2>7. \A r \in 1..Len(index) : ExtractFrames(log', index[r].id) = slices'[index[r].seq]
    BY <1>c, <2>1 DEF SliceInv, RowsKept
  <2>8. \A p \in Positions : p > cursor' => ExtractFrames(log', Walk[p]) = <<>>
    BY <1>a, <2>1 DEF SliceInv
  <2> QED
    BY <2>1, <2>2, <2>3, <2>6, <2>7, <2>8 DEF SliceInv
<1>3. CASE ArmFailsStep \/ CloseStep
  BY SMTT(30), <1>3, <1>a DEF ArmFailsStep, ArmFails, CloseStep, CloseSlice, rootVars, indexVars,
     WalkPhases, SliceInv
<1>4. CASE DisarmStep
  <2>1. PICK s \in Statuses : DisarmAndIndex(cursor, s)
    BY <1>4 DEF DisarmStep
  <2> DEFINE row == AttemptRow(cursor, s)
  <2>2. /\ index' = Append(index, row) /\ row.seq = cursor /\ row.id = Walk[cursor]
        /\ lock = "free" /\ active' = NoCap /\ sliceFp' = NoSlice
        /\ UNCHANGED <<log, slices, cursor>>
        /\ pc' # "PROMPT_ARM" /\ pc \in WalkPhases
    BY <1>4, <2>1
    DEF DisarmStep, DisarmAndIndex, AttemptRow, ForgetSlice, rootVars, WalkPhases
  <2>3. cursor \in Positions /\ sliceFp = cursor /\ cursor # NoSlice
    BY <1>4, <1>a, CurrentPosition DEF DisarmStep, PhaseInv, CurrentPhases
  <2>4. ExtractFrames(log', Walk[cursor]) = slices'[cursor]
    BY <2>2, <2>3 DEF SliceInv
  <2> HIDE DEF row
  <2>5. /\ Len(index') = Len(index) + 1 /\ index'[Len(index) + 1] = row
        /\ \A r \in 1..Len(index) : index'[r] = index[r]
    BY <2>2 DEF TypeInv, TypeOK, WriterTypeOK
  <2>6. \A r \in 1..Len(index') : r \in 1..Len(index) \/ r = Len(index) + 1
    BY <2>5
  <2>7. ASSUME NEW r \in 1..Len(index')
        PROVE  /\ index'[r].id = Walk[index'[r].seq] /\ active' # index'[r].id
               /\ ExtractFrames(log', index'[r].id) = slices'[index'[r].seq]
    <3>1. CASE r = Len(index) + 1
      BY <2>2, <2>3, <2>4, <2>5, <3>1, WalkType
    <3>2. CASE r \in 1..Len(index)
      <4>1. index[r].seq \in Positions /\ index'[r] = index[r]
        BY <2>5, <3>2
      <4> QED
        BY <2>2, <3>2, <4>1, WalkType DEF SliceInv
    <3> QED
      BY <2>6, <3>1, <3>2
  <2> QED
    BY <2>2, <2>7 DEF SliceInv
<1>5. CASE MarkStep
  <2> DEFINE p == cursor + 1
             row == [seq |-> p, id |-> Walk[p], status |-> "not_run",
                     frames |-> 0, start |-> Nothing, end |-> Nothing]
  <2>1. /\ index' = Append(index, row) /\ row.seq = p /\ row.id = Walk[p] /\ cursor' = p
        /\ UNCHANGED <<log, active>> /\ pc' = "MARK" /\ p \in Positions /\ p > cursor
        /\ slices' = [slices EXCEPT ![p] = <<>>]
    BY <1>5, WalkType DEF MarkStep, MarkNotRun, rootVars, Positions
  <2>2. ExtractFrames(log', Walk[p]) = <<>> /\ slices'[p] = <<>> /\ active # Walk[p]
    BY <2>1 DEF SliceInv, TagInv, TypeInv, TypeOK, WriterTypeOK
  <2> HIDE DEF row
  <2>3. /\ Len(index') = Len(index) + 1 /\ index'[Len(index) + 1] = row
        /\ \A r \in 1..Len(index) : index'[r] = index[r]
    BY <2>1 DEF TypeInv, TypeOK, WriterTypeOK
  <2>4. \A r \in 1..Len(index') : r \in 1..Len(index) \/ r = Len(index) + 1
    BY <2>3
  <2>5. ASSUME NEW r \in 1..Len(index')
        PROVE  /\ index'[r].id = Walk[index'[r].seq] /\ active' # index'[r].id
               /\ ExtractFrames(log', index'[r].id) = slices'[index'[r].seq]
    <3>1. CASE r = Len(index) + 1
      BY <2>1, <2>2, <2>3, <3>1
    <3>2. CASE r \in 1..Len(index)
      BY <1>c, <2>1, <2>3, <3>2 DEF SliceInv, RowsKept
    <3> QED
      BY <2>4, <3>1, <3>2
  <2>6. \A q \in Positions : q > cursor' => ExtractFrames(log', Walk[q]) = <<>>
    BY <1>a, <2>1 DEF SliceInv
  <2> QED
    BY <2>1, <2>5, <2>6 DEF SliceInv, WalkPhases
<1>6. CASE WriteStep
  <2>1. /\ lock = "free" /\ lock' # "free"
        /\ UNCHANGED <<pc, cursor, active, sliceFp, slices, index>>
        /\ \A p \in Positions :
              ExtractFrames(log', Walk[p]) = IF active = Walk[p] THEN Append(ExtractFrames(log, Walk[p]), log'[Len(log')])
                                                  ELSE ExtractFrames(log, Walk[p])
    BY <1>6, WriteExtracts
  <2>2. \A r \in 1..Len(index) : ExtractFrames(log', index[r].id) = ExtractFrames(log, index[r].id)
    BY <2>1 DEF SliceInv
  <2>3. \A p \in Positions : p > cursor => ExtractFrames(log', Walk[p]) = ExtractFrames(log, Walk[p])
    BY <2>1 DEF TagInv
  <2>4. pc = "PROMPT_ARM" => ExtractFrames(log', Walk[cursor]) = ExtractFrames(log, Walk[cursor])
    <3> SUFFICES ASSUME pc = "PROMPT_ARM" PROVE ExtractFrames(log', Walk[cursor]) = ExtractFrames(log, Walk[cursor])
      OBVIOUS
    <3>1. active = NoCap /\ cursor \in Positions
      BY CurrentPosition DEF PhaseInv, TagInv, WalkPhases, CurrentPhases
    <3> QED
      BY <2>1, <3>1, WalkType
  <2>5. pc \in WalkPhases /\ sliceFp # NoSlice =>
           ExtractFrames(log', Walk[sliceFp]) = Append(slices[sliceFp], log'[Len(log')])
    BY <2>1 DEF SliceInv, WindowInv, TypeInv, TypeOK, WriterTypeOK
  <2> QED
    BY <2>1, <2>2, <2>3, <2>4, <2>5 DEF SliceInv
<1>7. CASE CountStep
  <2>1. /\ lock # "free" /\ lock' = "free"
        /\ UNCHANGED <<pc, cursor, active, sliceFp, log, index>>
    BY <1>7 DEF CountStep, CountLine, indexVars
  <2>2. pc \in WalkPhases /\ sliceFp # NoSlice =>
           slices'[sliceFp] = Append(slices[sliceFp], log[Len(log)])
    <3> SUFFICES ASSUME pc \in WalkPhases, sliceFp # NoSlice
                 PROVE  slices'[sliceFp] = Append(slices[sliceFp], log[Len(log)])
      OBVIOUS
    <3>1. active = Walk[sliceFp] /\ sliceFp \in Positions
      BY DEF WindowInv, TypeInv, TypeOK, WriterTypeOK
    <3>2. slices' = [slices EXCEPT ![sliceFp] = Append(@, log[Len(log)])]
      BY <1>7, <3>1, WalkType DEF CountStep, CountLine
    <3> QED
      BY <3>1, <3>2 DEF TypeInv, TypeOK, WriterTypeOK
  <2> QED
    BY <1>c, <2>1, <2>2 DEF SliceInv, RowsKept
<1>8. CASE CountFailsStep
  <2>1. UNCHANGED <<log, index, slices, active, cursor, pc>> /\ pc' \notin WalkPhases
    BY <1>8, <1>b, <1>c DEF CountFailsStep, CountLineFails, windowVars, indexVars
  <2> QED
    BY <2>1 DEF SliceInv, WalkPhases
<1> QED
  BY <1>1, <1>2, <1>3, <1>4, <1>5, <1>6, <1>7, <1>8 DEF AnyStep

\* The lines of the root log that carry the id of a finished capability are, line
\* for line, the slice file its index row names: extract-capability gives back what
\* the writer dual-wrote, for logs of every length.
THEOREM ExtractedIsSlice ==
  DistinctIds /\ "disk" \notin Faults => (Spec => []ExtractIsSlice)
<1> SUFFICES ASSUME DistinctIds, "disk" \notin Faults PROVE Spec => []ExtractIsSlice
  OBVIOUS
<1>1. JournalInv /\ JournalInv' /\ SliceInv /\ [Next]_vars => SliceInv'
  BY StepKinds, SliceInvStep DEF JournalInv, SessionInv
<1>2. SliceInv => ExtractIsSlice
  BY DEF SliceInv, ExtractIsSlice
<1>3. Spec => []JournalInv
  BY JournalInvHolds
<1> QED
  BY <1>1, <1>2, <1>3, InitSliceInv, PTL DEF Spec

=============================================================================
