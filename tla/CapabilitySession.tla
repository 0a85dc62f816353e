------------------------- MODULE CapabilitySession -------------------------
(***************************************************************************)
(* A guided capability capture (CapabilitySession.run): the main thread    *)
(* walks the catalog with the operator, a daemon reader thread takes bytes *)
(* from the bus, frames them and writes them through the session writer.   *)
(* Every step of a thread between two points where the other can see or    *)
(* change something is one action.                                         *)
(*                                                                         *)
(* The bus is the sequence of frames 1, 2, 3...; a read returns the next   *)
(* few of them (bytes of an unfinished frame are carried by the read that  *)
(* completes it).  The framer's buffer is a sequence of frames that the    *)
(* two threads drain without a lock: copying a frame out and deleting its  *)
(* bytes are two steps, and frames have one length, so a delete always     *)
(* removes whichever frame is first by then.                               *)
(***************************************************************************)
EXTENDS CapabilityWriter, Triage, FiniteSets

CONSTANTS
    SkipIds,      \* CapabilitySessionConfig.skip_ids
    ArmOnPrompt,  \* CapabilitySessionConfig.arm_on_prompt
    MaxFrames,    \* bound: frames on the bus
    MaxChunk,     \* bound: frames completed by one read
    Faults        \* the failures that may happen in this instance

ASSUME ConfigAssumption ==
    /\ ArmOnPrompt \in BOOLEAN
    /\ MaxFrames \in Nat /\ MaxChunk \in Nat
    /\ Faults \subseteq {"interrupt", "open", "disk"}
    /\ NoStatus \notin Statuses

VARIABLES
    pc,         \* the main thread: a SessionPhase, or a point inside one
    cursor,     \* _cursor; while a window is current it is also _current_seq
    pending,    \* _pending_status
    quit,       \* _quit_requested
    raised,     \* the walk ended by an exception or a Ctrl-C, not by its phases
    joined,     \* join(timeout=2.0) returned because the reader had ended
    stop,       \* the _stop event
    link,       \* the transport: "new", "open" or "closed"
    rpc,        \* the reader thread
    chunk,      \* the frames of the read in progress
    fbuf,       \* Framer._buf, as the complete frames in it
    copy,       \* per thread: the frame copied out of fbuf but not yet deleted
    taken,      \* per thread: the frames drained and not yet written
    nextFrame   \* the next frame the bus will deliver

walkVars   == <<cursor, pending, quit>>
endVars    == <<raised, joined>>
linkVars   == <<stop, link>>
mainVars   == <<pc, walkVars, endVars, linkVars>>
framerVars == <<fbuf, copy, taken>>
readerVars == <<rpc, chunk, nextFrame>>
vars       == <<writerVars, mainVars, framerVars, readerVars>>

WalkPhases   == {"SESSION_INIT", "SELECT_NEXT", "PROMPT_ARM", "ARMED", "RECORDING",
                 "FINALIZE"}
ClosingSteps == {"STOP", "JOIN", "FLUSH", "FLUSH_WRITE", "MARK", "CLOSE_SLICE",
                 "WRITE_INDEX", "CLOSE_RAW", "CLOSE_FRAMES", "WRITE_META", "CLOSE_LINK",
                 "DONE"}
ReaderSteps  == {"off", "loop", "read", "raw", "feed", "drain", "write", "dead"}
NoFrame      == 0

MainTypeOK ==
    /\ pc \in WalkPhases \union ClosingSteps
    /\ cursor \in 0..Len(Walk)
    /\ pending \in Statuses \union {NoStatus}
    /\ quit \in BOOLEAN /\ raised \in BOOLEAN /\ joined \in BOOLEAN /\ stop \in BOOLEAN
    /\ link \in {"new", "open", "closed"}

ReaderTypeOK ==
    /\ rpc \in ReaderSteps
    /\ chunk \in Seq(Nat) /\ fbuf \in Seq(Nat)
    /\ copy \in [Threads -> Nat]
    /\ taken \in [Threads -> Seq(Nat)]
    /\ nextFrame \in Nat

\* The state stays within what the fields of the code can hold, and only the
\* listed program points are reached.
TypeOK == WriterTypeOK /\ MainTypeOK /\ ReaderTypeOK

-----------------------------------------------------------------------------
(* The main thread: the phases of the walk.                                *)

Goto(p) == pc' = p

(* A step whose only effect is to get from one point to the next.          *)
Move(from, to) ==
    /\ pc = from /\ Goto(to)
    /\ UNCHANGED <<writerVars, walkVars, endVars, linkVars, framerVars, readerVars>>

(* An exception or a Ctrl-C leaves the loop of run() for its finally block. *)
Raise == raised' = TRUE /\ Goto("STOP")

Start == Move("SESSION_INIT", "SELECT_NEXT")

WalkEnded == quit \/ cursor = Len(Walk)

SelectEnd == Move("SELECT_NEXT", "STOP") /\ WalkEnded

(* A capability of --skip is armed and finalised without a prompt.         *)
SelectSkipped ==
    /\ pc = "SELECT_NEXT" /\ ~WalkEnded
    /\ Walk[cursor + 1] \in SkipIds
    /\ cursor' = cursor + 1
    /\ Arm(cursor + 1)
    /\ pending' = "skipped"
    /\ Goto("ARMED")
    /\ UNCHANGED <<quit, endVars, linkVars, framerVars, readerVars>>

SelectNext ==
    /\ pc = "SELECT_NEXT" /\ ~WalkEnded
    /\ Walk[cursor + 1] \notin SkipIds
    /\ cursor' = cursor + 1
    /\ Goto("PROMPT_ARM")
    /\ UNCHANGED <<writerVars, pending, quit, endVars, linkVars, framerVars,
                   readerVars>>

(* With arm_on_prompt the window opens before the operator acts.           *)
PromptArms ==
    /\ pc = "PROMPT_ARM" /\ ArmOnPrompt
    /\ Arm(cursor)
    /\ Goto("ARMED")
    /\ UNCHANGED <<walkVars, endVars, linkVars, framerVars, readerVars>>

(* Without it, the first key: q, d and s arm the window and finalise it at *)
(* once; any other key (NoStatus) arms it and starts the recording.        *)
PromptKey(status, quits) ==
    /\ pc = "PROMPT_ARM" /\ ~ArmOnPrompt
    /\ Arm(cursor)
    /\ pending' = status
    /\ quit' = (quit \/ quits)
    /\ Goto("ARMED")
    /\ UNCHANGED <<cursor, endVars, linkVars, framerVars, readerVars>>

(* arm() fails on the disk, in whichever phase calls it.                   *)
ArmRaises ==
    /\ "disk" \in Faults
    /\ \/ /\ pc = "SELECT_NEXT" /\ ~WalkEnded /\ Walk[cursor + 1] \in SkipIds
          /\ cursor' = cursor + 1
       \/ /\ pc = "PROMPT_ARM"
          /\ UNCHANGED cursor
    /\ ArmFails
    /\ Raise
    /\ UNCHANGED <<pending, quit, joined, linkVars, framerVars, readerVars>>

AfterArm == IF pending = NoStatus THEN "RECORDING" ELSE "FINALIZE"

(* _ensure_reader(), the first time: open the transport, reset the framer, *)
(* start the thread.  The wait for a fixture's burst changes no state.     *)
EnsureReader ==
    /\ pc = "ARMED" /\ link = "new"
    /\ link' = "open"
    /\ fbuf' = <<>>
    /\ stop' = FALSE
    /\ rpc' = "loop"
    /\ Goto(AfterArm)
    /\ UNCHANGED <<writerVars, walkVars, endVars, copy, taken, chunk, nextFrame>>

(* _ensure_reader() when the reader was started before.                    *)
ReaderStarted == Move("ARMED", AfterArm) /\ link # "new"

(* open() raises, or a Ctrl-C ends its wait for a link.                    *)
OpenRaises ==
    /\ "open" \in Faults
    /\ pc = "ARMED" /\ link = "new"
    /\ Raise
    /\ UNCHANGED <<writerVars, walkVars, joined, linkVars, framerVars, readerVars>>

(* A key while recording: d and s finish the window; q finishes it as      *)
(* skipped and ends the walk.  Any other key changes nothing.              *)
RecordingKey(status, quits) ==
    /\ pc = "RECORDING"
    /\ pending' = status
    /\ quit' = (quit \/ quits)
    /\ Goto("FINALIZE")
    /\ UNCHANGED <<writerVars, cursor, endVars, linkVars, framerVars, readerVars>>

(* Ctrl-C at a prompt: _read_key lets KeyboardInterrupt through.           *)
Interrupt ==
    /\ "interrupt" \in Faults
    /\ pc = "RECORDING" \/ (pc = "PROMPT_ARM" /\ ~ArmOnPrompt)
    /\ Raise
    /\ UNCHANGED <<writerVars, walkVars, joined, linkVars, framerVars, readerVars>>

Finalize ==
    /\ pc = "FINALIZE"
    /\ DisarmAndIndex(cursor, IF pending = NoStatus THEN "skipped" ELSE pending)
    /\ pending' = NoStatus
    /\ Goto(IF quit THEN "STOP" ELSE "SELECT_NEXT")
    /\ UNCHANGED <<cursor, quit, endVars, linkVars, framerVars, readerVars>>

-----------------------------------------------------------------------------
(* Framer.feed, as either thread runs it: take frames until none is left.  *)

DrainCopy(t) ==
    /\ copy[t] = NoFrame /\ fbuf # <<>>
    /\ copy' = [copy EXCEPT ![t] = Head(fbuf)]
    /\ UNCHANGED <<fbuf, taken>>

DrainDelete(t) ==
    /\ copy[t] # NoFrame
    /\ taken' = [taken EXCEPT ![t] = Append(@, copy[t])]
    /\ copy' = [copy EXCEPT ![t] = NoFrame]
    /\ fbuf' = IF fbuf = <<>> THEN <<>> ELSE Tail(fbuf)

DrainStep(t) == DrainCopy(t) \/ DrainDelete(t)

Drained(t) == copy[t] = NoFrame /\ fbuf = <<>>

WriteTakenNewest(t) ==           \* mutant: the newest frame first
    /\ taken[t] # <<>>
    /\ WriteLine(t, taken[t][Len(taken[t])])
    /\ taken' = [taken EXCEPT ![t] = SubSeq(@, 1, Len(@) - 1)]
    /\ UNCHANGED <<fbuf, copy>>

(* The loop over the frames feed() returned: one write_frame per frame.    *)
WriteTaken(t) ==
    /\ taken[t] # <<>>
    /\ WriteLine(t, Head(taken[t]))
    /\ taken' = [taken EXCEPT ![t] = Tail(@)]
    /\ UNCHANGED <<fbuf, copy>>

-----------------------------------------------------------------------------
(* The main thread: the finally block of run().                            *)

StopReader ==
    /\ pc = "STOP"
    /\ stop' = TRUE
    /\ Goto("JOIN")
    /\ UNCHANGED <<writerVars, walkVars, endVars, link, framerVars, readerVars>>

JoinReaderUnchecked ==           \* mutant: the reader is not waited for
    /\ pc = "JOIN"
    /\ joined' = TRUE
    /\ Goto("FLUSH")
    /\ UNCHANGED <<writerVars, walkVars, raised, linkVars, framerVars, readerVars>>

(* join() returns: the reader has ended, or was never started.             *)
JoinReader ==
    /\ pc = "JOIN" /\ rpc \in {"off", "dead"}
    /\ joined' = TRUE
    /\ Goto("FLUSH")
    /\ UNCHANGED <<writerVars, walkVars, raised, linkVars, framerVars, readerVars>>

JoinTimeoutNever ==              \* mutant: join() without a timeout
    Move("JOIN", "FLUSH") /\ rpc \in {"off", "dead"}

(* join() gives up after its two seconds with the reader still running.    *)
JoinTimeout == Move("JOIN", "FLUSH") /\ rpc \notin {"off", "dead"}

(* A second Ctrl-C, during the join, abandons the finally block.           *)
InterruptJoin ==
    /\ "interrupt" \in Faults
    /\ pc = "JOIN"
    /\ raised' = TRUE
    /\ Goto("DONE")
    /\ UNCHANGED <<writerVars, walkVars, joined, linkVars, framerVars, readerVars>>

Flush ==
    /\ pc = "FLUSH"
    /\ \/ DrainStep("main") /\ UNCHANGED pc
       \/ Drained("main") /\ Goto("FLUSH_WRITE") /\ UNCHANGED framerVars
    /\ UNCHANGED <<writerVars, walkVars, endVars, linkVars, readerVars>>

FlushWrite ==
    /\ pc = "FLUSH_WRITE"
    /\ \/ lock # "main" /\ WriteTaken("main")
       \/ CountLine("main") /\ UNCHANGED framerVars
    /\ UNCHANGED <<mainVars, readerVars>>

FlushDone == Move("FLUSH_WRITE", "MARK") /\ lock # "main" /\ taken["main"] = <<>>

MarkRemaining ==
    /\ pc = "MARK" /\ cursor < Len(Walk)
    /\ cursor' = cursor + 1
    /\ MarkNotRun(cursor + 1)
    /\ UNCHANGED <<pc, pending, quit, endVars, linkVars, framerVars, readerVars>>

MarkDoneEarly == Move("MARK", "CLOSE_SLICE")     \* mutant: the loop can stop short

MarkDone == Move("MARK", "CLOSE_SLICE") /\ cursor = Len(Walk)

(* writer.close(): the lock is held for its first step only.               *)
CloseWriter ==
    /\ \/ pc = "CLOSE_SLICE"  /\ CloseSlice  /\ Goto("WRITE_INDEX")
       \/ pc = "WRITE_INDEX"  /\ WriteIndex  /\ Goto("CLOSE_RAW")
       \/ pc = "CLOSE_RAW"    /\ CloseRaw    /\ Goto("CLOSE_FRAMES")
       \/ pc = "CLOSE_FRAMES" /\ CloseFrames /\ Goto("WRITE_META")
       \/ pc = "WRITE_META"   /\ WriteMeta   /\ Goto("CLOSE_LINK")
    /\ UNCHANGED <<walkVars, endVars, linkVars, framerVars, readerVars>>

CloseLink ==
    /\ pc = "CLOSE_LINK"
    /\ link' = "closed"
    /\ Goto("DONE")
    /\ UNCHANGED <<writerVars, walkVars, endVars, stop, framerVars, readerVars>>

(* A write of the finally block fails: the rest of the block is skipped.   *)
ShutdownFails ==
    /\ "disk" \in Faults
    /\ lock # "main"
    /\ \/ pc = "FLUSH_WRITE" /\ taken["main"] # <<>>
       \/ pc = "MARK" /\ cursor < Len(Walk)
       \/ pc \in {"WRITE_INDEX", "WRITE_META"}
    /\ raised' = TRUE
    /\ Goto("DONE")
    /\ UNCHANGED <<writerVars, walkVars, joined, linkVars, framerVars, readerVars>>

-----------------------------------------------------------------------------
(* The reader thread: _reader_loop.                                        *)

ReaderCheck ==
    /\ rpc = "loop"
    /\ rpc' = IF stop THEN "dead" ELSE "read"
    /\ UNCHANGED <<writerVars, mainVars, framerVars, chunk, nextFrame>>

(* A read returns data.  One that started before close() may still do so.  *)
ReadFrames(n) ==
    /\ rpc = "read"
    /\ nextFrame + n <= MaxFrames + 1
    /\ chunk' = [i \in 1..n |-> nextFrame + i - 1]
    /\ nextFrame' = nextFrame + n
    /\ rpc' = "raw"
    /\ UNCHANGED <<writerVars, mainVars, framerVars>>

ReadNothingEnds ==               \* mutant: an empty read ends the reader
    /\ rpc = "read"
    /\ rpc' = "dead"
    /\ UNCHANGED <<writerVars, mainVars, framerVars, chunk, nextFrame>>

(* A read returns nothing or raises: sleep, then look at _stop again.      *)
ReadNothing ==
    /\ rpc = "read"
    /\ rpc' = "loop"
    /\ UNCHANGED <<writerVars, mainVars, framerVars, chunk, nextFrame>>

ReaderRaw ==
    /\ rpc = "raw"
    /\ WriteRaw(chunk)
    /\ rpc' = "feed"
    /\ UNCHANGED <<mainVars, framerVars, chunk, nextFrame>>

ReaderFeed ==
    /\ rpc = "feed"
    /\ fbuf' = fbuf \o chunk
    /\ chunk' = <<>>
    /\ rpc' = "drain"
    /\ UNCHANGED <<writerVars, mainVars, copy, taken, nextFrame>>

ReaderDrainOne ==                \* mutant: feed() returns after one frame
    /\ rpc = "drain"
    /\ \/ DrainCopy("reader") /\ UNCHANGED rpc
       \/ DrainDelete("reader") /\ rpc' = "write"
       \/ Drained("reader") /\ rpc' = "write" /\ UNCHANGED framerVars
    /\ UNCHANGED <<writerVars, mainVars, chunk, nextFrame>>

ReaderDrain ==
    /\ rpc = "drain"
    /\ \/ DrainStep("reader") /\ UNCHANGED rpc
       \/ Drained("reader") /\ rpc' = "write" /\ UNCHANGED framerVars
    /\ UNCHANGED <<writerVars, mainVars, chunk, nextFrame>>

ReaderWrite ==
    /\ rpc = "write"
    /\ \/ lock # "reader" /\ WriteTaken("reader")
       \/ CountLine("reader") /\ UNCHANGED framerVars
    /\ UNCHANGED <<mainVars, readerVars>>

ReaderWritten ==
    /\ rpc = "write" /\ lock # "reader" /\ taken["reader"] = <<>>
    /\ rpc' = "loop"
    /\ UNCHANGED <<writerVars, mainVars, framerVars, chunk, nextFrame>>

(* An exception outside the read ends the thread; nothing restarts it and  *)
(* what it held is gone.  The writer raises when it has been closed.       *)
ReaderDies ==
    /\ rpc' = "dead"
    /\ chunk' = <<>>
    /\ taken' = [taken EXCEPT !["reader"] = <<>>]
    /\ UNCHANGED <<mainVars, fbuf, copy, nextFrame>>

WriterIsClosed ==
    \/ rpc = "raw" /\ ~rawFp
    \/ rpc = "write" /\ taken["reader"] # <<>> /\ ~framesFp

ReaderFindsClosed ==
    /\ lock = "free"
    /\ WriterIsClosed
    /\ ReaderDies
    /\ UNCHANGED writerVars

(* A failing write: of the raw line, of the root line, or, the root line   *)
(* written, of the slice line.  A failed line leaves nothing in its file.  *)
ReaderDiskError ==
    /\ "disk" \in Faults
    /\ \/ rpc = "raw" /\ lock = "free" /\ UNCHANGED writerVars
       \/ rpc = "write" /\ lock = "free" /\ taken["reader"] # <<>> /\ UNCHANGED writerVars
       \/ rpc = "write" /\ CountLineFails("reader")
    /\ ReaderDies

-----------------------------------------------------------------------------
Init ==
    /\ OpenWriter
    /\ pc = "SESSION_INIT" /\ cursor = 0
    /\ pending = NoStatus /\ quit = FALSE /\ raised = FALSE /\ joined = FALSE
    /\ stop = FALSE /\ link = "new"
    /\ rpc = "off" /\ chunk = <<>> /\ nextFrame = 1
    /\ fbuf = <<>>
    /\ copy = [t \in Threads |-> NoFrame]
    /\ taken = [t \in Threads |-> <<>>]

Keys ==
    \/ PromptKey("not_run", TRUE) \/ PromptKey("done", FALSE)
    \/ PromptKey("skipped", FALSE) \/ PromptKey(NoStatus, FALSE)
    \/ RecordingKey("skipped", TRUE) \/ RecordingKey("done", FALSE)
    \/ RecordingKey("skipped", FALSE)

Failures ==
    \/ ArmRaises \/ OpenRaises \/ Interrupt \/ InterruptJoin \/ ShutdownFails
    \/ ReaderDiskError

(* The steps the main thread takes without the operator, the bus or a      *)
(* failure.  Opening the transport is not one: it retries until it links.  *)
MainStep ==
    \/ Start \/ SelectEnd \/ SelectSkipped \/ SelectNext \/ PromptArms \/ ReaderStarted
    \/ Finalize \/ StopReader \/ JoinReader \/ JoinTimeout \/ Flush \/ FlushWrite
    \/ FlushDone \/ MarkRemaining \/ MarkDone \/ CloseWriter \/ CloseLink

(* The steps the reader takes without waiting for the bus.                 *)
ReaderStep ==
    \/ ReaderCheck \/ ReaderRaw \/ ReaderFeed \/ ReaderDrain \/ ReaderWrite
    \/ ReaderWritten \/ ReaderFindsClosed

Read == ReadNothing \/ \E n \in 1..MaxChunk : ReadFrames(n)

(* run() has returned or raised: nothing more has to happen.               *)
Terminated == pc = "DONE" /\ UNCHANGED vars

Next == MainStep \/ Keys \/ EnsureReader \/ Failures \/ ReaderStep \/ Read \/ Terminated

Spec == Init /\ [][Next]_vars

(* Both threads are scheduled; the process, and with it the daemon reader, *)
(* may end as soon as run() has.                                           *)
FairSpec ==
    /\ Spec
    /\ WF_vars(MainStep)
    /\ WF_vars(ReaderStep /\ pc # "DONE")

-----------------------------------------------------------------------------
(* Safety.                                                                 *)

\* Every index row describes its window: it counts the lines of the slice
\* file, and the slice is, line for line, the range frame_seq_start to
\* frame_seq_end of the root log, all of it tagged with the row's capability
\* (write_frame writes both files, disarm computes the range).
RowMatches(row) ==
    row.start # Nothing =>
        /\ row.frames = Len(slices[row.seq])
        /\ row.end = IF row.frames = 0 THEN Nothing ELSE row.start + row.frames - 1
        /\ row.start + row.frames <= Len(log)
        /\ \A i \in 1..row.frames :
              slices[row.seq][i] = log[row.start + i] /\ log[row.start + i].cap = row.id

RowsMatchLog == \A r \in 1..Len(index) : RowMatches(index[r])

\* The number written on a root line is its place in the log, whichever thread
\* writes it and whatever fails (CaptureWriter._frame_seq under the lock).
LinesAreNumbered == \A i \in 1..Len(log) : log[i].seq = i - 1

\* extract-capability finds a window by the tag of the root lines; for a
\* catalog without a repeated id it returns exactly the window's slice file.
ExtractIsSlice ==
    \A r \in 1..Len(index) : ExtractFrames(log, index[r].id) = slices[index[r].seq]

\* Until a join times out, only one thread ever writes at a time: the root log
\* is the frames of raw.ndjson in their order, none lost, doubled or swapped.
TimedOut == ~joined /\ pc \in ClosingSteps \ {"STOP", "JOIN"}

LogFollowsRaw ==
    TimedOut \/ /\ Len(log) <= Len(raw)
                /\ \A i \in 1..Len(log) : log[i].frame = raw[i]

\* A shutdown that ran to its end with the reader joined lost nothing: every
\* frame the bus delivered is in both root files, and meta.json counts them.
CleanShutdown ==
    pc = "DONE" /\ joined /\ link = "closed" =>
        /\ Len(raw) = nextFrame - 1
        /\ Len(log) = Len(raw)
        /\ metaFrames = Len(log)

\* The saved index has the walk's positions in order.  After a walk that ended
\* by its phases no position is missing and the not_run rows are the last ones;
\* after an exception or a Ctrl-C one position, the current one, may be.
IndexInOrder == \A r \in 1..Len(index) - 1 : index[r].seq < index[r + 1].seq

IndexCoversWalk ==
    saved =>
        /\ IndexInOrder
        /\ Len(index) >= Len(Walk) - (IF raised THEN 1 ELSE 0)
        /\ \A r, s \in 1..Len(index) :
              r < s /\ index[r].status = "not_run" => index[s].status = "not_run"

\* The class doc's promise that frames are not missed while the operator reads
\* a prompt needs a live reader: unless a write fails, it ends only once asked.
ReaderOutlivesWalk == rpc = "dead" => stop

\* A finished window stays as it was: rows are only appended, and no late frame
\* reaches the slice file of a window that has a row.
RowsAreFinal ==
    [][/\ Len(index') >= Len(index)
       /\ \A r \in 1..Len(index) :
             index'[r] = index[r] /\ slices'[index[r].seq] = slices[index[r].seq]]_vars

-----------------------------------------------------------------------------
(* Liveness, under FairSpec.                                               *)

\* Once the transport is open, a q always ends the session, even with a reader
\* that never leaves its read: the join gives up.
QuitEnds == (quit /\ link = "open") ~> (pc = "DONE")

\* A frame taken from the bus is in the root log eventually, unless the session
\* is being stopped.
ReadFrameLogged ==
    \A f \in 1..MaxFrames :
        (nextFrame > f) ~> (stop \/ \E i \in 1..Len(log) : log[i].frame = f)

-----------------------------------------------------------------------------
(* Refinement: the session implements the journal of CapabilityLog.  A     *)
(* frame is recorded when it is counted, a window is open while its tag is *)
(* active.  The ids of the walk are taken to be distinct here.             *)

WindowOf(cap) == IF cap = NoCap THEN 0 ELSE CHOOSE p \in Positions : Walk[p] = cap

recorded == [i \in 1..frameSeq |->
               [frame |-> log[i].frame, window |-> WindowOf(log[i].cap)]]

summary == [r \in 1..Len(index) |->
              [window |-> index[r].seq, status |-> index[r].status,
               frames |-> index[r].frames]]

Journal == INSTANCE CapabilityLog WITH
    Windows <- Len(Walk),
    Frames  <- 1..MaxFrames,
    journal <- recorded,
    open    <- WindowOf(active),
    rows    <- summary

\* The frames of a window are those recorded while it was open, and its row
\* counts them: every step of the two threads is a step of the journal.
KeepsJournal == Journal!Spec

-----------------------------------------------------------------------------
(* What the documentation says and the code does not do.                   *)

\* docs/capability-capture.md: index.jsonl has "One line per capability".
OneLinePerCapability ==
    saved => \A p \in Positions : \E r \in 1..Len(index) : index[r].seq = p

\* capture.py: raw.ndjson has "one JSON object per transport read chunk".
EveryChunkInRaw == rpc = "dead" => Len(raw) = nextFrame - 1

=============================================================================
