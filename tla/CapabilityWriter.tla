-------------------------- MODULE CapabilityWriter --------------------------
(***************************************************************************)
(* The session writer of a guided capability capture                       *)
(* (CapabilitySessionWriter over CaptureWriter): one root log of every     *)
(* frame, one slice file per armed window, and the index written at close. *)
(*                                                                         *)
(* The module defines the state and one operator per operation; the main   *)
(* thread and the reader thread that call them are in CapabilitySession.   *)
(* Files are sequences of lines.  A frame line is [seq, frame, cap]: the   *)
(* number written on it, the frame (its position on the bus) and the       *)
(* capability tag.  Time stamps, paths, NOTES and the hex text are left    *)
(* out.  An operation that holds the lock from start to end is one step,   *)
(* except write_frame, which is two (WriteLine, CountLine): close() writes *)
(* the counters without taking the lock and can run in between.            *)
(***************************************************************************)
EXTENDS Integers, Sequences

CONSTANTS
    Walk,       \* the catalog: the capability ids in the order of the walk
    NoCap,      \* "no capability is active" (None)
    NoStatus    \* "no status pending" (None)

ASSUME WalkAssumption == /\ Walk \in Seq(STRING)
                         /\ \A p \in 1..Len(Walk) : Walk[p] # NoCap

Threads   == {"main", "reader"}
Positions == 1..Len(Walk)          \* walk positions, the "nn" of a slice directory
CapIds    == {Walk[p] : p \in Positions}
Statuses  == {"done", "skipped", "not_run"}
NoSlice   == 0                     \* no slice file is open
Nothing   == -1                    \* a number that is None in the code

VARIABLES
    rawFp,      \* CaptureWriter._raw_fp is open
    framesFp,   \* CaptureWriter._frames_fp is open
    raw,        \* the frames whose bytes are in raw.ndjson
    log,        \* the lines of the root frames.ndjson
    frameSeq,   \* CaptureWriter._frame_seq, always equal to meta.frames
    metaFrames, \* "frames" in the final meta.json, Nothing before it is written
    lock,       \* the writer's RLock: "free" or the thread that holds it
    active,     \* _active_id
    sliceFp,    \* the window whose slice file is open (_cap_frames_fp), or NoSlice
    capStart,   \* _cap_seq_start
    capCount,   \* _cap_frame_count
    slices,     \* the lines of by_capability/<nn>_<id>/frames.ndjson, per position
    index,      \* _index: the rows appended so far
    saved       \* index.jsonl has been written

rootVars   == <<rawFp, framesFp, raw, log, frameSeq, metaFrames>>
windowVars == <<active, sliceFp, capStart, capCount, slices>>
indexVars  == <<index, saved>>
writerVars == <<rootVars, lock, windowVars, indexVars>>

Line == [seq : Nat, frame : Nat, cap : CapIds \union {NoCap}]
Row  == [seq : Positions, id : CapIds, status : Statuses, frames : Nat,
         start : Nat \union {Nothing}, end : Nat \union {Nothing}]

WriterTypeOK ==
    /\ rawFp \in BOOLEAN /\ framesFp \in BOOLEAN /\ saved \in BOOLEAN
    /\ raw \in Seq(Nat) /\ log \in Seq(Line)
    /\ frameSeq \in Nat /\ metaFrames \in Nat \union {Nothing}
    /\ lock \in Threads \union {"free"}
    /\ active \in CapIds \union {NoCap}
    /\ sliceFp \in Positions \union {NoSlice}
    /\ capStart \in Nat \union {Nothing} /\ capCount \in Nat
    /\ slices \in [Positions -> Seq(Line)]
    /\ index \in Seq(Row)

-----------------------------------------------------------------------------
(* open(): the root files are created empty; no window is armed.           *)
OpenWriter ==
    /\ rawFp = TRUE /\ framesFp = TRUE
    /\ raw = <<>> /\ log = <<>> /\ frameSeq = 0 /\ metaFrames = Nothing
    /\ lock = "free"
    /\ active = NoCap /\ sliceFp = NoSlice
    /\ capStart = Nothing /\ capCount = 0
    /\ slices = [p \in Positions |-> <<>>]
    /\ index = <<>> /\ saved = FALSE

ForgetSliceNone ==       \* mutant: the count is reset to None, like its neighbours
    sliceFp' = NoSlice /\ capStart' = Nothing /\ capCount' = Nothing

(* _close_cap_slice: forgets the open window; the active tag stays.        *)
ForgetSlice == sliceFp' = NoSlice /\ capStart' = Nothing /\ capCount' = 0

ArmAtZero(p) ==          \* mutant: the window starts at 0, not at the log's end
    /\ lock = "free"
    /\ sliceFp' = p
    /\ slices' = [slices EXCEPT ![p] = <<>>]
    /\ capCount' = 0 /\ capStart' = 0 /\ active' = Walk[p]
    /\ UNCHANGED <<rootVars, lock, indexVars>>

(* arm(): closes a slice left open, opens (truncates) the slice of p, and  *)
(* tags every frame from here on.                                          *)
Arm(p) ==
    /\ lock = "free"
    /\ sliceFp' = p
    /\ slices' = [slices EXCEPT ![p] = <<>>]
    /\ capCount' = 0
    /\ capStart' = frameSeq
    /\ active' = Walk[p]
    /\ UNCHANGED <<rootVars, lock, indexVars>>

(* arm() when a directory or a file cannot be written: the old slice is    *)
(* closed, the new one never opened, the tag not changed.                  *)
ArmFails ==
    /\ lock = "free"
    /\ ForgetSlice
    /\ UNCHANGED <<rootVars, lock, active, slices, indexVars>>

(* The frame_seq_end that disarm() returns.                                *)
WindowEnd == IF capCount > 0 /\ capStart # Nothing
             THEN capStart + capCount - 1
             ELSE Nothing

AttemptRowOffByOne(p, status) ==     \* mutant: end is exclusive
    [seq |-> p, id |-> Walk[p], status |-> status, frames |-> capCount,
     start |-> capStart,
     end |-> IF capCount > 0 THEN capStart + capCount ELSE Nothing]

(* The index row of a finished window, from the values disarm() returns.   *)
AttemptRow(p, status) ==
    [seq |-> p, id |-> Walk[p], status |-> status, frames |-> capCount,
     start |-> capStart, end |-> WindowEnd]

DisarmKeepsTag(p, status) ==         \* mutant: the tag outlives the window
    /\ lock = "free"
    /\ index' = Append(index, AttemptRow(p, status))
    /\ ForgetSlice
    /\ UNCHANGED <<rootVars, lock, active, slices, saved>>

DisarmKeepsWindow(p, status) ==      \* mutant: the row is written, the window stays
    /\ lock = "free"
    /\ index' = Append(index, AttemptRow(p, status))
    /\ UNCHANGED <<rootVars, lock, windowVars, saved>>

(* disarm() then append_index(): the window ends and its row is kept.  The *)
(* append needs no lock: only the main thread touches the index.           *)
DisarmAndIndex(p, status) ==
    /\ lock = "free"
    /\ index' = Append(index, AttemptRow(p, status))
    /\ ForgetSlice
    /\ active' = NoCap
    /\ UNCHANGED <<rootVars, lock, slices, saved>>

(* The part of _mark_remaining_not_run that reaches the writer: the slice  *)
(* of p is written empty and a not_run row appended.                       *)
MarkNotRun(p) ==
    /\ slices' = [slices EXCEPT ![p] = <<>>]
    /\ index' = Append(index, [seq |-> p, id |-> Walk[p], status |-> "not_run",
                               frames |-> 0, start |-> Nothing, end |-> Nothing])
    /\ UNCHANGED <<rootVars, lock, active, sliceFp, capStart, capCount, saved>>

-----------------------------------------------------------------------------
(* write_raw(): one line for the chunk, provided raw.ndjson is still open. *)
WriteRaw(chunk) ==
    /\ lock = "free"
    /\ rawFp
    /\ raw' = raw \o chunk
    /\ UNCHANGED <<rawFp, framesFp, log, frameSeq, metaFrames, lock, windowVars,
                   indexVars>>

(* write_frame(), first half: take the lock, read the active tag, write    *)
(* the root line.                                                          *)
WriteLine(t, f) ==
    /\ lock = "free"
    /\ framesFp
    /\ lock' = t
    /\ log' = Append(log, [seq |-> frameSeq, frame |-> f, cap |-> active])
    /\ UNCHANGED <<rawFp, framesFp, raw, frameSeq, metaFrames, windowVars, indexVars>>

CountLineUncounted(t) ==             \* mutant: the slice line is not counted
    /\ lock = t
    /\ lock' = "free"
    /\ frameSeq' = frameSeq + 1
    /\ IF active # NoCap /\ sliceFp # NoSlice
       THEN slices' = [slices EXCEPT ![sliceFp] = Append(@, log[Len(log)])]
       ELSE UNCHANGED slices
    /\ UNCHANGED <<rawFp, framesFp, raw, log, metaFrames, active, sliceFp,
                   capStart, capCount, indexVars>>

(* write_frame(), second half: count the line, copy it to the open slice   *)
(* if a capability is active, release the lock.                            *)
CountLine(t) ==
    /\ lock = t
    /\ lock' = "free"
    /\ frameSeq' = frameSeq + 1
    /\ IF active # NoCap /\ sliceFp # NoSlice
       THEN /\ slices' = [slices EXCEPT ![sliceFp] = Append(@, log[Len(log)])]
            /\ capCount' = capCount + 1
       ELSE UNCHANGED <<slices, capCount>>
    /\ UNCHANGED <<rawFp, framesFp, raw, log, metaFrames, active, sliceFp,
                   capStart, indexVars>>

CountLineFailsUncounted(t) ==        \* mutant: counted only after the slice line
    /\ lock = t
    /\ active # NoCap /\ sliceFp # NoSlice
    /\ lock' = "free"
    /\ UNCHANGED <<rootVars, windowVars, indexVars>>

(* write_frame() whose slice write fails: the root line is counted, the    *)
(* slice has no line, the lock is released by the exception.               *)
CountLineFails(t) ==
    /\ lock = t
    /\ active # NoCap /\ sliceFp # NoSlice
    /\ lock' = "free"
    /\ frameSeq' = frameSeq + 1
    /\ UNCHANGED <<rawFp, framesFp, raw, log, metaFrames, windowVars, indexVars>>

-----------------------------------------------------------------------------
(* close(), step by step.  Only the slice is closed under the lock.        *)
CloseSlice ==
    /\ lock = "free"
    /\ ForgetSlice
    /\ UNCHANGED <<rootVars, lock, active, slices, indexVars>>

WriteIndex ==
    /\ saved' = TRUE
    /\ UNCHANGED <<rootVars, lock, windowVars, index>>

CloseRaw ==
    /\ rawFp' = FALSE
    /\ UNCHANGED <<framesFp, raw, log, frameSeq, metaFrames, lock, windowVars, indexVars>>

CloseFrames ==
    /\ framesFp' = FALSE
    /\ UNCHANGED <<rawFp, raw, log, frameSeq, metaFrames, lock, windowVars, indexVars>>

WriteMeta ==
    /\ metaFrames' = frameSeq
    /\ UNCHANGED <<rawFp, framesFp, raw, log, frameSeq, lock, windowVars, indexVars>>

=============================================================================
