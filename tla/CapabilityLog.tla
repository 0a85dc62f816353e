--------------------------- MODULE CapabilityLog ---------------------------
(***************************************************************************)
(* What a guided capability capture promises: a journal of frames in which *)
(* each frame belongs to the one window that was open when it was          *)
(* recorded, and an index whose rows count the frames of their windows.    *)
(* Windows are the positions of the walk, visited in order; a frame        *)
(* recorded between two windows belongs to window 0.                       *)
(***************************************************************************)
EXTENDS Integers, Sequences, FiniteSets

CONSTANTS
    Windows,   \* the number of windows, a natural number
    Frames     \* what can be recorded

VARIABLES journal, open, rows

vars == <<journal, open, rows>>

NoWindow == 0
Outcomes == {"done", "skipped", "not_run"}

FramesOf(w) == Cardinality({i \in 1..Len(journal) : journal[i].window = w})

(* No window from w on has been opened or given a row.                     *)
Untouched(w) == \A r \in 1..Len(rows) : rows[r].window < w

Init == journal = <<>> /\ open = NoWindow /\ rows = <<>>

OpenWindow(w) ==
    /\ open = NoWindow
    /\ Untouched(w) /\ FramesOf(w) = 0
    /\ open' = w
    /\ UNCHANGED <<journal, rows>>

Record(f) ==
    /\ journal' = Append(journal, [frame |-> f, window |-> open])
    /\ UNCHANGED <<open, rows>>

CloseWindow(status) ==
    /\ open # NoWindow
    /\ rows' = Append(rows, [window |-> open, status |-> status,
                             frames |-> FramesOf(open)])
    /\ open' = NoWindow
    /\ UNCHANGED journal

(* A window the walk never reached.                                        *)
MarkNotRun(w) ==
    /\ Untouched(w) /\ w > open /\ FramesOf(w) = 0
    /\ rows' = Append(rows, [window |-> w, status |-> "not_run", frames |-> 0])
    /\ UNCHANGED <<journal, open>>

Next ==
    \/ \E w \in 1..Windows : OpenWindow(w) \/ MarkNotRun(w)
    \/ \E status \in Outcomes : CloseWindow(status)
    \/ \E f \in Frames : Record(f)

Spec == Init /\ [][Next]_vars

=============================================================================
