------------------------------- MODULE Triage -------------------------------
(* What triage.py makes of the root log and of the index.                  *)
EXTENDS Lists

(* extract_frames: the lines whose capability is exactly id, in order.     *)
ExtractFrames(lines, id) == Subsequence(lines, {n \in 1..Len(lines) : lines[n].cap = id})

(* summarize_session: the rows of one status, and the frames of all rows.  *)
WithStatus(list, status) == Subsequence(list, {n \in 1..Len(list) : list[n].status = status})

TotalFrames(list) == Total([n \in 1..Len(list) |-> list[n].frames])

=============================================================================
