----------------------------- MODULE SessionDir -----------------------------
(***************************************************************************)
(* One session directory and the runs of capture-capabilities that are     *)
(* given it, one after the other, with --session-dir.  A run resolves its  *)
(* flags, walks the catalog and closes its files, or is killed at any      *)
(* step; what it wrote stays and the next run may find it.                 *)
(* triage-capabilities and extract-capability read the same files.         *)
(*                                                                         *)
(* The threads and the locks of a run are in CapabilitySession: here a run *)
(* is what it does to the files, in the order it does it, and the reader   *)
(* appears as the lines it writes (each is flushed, so that SIGKILL loses  *)
(* none; nothing is synced, so a power cut might).  No write fails here.   *)
(* raw.ndjson, NOTES and the snapshot are left out.                        *)
(***************************************************************************)
EXTENDS Catalog, Triage, Integers, FiniteSets

CONSTANTS
    DefaultDevice, DefaultHost, DefaultPort, Blank, NotANumber,   \* see Settings
    Launches,    \* what a run may be given: flags, shell variables, .env file
    Files,       \* the hex files that exist
    Answers,     \* the keys pressed at the prompts, as <<status, quits>>
    NoFile,      \* a file that is not there
    NoCap,       \* no capability is active (None)
    MaxRuns,     \* bound: runs in the directory
    MaxLines     \* bound: frames recorded by a run

INSTANCE Settings

NoSlice == <<>>     \* no slice file is open

VARIABLES
    log,        \* the lines of frames.ndjson
    slices,     \* the lines of by_capability/<dir>/frames.ndjson, by directory
    index,      \* the rows of index.jsonl, or NoFile
    meta,       \* meta.json, or NoFile
    pc,         \* where the run is; "shell": no run is in progress
    walk,       \* the ids to walk
    skip,       \* --skip-id
    source,     \* meta.source
    bus,        \* what its transport is connected to
    at,         \* _cursor
    quit,       \* _quit_requested
    raised,     \* the walk was left by Ctrl-C
    active,     \* _active_id
    key,        \* the directory of the open slice, or NoSlice
    count,      \* _cap_frame_count
    start,      \* _cap_seq_start
    reading,    \* the reader thread has been started
    frameSeq,   \* CaptureWriter._frame_seq
    half,       \* a line is in the root log and not yet in the slice
    rows,       \* _index
    run,        \* how many runs there have been
    outcome,    \* how the last one ended
    asked       \* what its flags ask for, by the reference definitions below

disk    == <<log, slices, index, meta>>
walking == <<walk, skip, source, bus, at, quit, raised>>
window  == <<active, key, count, start>>
reader  == <<reading, frameSeq, half>>
history == <<run, outcome, asked>>
vars    == <<disk, pc, walking, window, reader, rows, history>>

-----------------------------------------------------------------------------
(* What the flags ask for.                                                 *)

Entries(l) == IF l.catalog = None THEN DefaultCatalog ELSE l.catalog

(* The ids of the catalogs, and what a flag or a variable can say of a bus. *)
Ids       == (UNION {Range(Entries(l)) : l \in {k \in Launches : Entries(k) # Failed}})
                 \ {Malformed}
Said(k)   == {l.shell[k] : l \in Launches} \union {l.dotenv[k] : l \in Launches}
Flagged   == {l.tcp : l \in Launches} \ {None, Blank}
Endpoints == [host : Said("host") \union {DefaultHost} \union {e.host : e \in Flagged},
              port : Said("port") \union {DefaultPort} \union {e.port : e \in Flagged}]
Devices   == {l.serial : l \in Launches} \union Said("device") \union {DefaultDevice}

Line == [run : Nat, seq : Nat, cap : Ids \union {NoCap}]
Row  == [seq : Nat, id : Ids, status : {"done", "skipped", "not_run"}, frames : Nat,
         dir : Nat \X Ids, start : Nat]

(* None, Failed, NoCap and NoFile are none of the values they stand beside. *)
ASSUME LaunchAssumption ==
    /\ \A l \in Launches : /\ l.only # None
                           /\ Entries(l) # Failed => Entries(l) \in Seq(Ids \union {Malformed})
    /\ Malformed \notin Range(DefaultCatalog)
    /\ Flagged \subseteq Endpoints
    /\ None # Blank /\ None \notin Endpoints
    /\ Failed \notin Seq(Ids \union {Malformed}) \union Endpoints
    /\ Failed \notin {"file", "tcp", "serial"}
                      \X (Endpoints \union Devices \union {l.file : l \in Launches})
    /\ NoCap \notin Ids
    /\ NoFile \notin Seq(Line) \union Seq(Row)

Wanted(entries, only, from) ==
    {i \in 1..Len(entries) :
        /\ entries[i] \notin Reserved
        /\ from # None => \E j \in 1..i : entries[j] = from /\ from \notin Reserved
        /\ only # {} => entries[i] \in only}

IdsAsked(l) ==
    IF Entries(l) = Failed \/ Malformed \in Range(Entries(l)) THEN <<>>
    ELSE Subsequence(Entries(l), Wanted(Entries(l), l.only, l.from))

(* The shell if it has the variable, else the file; empty is no answer.    *)
Variable(l, k, default) ==
    LET said == IF l.shell[k] = None THEN l.dotenv[k] ELSE l.shell[k]
    IN  IF said \in {None, Blank} THEN default ELSE said

BusAsked(l) ==
    LET kind == IF l.file # None THEN "file"
                ELSE IF l.tcp # None THEN "tcp"
                ELSE IF l.serial # None THEN "serial"
                ELSE IF Variable(l, "transport", "serial") = "tcp" THEN "tcp" ELSE "serial"
    IN  CASE kind = "file" -> <<"file", l.file>>
          [] kind = "serial" /\ l.serial \in {None, Blank} ->
                 <<"serial", Variable(l, "device", DefaultDevice)>>
          [] kind = "serial" /\ l.serial \notin {None, Blank} -> <<"serial", l.serial>>
          [] kind = "tcp" /\ l.tcp \in {None, Blank} ->
                 <<"tcp", [host |-> Variable(l, "host", DefaultHost),
                           port |-> IF Variable(l, "port", DefaultPort) = NotANumber
                                    THEN DefaultPort ELSE Variable(l, "port", DefaultPort)]>>
          [] kind = "tcp" /\ l.tcp \notin {None, Blank} -> <<"tcp", l.tcp>>

(* Two endpoints are the same bus when the one left its port out.          *)
SameBus(a, b) ==
    a = b \/ /\ a[1] = "tcp" /\ b[1] = "tcp" /\ a[2].host = b[2].host
             /\ {a[2].port, b[2].port} \subseteq {None, DefaultPort}

-----------------------------------------------------------------------------
(* What is in the files.                                                   *)

(* triage-capabilities: the rows of the index, and what they count.        *)
LoadIndex == IF index = NoFile THEN Failed ELSE index

SummarizeSession ==
    [status \in {"done", "skipped", "not_run"} |-> Len(WithStatus(LoadIndex, status))]

(* The slice of a row, if its directory has one.                           *)
CapabilitySlice(row) == IF row.dir \in DOMAIN slices THEN slices[row.dir] ELSE Failed

-----------------------------------------------------------------------------
(* Starting a run.                                                         *)

NoWindow == active = NoCap /\ key = NoSlice /\ count = 0 /\ start = 0
Idle     == /\ walk = <<>> /\ skip = {} /\ source = <<>> /\ bus = <<>> /\ at = 0
            /\ quit = FALSE /\ raised = FALSE

Init ==
    /\ log = NoFile /\ slices = [d \in {} |-> <<>>] /\ index = NoFile /\ meta = NoFile
    /\ pc = "shell" /\ Idle /\ NoWindow
    /\ reading = FALSE /\ frameSeq = 0 /\ half = FALSE /\ rows = <<>>
    /\ run = 0 /\ outcome = "none"
    /\ asked = [ids |-> <<>>, skip |-> {}, bus |-> Failed]

Selected(l) ==
    IF LoadCatalog(l.catalog) = Failed THEN Failed
    ELSE FilterCatalog(LoadCatalog(l.catalog), ParseIdList(l.only), l.from)

Bus(l) == ResolveCliTransport(l, LoadTransportSettings(LoadEnvFile(l.shell, l.dotenv)))

Refused(l) == \/ Bus(l).file \notin Files \union {None}
              \/ BuildWatchTransport(Bus(l)) = Failed
              \/ Selected(l) \in {Failed, <<>>}

(* cmd_capture_capabilities up to the session: nothing is written before   *)
(* the flags are found to be right.                                        *)
Launch(l) ==
    /\ pc = "shell" /\ run < MaxRuns
    /\ run' = run + 1
    /\ asked' = [ids |-> IdsAsked(l), skip |-> l.skip, bus |-> BusAsked(l)]
    /\ at' = 0 /\ quit' = FALSE /\ raised' = FALSE
    /\ IF Refused(l)
       THEN /\ outcome' = "refused"
            /\ UNCHANGED <<pc, walk, skip, source, bus>>
       ELSE /\ outcome' = "none" /\ pc' = "open"
            /\ walk' = Selected(l) /\ skip' = l.skip
            /\ bus' = BuildWatchTransport(Bus(l))
            /\ source' = DescribeSource(Bus(l))
    /\ UNCHANGED <<disk, window, reader, rows>>

OpenAppends ==           \* mutant: frames.ndjson opened "a"
    /\ pc = "open" /\ pc' = "select"
    /\ log' = IF log = NoFile THEN <<>> ELSE log
    /\ UNCHANGED <<slices, index, meta, walking, window, reader, rows, history>>

(* writer.open(): the root log of an earlier run is emptied.               *)
Open ==
    /\ pc = "open" /\ pc' = "select"
    /\ log' = <<>>
    /\ UNCHANGED <<slices, index, meta, walking, window, reader, rows, history>>

-----------------------------------------------------------------------------
(* The walk.                                                               *)

SliceDirByNumber(nn, id) == <<nn>>     \* mutant: the directory is by_capability/<nn>

SliceDir(nn, id) == <<nn, id>>

EmptiedAppends(dir) ==   \* mutant: the slice file opened "a"
    slices' = [d \in DOMAIN slices \union {dir} |->
                  IF d \in DOMAIN slices THEN slices[d] ELSE <<>>]

(* open(..., "w") and write_text.                                          *)
Emptied(dir) ==
    slices' = [d \in DOMAIN slices \union {dir} |-> IF d = dir THEN <<>> ELSE slices[d]]

ForgetSlice == key' = NoSlice /\ count' = 0 /\ start' = 0

(* arm(), for the capability after the cursor.                             *)
Arm ==
    /\ pc = "select" /\ ~half
    /\ at < Len(walk)
    /\ at' = at + 1
    /\ Emptied(SliceDir(at + 1, walk[at + 1]))
    /\ key' = SliceDir(at + 1, walk[at + 1])
    /\ count' = 0 /\ start' = frameSeq
    /\ active' = walk[at + 1]
    /\ reading' = TRUE
    /\ pc' = "armed"
    /\ UNCHANGED <<log, index, meta, walk, skip, source, bus, quit, raised, frameSeq, half,
                   rows, history>>

Attempt(status) ==
    [seq |-> at, id |-> walk[at], status |-> status, frames |-> count, dir |-> key,
     start |-> start]

(* The key that ends a window: d, s and q, and q at the prompt that arms.  *)
ASSUME AnswersAssumption ==
    Answers \subseteq {<<"done", FALSE>>, <<"skipped", FALSE>>, <<"skipped", TRUE>>,
                       <<"not_run", TRUE>>}

EndingsByKey == Answers  \* mutant: an id in --skip-id is asked for like any other

(* An id in --skip-id is not asked for.                                    *)
Endings == IF walk[at] \in skip THEN {<<"skipped", FALSE>>} ELSE Answers

FinalizeKeepsTag(status, quits) ==       \* mutant: the tag outlives the window
    /\ pc = "armed" /\ ~half
    /\ rows' = Append(rows, Attempt(status))
    /\ ForgetSlice /\ UNCHANGED active
    /\ quit' = quits
    /\ pc' = IF quits THEN "remaining" ELSE "select"
    /\ UNCHANGED <<disk, walk, skip, source, bus, at, raised, reader, history>>

(* disarm() and append_index(); after q the walk is over.                  *)
Finalize(status, quits) ==
    /\ pc = "armed" /\ ~half
    /\ rows' = Append(rows, Attempt(status))
    /\ ForgetSlice /\ active' = NoCap
    /\ quit' = quits
    /\ pc' = IF quits THEN "remaining" ELSE "select"
    /\ UNCHANGED <<disk, walk, skip, source, bus, at, raised, reader, history>>

WalkEnds ==
    /\ pc = "select" /\ at = Len(walk)
    /\ pc' = "remaining"
    /\ UNCHANGED <<disk, walking, window, reader, rows, history>>

(* Ctrl-C at a prompt, of a window that is armed or waits for its key: the *)
(* capability gets no row, its window is not disarmed.                     *)
CtrlC ==
    /\ \/ pc = "armed" /\ walk[at] \notin skip /\ UNCHANGED at
       \/ pc = "select" /\ at < Len(walk) /\ walk[at + 1] \notin skip /\ at' = at + 1
    /\ raised' = TRUE
    /\ pc' = "remaining"
    /\ UNCHANGED <<disk, walk, skip, source, bus, quit, window, reader, rows, history>>

(* write_frame(): the root line, then the copy in the open slice.  The     *)
(* reader starts with the first window and may go on until the log closes. *)
RootLine ==
    /\ pc \in {"select", "armed", "remaining", "index", "root"}
    /\ reading /\ ~half
    /\ frameSeq < MaxLines
    /\ log' = Append(log, [run |-> run, seq |-> frameSeq, cap |-> active])
    /\ frameSeq' = frameSeq + 1
    /\ half' = TRUE
    /\ UNCHANGED <<slices, index, meta, pc, walking, window, reading, rows, history>>

SliceLine ==
    /\ half
    /\ half' = FALSE
    /\ IF active # NoCap /\ key # NoSlice
       THEN /\ slices' = [slices EXCEPT ![key] = Append(@, Last(log))]
            /\ count' = count + 1
       ELSE UNCHANGED <<slices, count>>
    /\ UNCHANGED <<log, index, meta, pc, walking, active, key, start, reading, frameSeq,
                   rows, history>>

-----------------------------------------------------------------------------
(* Closing.                                                                *)

(* _mark_remaining_not_run, one capability at a time; --skip-id or not.    *)
MarkNotRun ==
    /\ pc = "remaining" /\ at < Len(walk)
    /\ at' = at + 1
    /\ Emptied(SliceDir(at + 1, walk[at + 1]))
    /\ rows' = Append(rows, [seq |-> at + 1, id |-> walk[at + 1], status |-> "not_run",
                             frames |-> 0, dir |-> SliceDir(at + 1, walk[at + 1]),
                             start |-> 0])
    /\ UNCHANGED <<log, index, meta, pc, walk, skip, source, bus, quit, raised, window,
                   reader, history>>

(* close(): the slice, under the lock.                                     *)
CloseSlice ==
    /\ pc = "remaining" /\ at = Len(walk) /\ ~half
    /\ ForgetSlice
    /\ pc' = "index"
    /\ UNCHANGED <<disk, walking, active, reader, rows, history>>

WriteIndex ==
    /\ pc = "index" /\ pc' = "root"
    /\ index' = rows
    /\ UNCHANGED <<log, slices, meta, walking, window, reader, rows, history>>

(* CaptureWriter.close(), with the meta.json of a plain capture.           *)
CloseRoot ==
    /\ pc = "root" /\ pc' = "meta"
    /\ meta' = [mode |-> "capture", source |-> source]
    /\ half' = FALSE
    /\ UNCHANGED <<log, slices, index, walking, window, reading, frameSeq, rows, history>>

MemoryLost ==
    /\ pc' = "shell"
    /\ walk' = <<>> /\ skip' = {} /\ source' = <<>> /\ bus' = <<>> /\ at' = 0
    /\ active' = NoCap /\ ForgetSlice
    /\ reading' = FALSE /\ frameSeq' = 0 /\ half' = FALSE /\ rows' = <<>>
    /\ UNCHANGED <<run, asked>>

(* _write_session_meta over it, and the end of the run.                    *)
WriteMeta ==
    /\ pc = "meta"
    /\ meta' = [mode |-> "capability_guided", source |-> source,
                counts |-> [status \in {"done", "skipped", "not_run"} |->
                                Len(WithStatus(rows, status))]]
    /\ outcome' = "ended"
    /\ MemoryLost
    /\ UNCHANGED <<log, slices, index, quit, raised>>

(* SIGKILL.  A file that was being written has been emptied first: of the  *)
(* index any number of rows may be there, of meta.json nothing.            *)
Kill ==
    /\ pc # "shell"
    /\ \/ UNCHANGED <<index, meta>>
       \/ /\ pc = "index" /\ UNCHANGED meta
          /\ \E n \in 0..Len(rows) : index' = SubSeq(rows, 1, n)
       \/ /\ pc \in {"root", "meta"} /\ UNCHANGED index
          /\ meta' = NoFile
    /\ outcome' = "killed"
    /\ MemoryLost
    /\ UNCHANGED <<log, slices, quit, raised>>

Walk ==
    \/ Arm \/ WalkEnds \/ CtrlC
    \/ pc = "armed" /\ \E k \in Endings : Finalize(k[1], k[2])

Next ==
    \/ \E l \in Launches : Launch(l)
    \/ Open \/ Walk \/ RootLine \/ SliceLine
    \/ MarkNotRun \/ CloseSlice \/ WriteIndex \/ CloseRoot \/ WriteMeta
    \/ Kill

Spec == Init /\ [][Next]_vars

-----------------------------------------------------------------------------
BadBus(b) == \/ b[1] = "file" /\ b[2] \notin Files
             \/ b[1] = "tcp" /\ b[2].port # None
                             /\ (b[2].host = Blank \/ b[2].port = NotANumber)

(* A row is missing: of the capability whose prompt Ctrl-C interrupted.    *)
RowsOf(ids) == \/ ~raised /\ [n \in 1..Len(index) |-> index[n].id] = ids
               \/ /\ raised /\ Len(index) = Len(ids) - 1
                  /\ \E lost \in 1..Len(ids) :
                        [n \in 1..Len(index) |-> index[n].id] = RemoveAt(ids, lost)

\* What a run records and says of itself is what its flags, the shell and .env ask
\* for: README "Command-line flags always override .env", --only, --from-id "Resume
\* the walk starting at this id", --skip-id "Mark these skipped without asking".  It
\* is refused only when nothing is left to walk or the bus is not one; the index has
\* a row per capability asked for, in order, and not_run only after a q or a Ctrl-C.
RunAnswersFlags ==
    /\ outcome = "refused" => asked.ids = <<>> \/ BadBus(asked.bus)
    /\ pc # "shell" => SameBus(bus, asked.bus) /\ SameBus(source, asked.bus)
    /\ outcome = "ended" =>
        /\ SameBus(meta.source, asked.bus)
        /\ RowsOf(asked.ids)
        /\ \A n \in 1..Len(index) :
              /\ index[n].id \in asked.skip => index[n].status \in {"skipped", "not_run"}
              /\ index[n].status = "not_run" => quit \/ raised

Tagged(lines) == Subsequence(lines, {n \in 1..Len(lines) : lines[n].cap # NoCap})

\* After a run that was not killed, whatever earlier runs left in the directory,
\* triage and extraction describe that run: each row has a slice, the slice is the
\* range of the root log the row gives, the counts are those of meta.json, and the
\* lines of an id are its windows one after the other.
TriageDescribesRun ==
    outcome = "ended" =>
        /\ meta.mode = "capability_guided" /\ SummarizeSession = meta.counts
        /\ \A n \in 1..Len(index) :
              CapabilitySlice(index[n]) =
                  SubSeq(log, index[n].start + 1, index[n].start + index[n].frames)
        /\ ~raised =>
              /\ \A n \in 1..Len(index) : ExtractFrames(log, index[n].id) =
                    FlattenSeq([k \in 1..Len(index) |->
                        IF index[k].id = index[n].id THEN CapabilitySlice(index[k])
                                                     ELSE <<>>])
              /\ TotalFrames(index) = Len(Tagged(log))

OfRun(lines, r) == Subsequence(lines, {n \in 1..Len(lines) : lines[n].run = r})

(* What this run has put in the slices of an id.                           *)
Sliced(id) == FlattenSeq([n \in 1..Len(asked.ids) |->
    IF asked.ids[n] = id /\ SliceDir(n, id) \in DOMAIN slices
    THEN OfRun(slices[SliceDir(n, id)], run) ELSE <<>>])

\* triage.py: extraction serves "when per-capability dual-write is missing or
\* incomplete".  At every moment, so after a kill too, it gives what the slices have
\* and at most one line more (any number after a Ctrl-C, whose window stays tagged).
ExtractRecovers ==
    \A id \in Range(asked.ids) :
        LET found == OfRun(IF log = NoFile THEN <<>> ELSE ExtractFrames(log, id), run)
        IN  /\ IsPrefix(Sliced(id), found)
            /\ ~raised => Len(found) <= Len(Sliced(id)) + 1

SlicesKept ==
    \A d \in DOMAIN slices : \A n \in 1..Len(slices[d]) :
        slices[d][n].cap \notin Range(walk) =>
            d \in DOMAIN slices' /\ slices[d][n] \in Range(slices'[d])

LogReplaced ==
    pc \notin {"shell", "open"} => \A n \in 1..Len(log) :
        log[n].run = run /\ log[n].cap \in {walk[k] : k \in 1..at} \union {NoCap}

\* What survives in the directory of an earlier run: the lines in the slices of the
\* capabilities this run does not walk, though its directories are numbered from 01
\* again, and no more.  From its start on the root log has no line but this run's, so
\* that extraction finds nothing of a capability it has not come to.
OthersKept == [][SlicesKept /\ LogReplaced]_vars

=============================================================================
