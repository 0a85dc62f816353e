# A verification project for pentairsnoop

TLA+ specifications, TLC runs and TLAPS proofs for pentairsnoop, a listener and lab tool for the RS-485 bus of Pentair
pool controllers (`src/src/pentairsnoop`, tests in `src/tests`, documents in `src/docs`). Line numbers below are those
of the files under `src/src/pentairsnoop`.

Checking: `tlc -workers 2 -config X.cfg M` for each run of the table below, `tlapm M.tla` for each proof module.
`PROJECT.json` lists components, runs, the mutant of the code that each property catches, the source lines of every
definition, findings, hazards and theorems.

## 1. The system

### Components

| Component | Source | State it keeps | Operations | Talks to |
|---|---|---|---|---|
| Reconnecting transport (TCP, serial) | `transport.py` 42-352 | `_want_open`, `_connected`, `_sock` or `_ser`, `_attempt`, counters | open, read, write, close; inside: connect loop, backoff, drop | the bus, callers in one or two threads |
| File transport, listen-only wrapper | `transport.py` 390-446, `capability_session.py` | a byte string and a position | the same interface, with an end; write refused | as above |
| Framer | `framer.py` | `_buf` | feed, reset | Session, the capability session's two threads |
| Messages, registry | `messages.py`, `registry.py` | none (pure) | parse, decode | Session |
| Write crafting, comparison | `craft.py`, `compare.py` | none (pure) | build, to_hex, parse, diff_tx | the lab send |
| Session facade | `session.py` | `_live_open`, the framer | open, close, iter_frames, read_frames, decode_frame | transport, framer, registry |
| Plain capture | `capture.py` | two files, `_frame_seq`, meta | write_raw, write_frame, close, run_capture | session facade |
| Watch, decode, lab send | `cli.py` 491-612, 771-843 | counters, deadlines | stream messages; dump a file; listen, write, listen | session facade |
| Capability session writer | `capability_session.py` 115-340 | lock, active window, slice file, index, the capture writer | arm, disarm, append_index, write_raw, write_frame, close | capture writer |
| Capability session | `capability_session.py` 342-645 | phase, cursor, pending status, stop event, reader thread | run and its phases, the reader loop | all of the above |
| Catalog, settings | `catalog.py`, `settings.py` | `os.environ` | load, filter, resolve | the command line |
| Triage | `triage.py` | none (reads files back) | load_index, summarize_session, extract_frames | the capability session's files |
| Command line | `cli.py` | none | parse arguments, print, exit codes | everything |

### Interaction, and what is hard

The guided capability capture is the one part with two threads. The main thread walks a catalog and prompts an operator;
a daemon thread reads the transport, feeds the framer and writes. They share the transport and the framer with no lock
and the session writer with an `RLock`. At the end the main thread sets a stop event, joins the reader for two seconds,
flushes the framer, marks the rest of the walk, closes the writer and then the transport. When the join times out, all of
this runs beside a live reader. Everything about windows (which frame belongs to which capability, the first and last
sequence number of an index row, the slice files) depends on the order of `arm`, `disarm` and `write_frame`.

The transport retries until its delay can no longer be computed, resends a payload after an error, and is closed by one
thread while another is inside `read`. A session directory can be given to several runs, and a run can be killed: the index and meta.json are written at
the very end, the log and the slices as it goes, and the files of two runs then lie side by side for the triage commands.
Which bus a run opens depends on flags, shell variables, a `.env` file and defaults. The framer must give the same frames however the stream is cut into reads and must not hang or hold bytes for
ever on noise. The single-threaded commands leave their loop in many ways (bound, end of source, exception, Ctrl-C) and
rely on a generator's `finally` block to close the transport. `PROJECT.json` lists each such hazard at its line.

What makes each component correct, in a line:

- transport: no reconnect leaks a socket; the connected flag is true; nothing stays open after `close`; an empty read is an
  end; a write doubles at most once; no trouble ends a call that should retry;
- framer: frames independent of read boundaries; bounded rest; every feed ends; a flush finds nothing;
- messages and crafting: a crafted request is decoded to itself, a damaged one never to another;
- session writer: rows, slices and root log describe the same windows; a finished row never changes;
- capability session: frames are logged once and in bus order; the index covers the walk; a quit ends it;
- capture, watch, decode, send: the raw log is never behind the frame log; output is not partial; bounds hold; the transport
  is released; TX at most once;
- catalog, settings: the walk and the bus are the ones the flags ask for;
- triage: summary and extraction describe the last run that ended, and find after a kill what the slices lack.

## 2. Modules and how they correspond to the code

**`CapabilityWriter`** is the state of `CapabilitySessionWriter` and the `CaptureWriter` in it, with one operator per
method: `Arm`, `DisarmAndIndex`, `WriteRaw`, `WriteLine`/`CountLine` (the two halves of `write_frame`), and `close()` as
`CloseSlice`, `WriteIndex`, `CloseRaw`, `CloseFrames`, `WriteMeta`. Methods that hold the lock throughout are one
step; `write_frame` is two, because `close` reads its counters without the lock. Variables are named after the fields they model.

**`CapabilitySession`** runs those operators from two threads. `pc` is the main thread: the `SessionPhase` values, then
the steps of the `finally` block of `run()`. `rpc` is the reader thread. The framer appears here by its one unsafe
spot only: `_try_take_a5` copies a frame and then deletes its bytes, and both threads may be in it (`DrainCopy`,
`DrainDelete`). `Faults` selects what may go wrong: Ctrl-C at a prompt or in the join, an `open` that raises, writes that fail.
A frame is its position on the bus.

**`CapabilityLog`** is the abstract journal: windows are opened and closed, a frame is recorded in the open window or in none,
a closed window gets a row with its count. `CapabilitySession!KeepsJournal` says that the session implements it.

**`Transport`** is `ReconnectingTransport` over `TcpTransport` or `SerialTransport` (`backend`): the two differ in what a read
of nothing means, an end of the stream for the one, an idle line or a handle closed under it for the other. Each access to a
shared field is a step, so that `close()` can come between the test of `_sock` and its second load, or between a connect and
the assignment of its socket, and a reconnect can store a socket between the load of `_sock` in `_disconnect_once` and its
store of None (`CloseLoad`, `CloseUnset`; `DropLoad`, `DropUnset` for the call's own drop). `reconnect` and `shared` (close from
another thread) are chosen in the initial state. `_attempt` grows with every failed try, as in the code; at the attempt
`Overflow`, which is 1024 for a float, `backoff_delay` raises and the call ends (`BackoffOverflows`). `failures` is a history
variable: how many failures there have been in a row.

**`Framer`** is `feed`, `reset` and the loop of `_drain`, one iteration a step, for both kinds of frame; bytes that mean
something to it (`00 FF A5 10 02 03`) are parameters, so that a small alphabet can be checked and the real one used.
**`FramerChunks`** extends it and adds a second framer (`INSTANCE ... WITH`): the first is fed chunks, flushed and reset, the
second is fed the same bytes one at a time.

**`BusClient`** has `capture`, `watch`, `decode` (`decode-file` and `dump`) and the lab send in one module, since they share
the opening, the read loop and the closing of a `Session`; `client` says which command runs. `decode` collects every frame
up to the end of its file, closes it, decodes them all and then prints. Data are counts of units, several to a frame, so that a read may end
inside one. `source` says whether the bytes come from a file, whose end `read()` reports (`ReadEmpty`), or from a bus, which has
none: there `read()` returns more (`Read`, and `ReadMore` beyond the units that are told apart) or gives up (`ReadFails`).
Ctrl-C (`CtrlC`) strikes between any two steps; `AfterCtrlC` is where the `try` blocks send control.

**`Messages`** defines checksums, parsing, dispatch, crafting and `diff_tx` over real bytes. **`LabWrite`** composes it
with `Framer` (real bytes, header of 5, window of 64): a request is crafted, put on the bus behind idle bytes and in front of
whatever comes next there (`Tails`), perhaps with one byte changed, framed and decoded; so are frames of other devices with
every short LEN, right or wrong in their checksum. A LEN that was made larger takes what comes next for its payload. Headers
are octets; the command line takes any integers for them and `build_a5_hex` puts their low bytes into the frame.

**`Catalog`** and **`Settings`** are operators: what `load_catalog` admits, `--from-id` and `--only`; the merge of `.env` into
the environment, the defaults, the flags, and the transport and meta.json source built from them. An id, a host, a file is a value.

**`SessionDir`** composes them with what runs of `capture-capabilities` do to one directory, one run after the other. A run
resolves its flags (`Launch`), walks (`Arm`, `Finalize`, `CtrlC`) while lines arrive (`RootLine`, `SliceLine`), marks the rest, writes
index and meta.json, or is killed at any step (`Kill`), with a file it was writing emptied or partial. The kill is a SIGKILL:
every line is flushed, so the system has it, but nothing is synced, and what a loss of power leaves is not modelled. The
threads of a run are in `CapabilitySession`, and so are failing writes: here a run is what it does to the files, in the order it
does it, and every write succeeds. `SummarizeSession`, `ExtractFrames` and `CapabilitySlice` are
the triage commands, made of the operators of `Triage`. `IdsAsked` and `BusAsked` say in other terms what flags ask for, and are the reference for the code's operators.

**`Triage`** is what `triage.py` computes of the files: the lines with exactly one capability, the rows of one status, the
frames of all rows. `CapabilitySession` uses it too, for what its root log would give. **`Lists`** has the two things under it,
and under the catalog's filters and the checksums: the elements of a list at given positions, in order, and their sum. They
are recursive functions, not `SelectSeq` or a fold, because theorems can be proved of them for lists of every length; the sum
is taken by halves, so that TLC does not nest one evaluation per byte of a frame.

`*Proofs` modules hold the theorems (section 5). `MC*` modules give the constants values. Operators that begin a mutated copy of the code carry the comment `mutant:` and are
used by no specification.

### Plan

Order of writing, most important behaviour first: `CapabilityWriter`, `CapabilitySession`, `CapabilityLog`, `Transport`,
`Framer`, `FramerChunks`, `BusClient`, `Messages`, `LabWrite`, `Catalog`, `Settings`, `Triage`, `SessionDir`, all of them
written and checked. Proofs went in the same order: types and windows of the capability session, its end and its log, the
transport, the framer, the commands, then the refinement of `CapabilityLog`, `SameFrames`, the session directory and the lab
writes. What section 5 lists as only model-checked is what is left.

## 3. Runs

| Run | Module, bounds | Shows |
|---|---|---|
| `Session` | two capabilities armed on their prompts, 3 frames, reads of up to 2, no faults but the join's time-out | `ExtractIsSlice`: what `extract_frames` finds in the root log is the slice file. `CleanShutdown`: after a joined shutdown nothing is lost and meta.json counts right. `ReaderOutlivesWalk`. `KeepsJournal`: refinement of `CapabilityLog`. `QuitEnds`, `ReadFrameLogged`: liveness |
| `SessionFaults` | three capabilities armed by key, the first in `--skip-id`, 2 frames, all faults | `RowsMatchLog`, `LinesAreNumbered`, `LogFollowsRaw` (order and no repetition, unless the join timed out), `IndexCoversWalk`, `RowsAreFinal`, `TypeOK` |
| `SessionIndexLine` | violation | Ctrl-C at a prompt leaves the current capability without an index line |
| `SessionRawChunk` | violation | a chunk read after the join timed out is in no file |
| `Transport` | TCP and serial, 3 sockets, 3 connects, overflow at attempt 3, refusals, ends of stream, errors; with and without `reconnect=`; close between and during calls | `NoSocketLost`: one socket at most is open, and only a `close()` in another thread can put it out of reach. `FlagIsTrue`, `EmptyIsTheEnd`, `WriteCopies`, `CloseEndsCall`. `GivesUpAtLimit`: a call on an open transport gives up at the overflow only. `TypeOK` |
| `TransportClosed` | violation | `close()` clears the socket that a reconnect in another thread has just stored, and leaves it open |
| `TransportIdle` | violation | on a silent bus `read()` never returns |
| `FramerChunks` | every stream over six bytes, feeds of up to 2 beside feeds of 1, window of 7, header of 1, LEN modulo 2 | `SameFrames`, `BufferBound`, `FlushIsEmpty`, `DrainShrinks` |
| `FramerShortest` | violation | the six-byte IntelliChlor frame is given up |
| `BusClient` | four commands, from a file or a bus, bounds none, 0, 1, 2; 7 units, 2 to a frame, reads of up to 5; windows of 2 ticks | `LogInRaw`, `RawIsComplete`, `EofIsComplete`, `StopsAtMax`, `MetaCounts`, `LinkReleased`, `TxOnce`, `ClientEnds`, `TypeOK` |
| `LabWrite` | 31 requests, 5 kinds of idle bytes, 7 things behind them, each byte of a request changed to 9 values, device frames of LEN 0-6, 15-20, 255 | `CraftedIsDecoded` (and what is decoded crafts the same bytes), `ChangeIsNoticed`, `WriteFieldsInPayload`, `DiffAgrees` |
| `SessionDir` | two runs, 2 lines each, two capabilities and a catalog file of four with a reserved and a repeated id; 768 ways to name the bus; a kill at any step | `RunAnswersFlags`: a run walks and records what its flags ask for, from the bus they ask for. `TriageDescribesRun`: after a run that ended, rows, slices, root log and meta.json describe it, whatever was in the directory. `ExtractRecovers`: after a kill, extraction finds what the slices have and at most a line more. `OthersKept`: slices of capabilities that a run does not walk survive it, and its root log replaces the one before |

### Bounds, and why they are enough

- Session: a window needs a frame before, in and after it (3 frames) and a read of two frames, so that one may be written
  while the other waits across a disarm. Two capabilities give an arm after a disarm; the third in `SessionFaults` gives a row
  between a configured skip and a not-run mark. `MaxFrames` and `MaxChunk` bound the bus, not the code.
- Transport: three connects are the first, a reconnect, and the one during which `close()` comes. `MayGo` lets a peer go only
  while a connect is left, so that the bound never looks like a hang. `Overflow` is 3 where the program has 1024: three tries
  fail and the next raises, with a connect that resets the count before any of them. The theorems are for every `Overflow`.
  Once close() has begun every call is over after a bounded number of steps.
- Framer: the buffer never outgrows the window or one frame (`BufferBound`), so all streams of any length are explored. The
  header, LEN and window are scaled down to keep the states few; the order among them (a frame shorter than the
  window, a window that holds a whole IntelliChlor frame and its abandonment) is that of the code. The bounds of
  `BufferBound` and `DrainShrinks` are also proved for every value.
- FramerChunks: a read of two bytes that completes, begins or spoils a frame is compared with the same two bytes one by one,
  from every buffer that can be held back. Reads of three (`MaxFeed = 3`, 3.7 million states, five minutes) give the same
  result; that reads and streams of every length do is not implied by the run, but proved (`ChunksMakeNoDifference`).
- BusClient: seven units are three frames and a half, a read of five units two frames and a half, so that a bound of 1 or 2
  can stop inside a chunk and the source can end inside a frame. Ctrl-C strikes once. A partial
  frame at the end of a file is dropped, as by the framer.
- LabWrite: values include those that look like syncs and delimiters to the framer and numbers above a byte, and headers in
  which a change makes a false sync, an IntelliChlor frame or the command of another write; LEN 16 to 20 is where a status frame's
  last field moves from the checksum into the payload, and 255 overflows nothing. Behind a request come nothing, idle bytes,
  another write, a status frame with delimiters in it, and the bytes with which a request is complete, checksum included,
  when its LEN is changed to 4, to 6 or to 16: the run decodes such frames, and writes that lie behind a request.
- SessionDir: the second run is the one that finds files; a third would find what a second leaves, which is the same kind of
  files. Two lines are enough for one in a window and one outside, or one in each of two. The runs that differ in their bus walk one
  capability. `CHECK_DEADLOCK FALSE`, since the runs are bounded: after the last nothing happens. Every step may be the last of
  a run, so nothing has to happen and no liveness is stated here.

### Fairness

`CapabilitySession!FairSpec` schedules both threads (the operating system does) and lets a join that has waited time out;
the operator need not press a key, and nothing obliges the bus to speak. `Transport!FairSpec` has the steps of a call and of
`close()` go on: each connect, receive and sleep is bounded by a time-out. The framer needs no fairness: `DrainShrinks` bounds its
loop. `BusClient!FairSpec` assumes that reads return; `TransportIdle` shows that they do not on a silent bus, so
`ClientEnds` is a promise for a bus that speaks, and for files. It is a promise only to commands that have something to end
them (`MustEnd`): an end of the file, a deadline, a bound on frames, an error or Ctrl-C. A `watch` or a `capture` without a bound goes on
for as long as the bus speaks, as the documents say (README.md:138, 185, cli.py:580), and so may a bounded `watch` that is shown
nothing it passes. No fairness is assumed of failures (`Fault`), Ctrl-C or the peer.

## 4. Findings

1. `capability_session.py:416`: after Ctrl-C at a prompt the current capability has no line in `index.jsonl`, which
   docs/capability-capture.md:63 promises (`SessionIndexLine`).
2. `capability_session.py:464`: the writer is closed before the transport when the join has timed out, so a chunk can be
   read and be in no file (`SessionRawChunk`).
3. `transport.py:254`: `close()` during a connect in another thread does not close the socket that connect stores: between
   the load of `_sock` (253) and the store of None (254) it is cleared and out of reach, afterwards it stays with `_connected`
   set (`TransportClosed`).
4. `transport.py:122`: an idle time-out makes `read()` loop, not return as its docstring and `cli.py:781` say
   (`TransportIdle`). A listen window on a silent bus never ends and the TX after it is never sent.
5. `framer.py:221`: an IntelliChlor frame with one data byte, the shortest the comment allows, is dropped (`FramerShortest`).

A limit that no document speaks of, checked and proved as it is: the class comment of the transport (`transport.py:63`) has it
back off and reconnect for as long as it is open, and after 1024 failures in a row, some eight hours at the longest delays,
`initial * (2**attempt)` (55) is an `OverflowError` that ends the call (`GivesUpAtLimit`).

## 5. Proofs

All theorems hold for every value of the constants, from the assumptions named in the modules.

**Capability session: types and windows** (`CapabilitySessionProofs`; from `WalkAssumption` and `ConfigAssumption`).
`TypeCorrect` proves `TypeOK` from the inductive `TypeInv`, which adds to the types what a step needs to be well typed.
`SessionInv` is the invariant for the rest:

- `PhaseInv`: which phases have an armed window, and who can hold the lock;
- `LineInv`: the number of a line is its place, and `_frame_seq` is the length of the log, or one less between the two halves
  of `write_frame`. The latter is why the plain property is not inductive;
- `WindowInv`: during the walk the open window's slice holds the lines from its start on, as many as its count, and they are
  the end of the log; a reader killed by a failing slice write may have left one line more in the log;
- `RowInv`: a position with a row has no open window, so its slice is no longer written;
- `RowsMatchLog` itself.

From it follow `Numbered` (`LinesAreNumbered`), `RowsMatch` (`RowsMatchLog`) and `RowsFinal` (`RowsAreFinal`).

**Capability session: its end, its log, its journal** (`CapabilityJournalProofs`, from the same assumptions).

- `StopInv` (the root files are closed only after the stop event is set) gives `ReaderOutlives`, for fault sets without
  `"disk"`: a failing write does end the reader.
- `CoverInv` counts rows against the cursor, one short while a position is current or was left by an exception, with no
  `not_run` row before the walk is over; `IndexCovers` follows.
- `OrderInv` follows the frames from the bus to the log. `RawInv`: raw.ndjson is the bus as far as it was read, but for the
  chunk about to be written. `PipeInv`, unless the join timed out: only the reader is in the framer, what it copied is the
  head of the buffer, and the log, `taken`, `fbuf` and `chunk` one after the other are the bus without a gap or a
  repetition (`InOrder`), no frame more and none less than raw.ndjson has (`Accounted`). `EndInv` orders the end: no stop before
  `STOP`, no close before the join, and the count of meta.json after all lines. `LogInOrder` (`LogFollowsRaw`) follows for
  every fault set, `NothingLost` (`CleanShutdown`) without `"disk"`, since a line whose write fails is read and not logged.
- `JournalKept` is the refinement: every step of either thread maps to `OpenWindow`, `Record`, `CloseWindow` or `MarkNotRun` of
  `CapabilityLog` or to a stutter. `CapabilityLog` states no fairness, so this is the whole refinement. The proof needs that no line has
  the tag of a window that has not been opened yet (`TagInv`) and that frames in flight come from the bus (`RangeInv`).
- `ExtractedIsSlice` (`ExtractIsSlice`): `SliceInv` says that the lines with a window's tag are its slice file from the arm on,
  but for the line of a `write_frame` that is half done.

The last two have two hypotheses. `DistinctIds`: `test_default_catalog_count_and_unique_ids` (tests/test_catalog.py:75) demands
it of the shipped catalog; with a repeated id two windows share a tag, and extraction returns the lines of both. No `"disk"`: a
frame whose slice write fails is in the root log under a tag and in no slice and no row; TLC finds both properties violated
with it.

**Recursion** (`RecursionProofs`). The library's induction theorems take an operator; here induction is in first-order form, "the set
of numbers for which it holds is all of them", from the library's least number of a set (`SetInduction`), and a recursive
function exists and is the only one that takes its steps (`IterationExists`, `IterationsAgree`). From these: what `Subsequence`,
`Total` and `FlattenSeq` make of a list, of one more element, and of all or none, for lists of every length. `TotalIsLast` shows
that the sum by halves is the sum from the left.

**Framer** (`FramerProofs`, from `FramingAssumption`). `FramerInv` is the types, that a framer between two feeds is
*settled* (no step of the drain loop would take a frame), that a feed of no data keeps it settled, and `FlushIsEmpty`. From
it follow `TypeCorrect`, `Bounded`, `FlushTakesNothing` and `Shrinks`; the last says that `feed` terminates on every input.

`ChunksMakeNoDifference` (`SameFrames`) is for streams and reads of every length. One turn of the loop is a function of the buffer
(`Taken`, `Rest`, `Waits`). `SameTurn` is the core: a turn that does not wait does the same with more bytes behind, and
`TurnBeforeMore` treats the turns that wait, whose rest (a prefix of a frame, the last bytes of noise) gives with more bytes what
the whole buffer gives. `Drained` is the least relation that holds of a buffer, the frames a feed takes from it and the rest;
induction over its length is that the relation is least. The invariant `ChunksInv` says that what the first framer
will have taken when its feed ends is what the second will have taken once it has got the pending bytes too (`Outcomes`), so a
step of either changes nothing. `ChunksAreFeeds`: each of the two takes only the steps of `Framer`, so what is proved there
holds of both.

**Transport** (`TransportProofs`, from `TransportAssumption`). `SocketInv` adds to `NoSocketLost` that there is no socket to
overwrite while a call dials (`SockInv`), that an open socket is the stored one or the one the call or `close()` holds, unless
`close()` in another thread has cleared it (`HeldInv`), and that a stored socket with the flag down means that `close()` has begun
(`FlagInv`, `CloseInv`): without the last, the connect of `Ensure` could not be told from one that overwrites a socket.
`SocketsKept` follows. `WriteInv` says what has left before each try and when there is a second one; `Copies` follows. With the
types (`TypeCorrect`), `LinkInv` gives the rest: `TrueFlagInv`, that until `close()` begins flag and socket agree but between
the two assignments that change them, and `ClosedInv`, that without another thread no call follows a `close()` (`FlagTrue`);
`EndInv`, that a read about to return nothing met the end of a stream or a closed transport (`EmptyReads`). `CountInv` compares
`_attempt` with the failures in a row, of which there is one more while the next wait is due: a delay that overflows has had
all of them before it, and `CallsGiveUp` (`GivesUpAtLimit`) follows.
`CallsRunDown` is the safety half of `CloseEndsCall`: `StepsLeft` measures how far a call is from its end, and once `close()` has
begun every step of the call makes it smaller, from 17 at the most. `CallInv`, that `close()` comes into a read, a write or no
call, never into `open()`, is all it needs. What is left to TLC is that the steps are taken.

**Single-threaded commands** (`BusClientProofs`, from `ClientAssumption`; for every number of units, size of frame, chunk,
window and bound). `FlowInv` is about the way through a command: what can have ended it, that the link is released on every way
out but a Ctrl-C inside `open()` or `close()`, and that the second window is the one after the write; `Released` and `SentOnce`
follow. `DataInv` is about units and frames: a chunk is in raw.ndjson before the framer has it, between two reads every whole frame
is consumed, a line follows its frame and a count its line, decode knows all frames before it decodes the first.
It gives `LogFollowsRaw`, `RawComplete`, `MetaTrue`, `Stops` and `EofComplete`; the arithmetic of whole frames is
`AllFrames` and its neighbours.

**Session directory** (`SessionDirProofs`, for any number of runs, launches, ids and lines). `LaunchAssumption` says of the
constants that the values which stand for `None`, a failure, no capability and a missing file are none of the values they stand
beside, and types the catalogs and endpoints; `AnswersAssumption` lists the answers a prompt can give. For the pure
part, `SelectedIsAsked` shows by induction over the catalog that what `load_catalog`, `--from-id` and `--only` leave is
`IdsAsked`, and `BusIsAsked` by cases that the settings give `BusAsked`. For the steps:

- `BaseInv`: types, which phase has what, numbers of lines, and that walk and bus are those of the launch; with `SelectedIsAsked` and
  `BusIsAsked` it gives `FlagsAnswered` (`RunAnswersFlags`);
- `SliceInv`: a line in a slice of this run is of a position the walk has come to, so the files of other capabilities are
  those of earlier runs; with `TagInv`, that a line is tagged for a position the walk has come to, `OtherSlicesSurvive`
  (`OthersKept`). What the root log, the index and meta.json said of an earlier run does not survive, and nothing here says so;
- `WindowInv`, `RowInv`, `OrderInv`: the open window and every row are ranges of this run's log, and the rows are those of the
  positions passed, one missing after a Ctrl-C;
- `PieceInv`: what extraction finds of an id is its slices one after the other, and the line that is not yet in one;
  `Recovers` (`ExtractRecovers`) follows, since a kill can strike at any step;
- `TaggedInv`: the tagged lines are the frames of the rows, of the open window, and the line in between. With the invariants
  above it gives `TriageTrue` (`TriageDescribesRun`).

**Lab writes** (`LabWriteProofs`, with `Messages` and the real framing constants; from `LabAssumption`: requests are of the two
write types, with three octets of header and two or three integers, idle bytes are 00 and FF, other bytes are octets).
`BuiltBytes` gives the bytes of `build_a5` one by one, `TrailerVerifies` that a trailer made by `Trailer` verifies,
`CircuitDecoded` and `HeatDecoded` that the message of these bytes is the request, each integer cut to a byte. `LabInv` is the
types, that nothing is buffered before a frame is sent (`QuietInv`), that only a frame is decoded (`DecodedInv`), and `SentInv`,
which follows a request on a bus whose other bytes may be anything (`Stream` is the request and what is behind it):

- while its sync is whole it is in the buffer behind its idle bytes (`InBuffer`), waits for the bytes of a LEN that is too large
  (`Waiting`), or is the first frame taken, as long as its LEN says (`FirstTaken`);
- whatever is taken is a piece of the bytes on the bus, and begins with a sync and is as long as its own LEN says, or ends with
  the delimiter of an IntelliChlor frame (`AllPieces`).

`CraftedFirst` and with it `CraftedDecodes` (`CraftedIsDecoded`) follow. `FieldsStayInside` (`WriteFieldsInPayload`) is about any frame of any
device. `OneByteIsNoticed` is about the checksums alone: when one byte of a good frame of any length is replaced, the sum changes
by less than 256, or one of the two trailer bytes does, or the two that frame an IntelliChlor one, so verification fails.

That alone does not say what becomes of a changed *request*, since the framer cuts frames where the changed bytes tell it to.

- Behind the sync (`BehindSync`): with LEN as it was the frame is the whole request, and its checksum fails. With LEN smaller the
  checksum can hold (with LEN 0 in a request with the header `B6 10 10` for circuit 2 it does), but LEN is below the least of
  the parser, which raises. With LEN larger the frame ends in the bytes that follow on the bus, and their last two can be its
  checksum (the run has such bytes); then it is decoded, and says what the request said but for LEN (`LongerDecoded`): the
  fields of a write are the first bytes of its payload, and a change of one byte leaves them alone.
- In the sync (`WriteHasSync`, `FalseSync`): a decoded write needs an A5. It can be the request's own, behind a preamble that lost
  its first FF; then the message is the request. It can be the byte that was changed to A5, first or second in the preamble;
  then command and LEN are taken from the protocol or the destination of the request, which the lab sets to 7 and 16. If they
  were 134 or 136 another write could be decoded (it is, with the header `86 04 20`), so `ChangeIsNoticed` has that as a
  precondition, `PlainHeader`. It can lie behind the request; then the frame is one of what follows (`OfTail`). And it can be in
  the header or the payload, if they hold a sync of their own; then the frame may end in what follows and mean anything, so
  `OneSync` is a precondition too. Of the requests the lab sends none holds a second sync: it needs 00 FF A5 among the source, the
  command, LEN and two or three fields.

`ChangesAreNoticed` (`ChangeIsNoticed`) and `DiffAlwaysAgrees` (`DiffAgrees`) follow. The second needs no precondition on the header, and
that an IntelliChlor frame is not the request: it would need 10 as the high byte of its checksum, and so few bytes have no sum that
large (`ChlorIsOther`).

Each property named in `PROJECT.json` with a theorem is also checked by TLC on the instance of its run, and TLC
finds no violation of the inductive invariants of `LabWrite` and `SessionDir` there either (with `Leads` for all sequences of idle bytes),
nor of `CallInv` and `CallsRunDown` in the run `Transport`.

Only model-checked:

- all liveness (`QuitEnds`, `ReadFrameLogged`, `CloseEndsCall`, `ClientEnds`): it rests on fairness and `ENABLED`, which the
  prover does not handle. Of `CloseEndsCall` the part without fairness is `CallsRunDown`. Every safety invariant and action property that a run checks is proved.

## 6. What is not modelled

- The parsing of hex text by the file transport, and the listen-only wrapper, which holds no state.
- A `close()` of a serial handle that raises anything but `OSError`; how often a transport has reconnected (`reconnect_count`
  is kept in the model, but only its growth from the second connect on, and no property is about it).
- In `SessionDir`: raw.ndjson and the catalog snapshot; a last index line cut in its middle, which makes `load_index` raise
  (a kill leaves whole rows in the model); two runs at once in one directory, which nothing in the code is meant for.
- A catalog entry that is no object raises a `TypeError`, and a bad endpoint of `--send --tcp` a `ValueError`, that no command
  catches; both end the command before it does anything, as a refusal does.
- `diff_tx` of a reference that is cut inside its header, where the code raises: the framer makes no such frame. One without an A5,
  where it raises too, counts as different.
- The search for `.env` and the syntax of its lines, the baud rate, the texts of the catalog.
- What a frame cut by a reconnect does to the next one: the framer is not told of a reconnect, and no document says what
  should become of the bytes it holds.
- Argument parsing, printing, JSON text, time stamps, hex text, NOTES and snapshot files: nothing reads them back.
- In the capability session Ctrl-C is raised at prompts and in the join, where the main thread spends its time, not between any two
  statements; in `BusClient` it is raised anywhere.
- The backoff's delays and jitter: only the level they are drawn from.
- Circuit flag names, `pack_heat_mode`, circuit name parsing: tables.
