----------------------------- MODULE BusClient -----------------------------
(***************************************************************************)
(* The commands that run in one thread over a Session: capture (both logs  *)
(* of what the bus says), watch (decoded messages on stdout) and the lab   *)
(* send (listen, write, listen) share the loop of iter_frames(): open,     *)
(* read, feed, one frame at a time to the consumer, close.  decode (dump   *)
(* too) reads a capture file to its end with read_frames(), closes it,     *)
(* decodes every frame and only then prints.                               *)
(*                                                                         *)
(* The bus is a stream of units, UnitsPerFrame of them to a frame, so that *)
(* a read may end inside a frame; the framer has taken every whole frame   *)
(* of the units it was fed (FlushIsEmpty of Framer), so counts stand for   *)
(* the data.  A file has an end, a link has none (EmptyIsTheEnd of         *)
(* Transport: no command turns reconnect= off).  Ctrl-C strikes once,      *)
(* between any two steps; reads, writes and the decoding of a frame may    *)
(* raise.                                                                  *)
(***************************************************************************)
EXTENDS Integers

CONSTANTS
    Clients,        \* the commands that run
    Maxes,          \* the values of --max-frames, --max-messages
    NoMax,          \* None for it
    UnitsPerFrame,
    MaxChunk,       \* bound: the units of one read
    MaxUnits,       \* bound: the units that are followed
    Window          \* the length of a listen window, in clock ticks

ASSUME ClientAssumption ==
    /\ Clients \subseteq {"capture", "watch", "send", "decode"}
    /\ NoMax \notin Nat /\ Maxes \subseteq Nat \union {NoMax}
    /\ UnitsPerFrame \in Nat \ {0} /\ MaxChunk \in Nat /\ MaxUnits \in Nat /\ Window \in Nat

VARIABLES
    client, max,    \* the command and its bound
    source,         \* --file, or --tcp and --serial
    pc,
    link,           \* the transport is open
    liveOpen,       \* Session._live_open
    units,          \* the units read() has returned
    raw,            \* those of them in raw.ndjson
    fed,            \* those of them given to the framer
    yielded,        \* the frames handed to the consumer, or collected
    lines,          \* the lines of frames.ndjson, or those decode has printed
    count,          \* the frames counted (_frame_seq and framed; emitted; decoded)
    meta,           \* "frames" in meta.json, Nothing before it is written
    window, left,   \* the listen window, and what is left of it
    sent,           \* the calls of write(tx)
    outcome,        \* why the loop was left
    struck          \* where Ctrl-C struck

setup == <<client, max, source>>
files == <<raw, lines, meta>>
data  == <<units, fed, yielded, count>>
lab   == <<window, left, sent>>
ends  == <<outcome, struck>>
vars  == <<setup, pc, link, liveOpen, files, data, lab, ends>>

Nothing == -1
Looping == {"reading", "recording", "feeding", "yielding", "consuming", "counting", "sending"}
Outside == {"opening", "opened", "closing", "closed", "decoding", "printing", "files", "meta"}

FlagsOK == {link, liveOpen} \subseteq BOOLEAN

TypeOK ==
    /\ client \in Clients /\ max \in Maxes /\ source \in {"file", "link"}
    /\ pc \in Looping \union Outside \union {"done"}
    /\ FlagsOK
    /\ {units, raw, fed} \subseteq 0..MaxUnits
    /\ {yielded, lines, count} \subseteq Nat /\ meta \in Nat \union {Nothing}
    /\ window \in {1, 2} /\ left \in 0..Window /\ sent \in Nat
    /\ outcome \in {"none", "eof", "max", "ended", "interrupt", "error", "unrecorded"}
    /\ struck \in Looping \union Outside \union {"no"}

Init ==
    /\ client \in Clients /\ max \in Maxes
    /\ source \in CASE client = "decode" -> {"file"}
                    [] client = "send"   -> {"link"}
                    [] OTHER             -> {"file", "link"}
    /\ pc = "opening" /\ link = FALSE /\ liveOpen = FALSE
    /\ units = 0 /\ raw = 0 /\ fed = 0 /\ yielded = 0 /\ lines = 0 /\ count = 0
    /\ meta = Nothing /\ window = 1 /\ left = Window /\ sent = 0
    /\ outcome = "none" /\ struck = "no"

Goto(from, to) == pc = from /\ pc' = to

(* The loop is left, and the finally block of iter_frames() entered.       *)
Leave(why) == pc' = "closing" /\ outcome' = why

-----------------------------------------------------------------------------
(* Session.open().  It is outside the try block that closes.               *)

OpenLink ==
    /\ Goto("opening", "opened")
    /\ link' = TRUE
    /\ UNCHANGED <<setup, liveOpen, files, data, lab, ends>>

OpenFails ==
    /\ Goto("opening", "files")
    /\ outcome' = "error"
    /\ UNCHANGED <<setup, link, liveOpen, files, data, lab, struck>>

SetLive ==
    /\ Goto("opened", "reading")
    /\ liveOpen' = (client # "decode")
    /\ UNCHANGED <<setup, link, files, data, lab, ends>>

-----------------------------------------------------------------------------
(* The loop.  A listen window looks at its deadline before each read.      *)

InWindow == client = "send" => left > 0

TickUnchecked ==         \* mutant: the window is counted below zero
    left' = left - 1

(* A read takes time or none; the clock matters to a window only.          *)
Tick == left' \in {left} \union (IF client = "send" THEN {left - 1} ELSE {})

ReadUnrecorded(k) ==     \* mutant: a chunk that ends no frame is not logged
    /\ pc = "reading" /\ InWindow
    /\ units + k <= MaxUnits
    /\ units' = units + k
    /\ pc' = IF client = "capture" /\ fed + k >= UnitsPerFrame THEN "recording" ELSE "feeding"
    /\ Tick
    /\ UNCHANGED <<setup, link, liveOpen, files, fed, yielded, count, window, sent, ends>>

Read(k) ==
    /\ pc = "reading" /\ InWindow
    /\ units + k <= MaxUnits
    /\ units' = units + k
    /\ pc' = IF client = "capture" THEN "recording" ELSE "feeding"
    /\ Tick
    /\ UNCHANGED <<setup, link, liveOpen, files, fed, yielded, count, window, sent, ends>>

(* Beyond MaxUnits a link says more, of which only the time is followed.   *)
ReadMore ==
    /\ source = "link" /\ pc = "reading" /\ InWindow
    /\ units = MaxUnits
    /\ left' = IF client = "send" THEN left - 1 ELSE left
    /\ UNCHANGED <<setup, pc, link, liveOpen, files, data, window, sent, ends>>

(* No data: the end.                                                       *)
ReadEmpty ==
    /\ source = "file" /\ pc = "reading"
    /\ Leave("eof")
    /\ UNCHANGED <<setup, link, liveOpen, files, data, lab, struck>>

(* read() gives up after too many failures in a row (GivesUpAtLimit).      *)
ReadFails ==
    /\ source = "link" /\ pc = "reading" /\ InWindow
    /\ Leave("error")
    /\ UNCHANGED <<setup, link, liveOpen, files, data, lab, struck>>

RecordPrevious ==        \* mutant: the line is written one read late
    /\ Goto("recording", "feeding")
    /\ raw' = fed
    /\ UNCHANGED <<setup, link, liveOpen, lines, meta, data, lab, ends>>

(* RecordingTransport.read(): the chunk goes to raw.ndjson first.          *)
Record ==
    /\ Goto("recording", "feeding")
    /\ raw' = units
    /\ UNCHANGED <<setup, link, liveOpen, lines, meta, data, lab, ends>>

RecordFails ==
    /\ pc = "recording"
    /\ Leave("unrecorded")
    /\ UNCHANGED <<setup, link, liveOpen, files, data, lab, struck>>

Feed ==
    /\ client # "decode" /\ Goto("feeding", "yielding")
    /\ fed' = units
    /\ UNCHANGED <<setup, link, liveOpen, files, units, yielded, count, lab, ends>>

(* read_frames() keeps every frame the chunk has completed.                *)
Collect ==
    /\ client = "decode" /\ Goto("feeding", "reading")
    /\ fed' = units /\ yielded' = units \div UnitsPerFrame
    /\ UNCHANGED <<setup, link, liveOpen, files, units, count, lab, ends>>

FrameWaits == (yielded + 1) * UnitsPerFrame <= fed

YieldSkips ==            \* mutant: one frame for each read
    /\ pc = "yielding"
    /\ IF FrameWaits THEN pc' = "consuming" /\ yielded' = fed \div UnitsPerFrame
       ELSE pc' = "reading" /\ UNCHANGED yielded
    /\ UNCHANGED <<setup, link, liveOpen, files, units, fed, count, lab, ends>>

Yield ==
    /\ pc = "yielding"
    /\ IF FrameWaits THEN pc' = "consuming" /\ yielded' = yielded + 1
       ELSE pc' = "reading" /\ UNCHANGED yielded
    /\ UNCHANGED <<setup, link, liveOpen, files, units, fed, count, lab, ends>>

-----------------------------------------------------------------------------
(* The consumers.                                                          *)

Bounded == {"capture", "watch"}

CountedLate ==           \* mutant: the bound is tested before the count
    /\ count' = count + 1
    /\ IF max # NoMax /\ client \in Bounded /\ count >= max
       THEN Leave("max")
       ELSE pc' = "yielding" /\ UNCHANGED outcome

(* The frame counts, and the bound is looked at after it.                  *)
Counted ==
    /\ count' = count + 1
    /\ IF max # NoMax /\ client \in Bounded /\ count' >= max
       THEN Leave("max")
       ELSE pc' = "yielding" /\ UNCHANGED outcome

WriteLine ==
    /\ client = "capture" /\ Goto("consuming", "counting")
    /\ lines' = lines + 1
    /\ UNCHANGED <<setup, link, liveOpen, raw, meta, data, lab, ends>>

CountLine ==
    /\ pc = "counting" /\ Counted
    /\ UNCHANGED <<setup, link, liveOpen, files, units, fed, yielded, lab, struck>>

(* watch passes over quarantined and filtered messages, uncounted.         *)
Skip ==
    /\ client = "watch" /\ Goto("consuming", "yielding")
    /\ UNCHANGED <<setup, link, liveOpen, files, data, lab, ends>>

Emit ==
    /\ client # "capture" /\ pc = "consuming" /\ Counted
    /\ UNCHANGED <<setup, link, liveOpen, files, units, fed, yielded, lab, struck>>

(* A write that raises, or decode_frame() on a frame too short for its     *)
(* type: no command catches either.                                        *)
ConsumeFails ==
    /\ pc = "consuming"
    /\ Leave("error")
    /\ UNCHANGED <<setup, link, liveOpen, files, data, lab, struck>>

-----------------------------------------------------------------------------
(* The lab send.                                                           *)

WindowOverAgain ==       \* mutant: the second window begins again
    /\ client = "send" /\ pc = "reading" /\ left = 0
    /\ IF window = 1 THEN pc' = "sending" /\ UNCHANGED left ELSE left' = Window /\ UNCHANGED pc
    /\ UNCHANGED <<setup, link, liveOpen, files, data, window, sent, ends>>

WindowOver ==
    /\ client = "send" /\ pc = "reading" /\ left = 0
    /\ IF window = 1 THEN pc' = "sending" /\ UNCHANGED outcome ELSE Leave("ended")
    /\ UNCHANGED <<setup, link, liveOpen, files, data, lab, struck>>

SendTxAgain ==           \* mutant: the second window is taken for the first
    /\ Goto("sending", "reading")
    /\ sent' = sent + 1 /\ left' = Window
    /\ UNCHANGED <<setup, link, liveOpen, files, data, window, ends>>

SendTx ==
    /\ Goto("sending", "reading")
    /\ sent' = sent + 1 /\ window' = 2 /\ left' = Window
    /\ UNCHANGED <<setup, link, liveOpen, files, data, ends>>

SendFails ==
    /\ pc = "sending"
    /\ sent' = sent + 1
    /\ Leave("error")
    /\ UNCHANGED <<setup, link, liveOpen, files, data, window, left, struck>>

-----------------------------------------------------------------------------
(* The way out: the session, then the files of a capture.                  *)

CloseLink ==
    /\ Goto("closing", "closed")
    /\ link' = FALSE
    /\ UNCHANGED <<setup, liveOpen, files, data, lab, ends>>

ClearLive ==
    /\ pc = "closed"
    /\ pc' = IF client = "decode" /\ outcome = "eof" THEN "decoding" ELSE "files"
    /\ liveOpen' = FALSE
    /\ UNCHANGED <<setup, link, files, data, lab, ends>>

PrintAsDecoded ==        \* mutant: decode prints a frame before it has decoded the next
    /\ pc = "decoding" /\ count < yielded
    /\ count' = count + 1 /\ lines' = lines + 1
    /\ UNCHANGED <<setup, pc, link, liveOpen, raw, meta, units, fed, yielded, lab, ends>>

(* The list of messages, then the output, without the quarantined ones     *)
(* unless they are asked for.                                              *)
Decode ==
    /\ pc = "decoding" /\ count < yielded
    /\ count' = count + 1
    /\ UNCHANGED <<setup, pc, link, liveOpen, files, units, fed, yielded, lab, ends>>

DecodeFails ==
    /\ pc = "decoding" /\ count < yielded
    /\ pc' = "files" /\ outcome' = "error"
    /\ UNCHANGED <<setup, link, liveOpen, files, data, lab, struck>>

DecodeEnds ==
    /\ pc = "decoding" /\ count >= yielded /\ pc' = "printing"
    /\ UNCHANGED <<setup, link, liveOpen, files, data, lab, ends>>

PrintLine ==
    /\ pc = "printing" /\ lines < count
    /\ lines' = lines + 1
    /\ UNCHANGED <<setup, pc, link, liveOpen, raw, meta, data, lab, ends>>

PrintEnds ==
    /\ Goto("printing", "files")
    /\ UNCHANGED <<setup, link, liveOpen, files, data, lab, ends>>

CloseFiles ==
    /\ pc = "files"
    /\ pc' = IF client = "capture" THEN "meta" ELSE "done"
    /\ UNCHANGED <<setup, link, liveOpen, files, data, lab, ends>>

WriteMetaYielded ==      \* mutant: the frames counted where they are yielded
    /\ Goto("meta", "done")
    /\ meta' = yielded
    /\ UNCHANGED <<setup, link, liveOpen, raw, lines, data, lab, ends>>

WriteMeta ==
    /\ Goto("meta", "done")
    /\ meta' = count
    /\ UNCHANGED <<setup, link, liveOpen, raw, lines, data, lab, ends>>

AfterCtrlCSkips ==       \* mutant: only the commands, not iter_frames(), clean up
    IF pc \in {"files", "meta"} THEN "done" ELSE "files"

(* Where control goes when KeyboardInterrupt is raised at pc.              *)
AfterCtrlC ==
    CASE pc \in Looping                                  -> "closing"
      [] pc \in {"opening", "opened", "closing", "closed"} -> "files"
      [] pc \in {"decoding", "printing"}                 -> "files"
      [] pc \in {"files", "meta"}                        -> "done"

CtrlC ==
    /\ pc # "done" /\ struck = "no"
    /\ struck' = pc /\ pc' = AfterCtrlC
    /\ outcome' = IF outcome = "none" THEN "interrupt" ELSE outcome
    /\ UNCHANGED <<setup, link, liveOpen, files, data, lab>>

-----------------------------------------------------------------------------
ClientStep ==
    \/ OpenLink \/ SetLive
    \/ (\E k \in 1..MaxChunk : Read(k)) \/ ReadMore \/ ReadEmpty
    \/ Record \/ Feed \/ Collect \/ Yield
    \/ WriteLine \/ CountLine \/ Skip \/ Emit
    \/ WindowOver \/ SendTx
    \/ Decode \/ DecodeEnds \/ PrintLine \/ PrintEnds
    \/ CloseLink \/ ClearLive \/ CloseFiles \/ WriteMeta

Fault ==
    \/ OpenFails \/ ReadFails \/ RecordFails \/ ConsumeFails \/ SendFails \/ DecodeFails

Terminated == pc = "done" /\ UNCHANGED vars

Next == ClientStep \/ Fault \/ CtrlC \/ Terminated

Spec == Init /\ [][Next]_vars

(* A read returns: the bus is not silent for ever (see ReadReturns in      *)
(* Transport), and a connect succeeds or fails.  No fault is owed.         *)
FairSpec == Spec /\ WF_vars(ClientStep)

-----------------------------------------------------------------------------
\* Every line of frames.ndjson has its bytes in raw.ndjson, at any moment.
LogInRaw == client = "capture" => lines * UnitsPerFrame <= raw

\* However a capture ends, raw.ndjson has all that read() returned, unless
\* Ctrl-C struck between the read and its line, or that write failed.
RawIsComplete ==
    client = "capture" /\ pc = "done" /\ struck # "recording" /\ outcome # "unrecorded" =>
        raw = units

\* A capture that came to the end of its source has a line for every whole
\* frame in raw.ndjson, and meta.json counts them.  decode prints nothing before
\* it has decoded every whole frame of the file: a frame it cannot decode leaves
\* no output at all, not a part of it.
EofIsComplete ==
    /\ client = "capture" /\ pc = "done" /\ outcome = "eof" /\ struck = "no" =>
           lines = raw \div UnitsPerFrame /\ meta = lines
    /\ client = "decode" /\ lines > 0 =>
           outcome = "eof" /\ count = units \div UnitsPerFrame

\* --max-frames and --max-messages: the loop stops at the bound, but never
\* before a first frame (a bound of 0 is one of 1).
StopsAtMax ==
    max # NoMax /\ client \in Bounded =>
        LET bound == IF max = 0 THEN 1 ELSE max
        IN  count <= bound /\ (outcome = "max" => count = bound)

\* meta.json counts the lines of frames.ndjson, but for the one whose count a
\* Ctrl-C cut off.
MetaCounts ==
    meta # Nothing => meta = IF struck = "counting" THEN lines - 1 ELSE lines

\* The command ends with the transport closed, unless Ctrl-C struck inside
\* open() or close() itself.
LinkReleased == pc = "done" /\ struck \notin {"opened", "closing"} => ~link

\* TX is handed to write() at most once, and a lab send that was neither
\* interrupted nor failed has handed it over.
TxOnce ==
    /\ sent <= 1
    /\ pc = "done" /\ outcome = "ended" => sent = 1

\* If reads return, the commands that should end by themselves do: a lab send by its
\* windows, decode and whatever reads a file at its end, a capture at its bound; and
\* every one once Ctrl-C or an error has struck.  A watch of a link that prints nothing
\* goes on for ever, as does a capture without a bound.
MustEnd ==
    \/ client \in {"send", "decode"} \/ source = "file"
    \/ client = "capture" /\ max # NoMax
    \/ struck # "no" \/ outcome # "none"

ClientEnds == MustEnd ~> (pc = "done")

=============================================================================
