----------------------------- MODULE Transport -----------------------------
(***************************************************************************)
(* A link to the bus that reconnects (ReconnectingTransport over           *)
(* TcpTransport or SerialTransport).  open(), read() and write() run one   *)
(* at a time, close() between two of them, or while a read is in progress  *)
(* in another thread, as when the capability session closes under a reader *)
(* it could not join.  Nothing is locked, so each access to the shared     *)
(* fields is a step: _disconnect_once() loads _sock, then stores None, and *)
(* a reconnect can store a new socket between the two.                     *)
(*                                                                         *)
(* A socket, or the handle of a serial port, is a member of Sockets; it is *)
(* open while it is in live.  What the peer, the network and the device do *)
(* is chosen at connect, recv and sendall, or at open, read and write.     *)
(***************************************************************************)
EXTENDS Integers, FiniteSets

CONSTANTS
    Sockets,          \* the sockets the process can hold, NoSocket not among them
    NoSocket,
    Backends,         \* the subclasses: TcpTransport, SerialTransport
    Reconnects,       \* the values of reconnect=
    Sharings,         \* whether close() may come while a call is in progress
    Ops,              \* the calls the caller makes besides open()
    Troubles,         \* what the peer does: refuse, close the stream, error
    Overflow,         \* the attempt n for which 2**n * 0.5 raises: 1024
    MaxConnects       \* bound: successful connects

ASSUME TransportAssumption ==
    /\ NoSocket \notin Sockets
    /\ Backends \subseteq {"tcp", "serial"}
    /\ Reconnects \subseteq BOOLEAN /\ Sharings \subseteq BOOLEAN
    /\ Ops \subseteq {"read", "write"}
    /\ Troubles \subseteq {"refuse", "eof", "error"}
    /\ Overflow \in Nat /\ MaxConnects \in Nat

VARIABLES
    backend,     \* the class of the transport
    reconnect,   \* _reconnect
    shared,      \* another thread closes the transport
    wantOpen,    \* _want_open
    connected,   \* _connected
    sock,        \* _sock, _ser
    attempt,     \* _attempt
    reconnects,  \* _reconnect_count; _ever_connected is connects > 0
    connects,    \* how often _connect_once has succeeded
    failures,    \* history: failures in a row, of connects and of the link, up to
                 \* one more than Overflow
    live,        \* the sockets created and not closed
    pc, op,      \* the caller: where it is, and the call it is in
    held,        \* the caller's local: the socket it is using
    second,      \* write() is in its second try
    copies,      \* how many times this write's bytes may have reached the bus
    result,      \* how the last call ended, or will if it cannot reconnect
    cpc, old     \* the thread in close(), and its local

setup  == <<backend, reconnect, shared>>
link   == <<wantOpen, connected, sock, attempt, reconnects, connects, failures, live>>
caller == <<pc, op, held, second, copies, result>>
closer == <<cpc, old>>
vars   == <<setup, link, caller, closer>>

NoOp == "none"
CallPoints == {"loop", "ensure", "dial", "connecting", "dialed", "linked", "redial", "io",
               "load", "transfer", "drop", "unset", "shut", "unflag", "dropped",
               "backoff"}

FlagsOK == {reconnect, shared, wantOpen, connected, second} \subseteq BOOLEAN

TypeOK ==
    /\ FlagsOK /\ backend \in Backends
    /\ sock \in Sockets \union {NoSocket}
    /\ attempt \in 0..Overflow /\ reconnects \in Nat /\ connects \in 0..MaxConnects
    /\ failures \in 0..(Overflow + 1)
    /\ live \subseteq Sockets
    /\ pc \in CallPoints \union {"new", "idle"}
    /\ op \in {NoOp, "open", "read", "write"}
    /\ held \in Sockets \union {NoSocket}
    /\ copies \in Nat
    /\ result \in {"none", "opened", "data", "empty", "sent", "raised"}
    /\ cpc \in {"before", "load", "unset", "close", "unflag", "after"}
    /\ old \in Sockets \union {NoSocket}

Init ==
    /\ backend \in Backends /\ reconnect \in Reconnects /\ shared \in Sharings
    /\ wantOpen = FALSE /\ connected = FALSE /\ sock = NoSocket
    /\ attempt = 0 /\ reconnects = 0 /\ connects = 0 /\ failures = 0 /\ live = {}
    /\ pc = "new" /\ op = NoOp /\ held = NoSocket /\ second = FALSE /\ copies = 0
    /\ result = "none"
    /\ cpc = "before" /\ old = NoSocket

-----------------------------------------------------------------------------
(* The calls begin and end.                                                *)

Goto(p) == pc' = p /\ UNCHANGED <<op, held, second, copies, result>>

Return(r) ==
    /\ pc' = "idle" /\ op' = NoOp /\ held' = NoSocket /\ second' = FALSE /\ result' = r
    /\ UNCHANGED copies

Open ==
    /\ pc = "new" /\ pc' = "ensure" /\ op' = "open"
    /\ wantOpen' = TRUE /\ attempt' = 0
    /\ UNCHANGED <<connected, sock, reconnects, connects, failures, live, held, second,
                   copies, result, closer>>

(* read() and write().  Both raise at once on a transport that is not open. *)
Call(o) ==
    /\ pc = "idle" /\ wantOpen
    /\ pc' = IF o = "read" THEN "loop" ELSE "ensure"
    /\ op' = o /\ copies' = 0
    /\ UNCHANGED <<link, held, second, result, closer>>

-----------------------------------------------------------------------------
(* The loop condition of read(), and _ensure_connected().                  *)

LoopForever ==           \* mutant: the loop of read() does not look at _want_open
    /\ pc = "loop"
    /\ Goto("ensure")
    /\ UNCHANGED <<link, closer>>

Loop ==
    /\ pc = "loop"
    /\ IF wantOpen THEN Goto("ensure") ELSE Return("empty")
    /\ UNCHANGED <<link, closer>>

AfterConnect == IF op = "open" THEN Return("opened") ELSE Goto("io")

Ensure ==
    /\ pc = "ensure"
    /\ IF connected THEN AfterConnect ELSE Goto("dial")
    /\ UNCHANGED <<link, closer>>

Dial ==
    /\ pc = "dial"
    /\ IF wantOpen THEN Goto("connecting") ELSE Return("raised")
    /\ UNCHANGED <<link, closer>>

Connect(s) ==
    /\ pc = "connecting" /\ pc' = "dialed"
    /\ connects < MaxConnects
    /\ s \notin live \union {old}
    /\ held' = s /\ live' = live \union {s} /\ connects' = connects + 1 /\ failures' = 0
    /\ UNCHANGED <<wantOpen, connected, sock, attempt, reconnects, op, second, copies,
                   result, closer>>

OneMoreFailure == failures' = IF failures <= Overflow THEN failures + 1 ELSE failures

(* Without reconnect= the error leaves open() as it is, and is caught by   *)
(* read() and write(), which then drop the link.                           *)
ConnectRefused ==
    /\ "refuse" \in Troubles
    /\ pc = "connecting"
    /\ connected' = FALSE /\ OneMoreFailure
    /\ IF reconnect THEN Goto("redial")
       ELSE IF op = "open" THEN Return("raised")
       ELSE pc' = "drop" /\ result' = "raised" /\ UNCHANGED <<op, held, second, copies>>
    /\ UNCHANGED <<wantOpen, sock, attempt, reconnects, connects, live, closer>>

SetSocket ==
    /\ pc = "dialed"
    /\ sock' = held
    /\ Goto("linked")
    /\ UNCHANGED <<wantOpen, connected, attempt, reconnects, connects, failures, live,
                   closer>>

SetConnectedKeepsCount ==     \* mutant: the tries are not counted from zero again
    /\ pc = "linked"
    /\ connected' = TRUE
    /\ reconnects' = IF connects > 1 THEN reconnects + 1 ELSE reconnects
    /\ AfterConnect
    /\ UNCHANGED <<wantOpen, sock, attempt, connects, failures, live, closer>>

SetConnected ==
    /\ pc = "linked"
    /\ connected' = TRUE /\ attempt' = 0
    /\ reconnects' = IF connects > 1 THEN reconnects + 1 ELSE reconnects
    /\ AfterConnect
    /\ UNCHANGED <<wantOpen, sock, connects, failures, live, closer>>

(* _wait_backoff(), then the loop it is called from.                       *)
Waited == \/ pc = "redial" /\ Goto("dial")
          \/ pc = "backoff" /\ Goto(IF op = "read" THEN "loop" ELSE "ensure")

Backoff ==
    /\ attempt < Overflow
    /\ Waited
    /\ attempt' = attempt + 1
    /\ UNCHANGED <<wantOpen, connected, sock, reconnects, connects, failures, live, closer>>

CountedFirst ==          \* mutant: _attempt is increased before the delay is computed
    /\ pc \in {"redial", "backoff"} /\ attempt >= Overflow
    /\ attempt' = attempt + 1
    /\ Return("raised")
    /\ UNCHANGED <<wantOpen, connected, sock, reconnects, connects, failures, live, closer>>

(* backoff_delay() computes 2**attempt before it takes the minimum: it is   *)
(* too large for a float, and no handler catches the OverflowError.         *)
BackoffOverflows ==
    /\ pc \in {"redial", "backoff"} /\ attempt >= Overflow
    /\ Return("raised")
    /\ UNCHANGED <<link, closer>>

-----------------------------------------------------------------------------
(* _raw_read() and _raw_write(): test _sock, load it again, use it.        *)

(* What an OSError does: a write in its second try raises, any other call  *)
(* drops the link.                                                         *)
Fail(r) == IF second THEN Return("raised")
           ELSE pc' = "drop" /\ result' = r /\ UNCHANGED <<op, held, second, copies>>

TestSocket ==
    /\ pc = "io"
    /\ IF sock = NoSocket THEN Fail("raised") ELSE Goto("load")
    /\ UNCHANGED <<link, closer>>

(* None.recv is an AttributeError, which no handler of the call catches.   *)
LoadSocket ==
    /\ pc = "load"
    /\ IF sock = NoSocket THEN Return("raised")
       ELSE pc' = "transfer" /\ held' = sock /\ UNCHANGED <<op, second, copies, result>>
    /\ UNCHANGED <<link, closer>>

(* The peer may go while the bound leaves a connect to come back with; a   *)
(* socket another thread has closed always fails.                          *)
MayGo(t) == held \notin live \/ (t \in Troubles /\ connects < MaxConnects)

ReadData ==
    /\ pc = "transfer" /\ op = "read" /\ held \in live
    /\ attempt' = 0
    /\ Return("data")
    /\ UNCHANGED <<wantOpen, connected, sock, reconnects, connects, failures, live, closer>>

(* The timeout: recv() raises it, a serial read returns nothing, which it   *)
(* also does when close() ends it from the other thread.                   *)
ReadIdle ==
    /\ pc = "transfer" /\ op = "read" /\ (held \in live \/ backend = "serial")
    /\ Goto("loop")
    /\ UNCHANGED <<link, closer>>

ReadEndsOnNothing ==     \* mutant: a serial read of no bytes is taken for the end
    /\ pc = "transfer" /\ op = "read"
    /\ \/ MayGo("eof") /\ Fail("empty")
       \/ MayGo("error") /\ Fail("raised")
    /\ OneMoreFailure
    /\ UNCHANGED <<wantOpen, connected, sock, attempt, reconnects, connects, live, closer>>

(* Only a stream has an end.                                               *)
ReadEnds ==
    /\ pc = "transfer" /\ op = "read"
    /\ \/ backend = "tcp" /\ MayGo("eof") /\ Fail("empty")
       \/ MayGo("error") /\ Fail("raised")
    /\ OneMoreFailure
    /\ UNCHANGED <<wantOpen, connected, sock, attempt, reconnects, connects, live, closer>>

WriteSent ==
    /\ pc = "transfer" /\ op = "write" /\ held \in live
    /\ pc' = "idle" /\ op' = NoOp /\ held' = NoSocket /\ second' = FALSE
    /\ result' = "sent" /\ copies' = copies + 1
    /\ UNCHANGED <<link, closer>>

WriteErrorIgnored ==     \* mutant: a failed send is taken for a sent one
    /\ pc = "transfer" /\ op = "write" /\ MayGo("error")
    /\ Return("sent")
    /\ OneMoreFailure
    /\ UNCHANGED <<wantOpen, connected, sock, attempt, reconnects, connects, live, closer>>

(* sendall() fails before any byte has left, or after some or all have.    *)
WriteError ==
    /\ pc = "transfer" /\ op = "write" /\ MayGo("error")
    /\ copies' \in {copies, copies + 1}
    /\ IF second
       THEN pc' = "idle" /\ op' = NoOp /\ held' = NoSocket /\ second' = FALSE
       ELSE pc' = "drop" /\ UNCHANGED <<op, held, second>>
    /\ result' = "raised"
    /\ OneMoreFailure
    /\ UNCHANGED <<wantOpen, connected, sock, attempt, reconnects, connects, live, closer>>

-----------------------------------------------------------------------------
(* _disconnect_quiet(), and what the call does then.                       *)

DropLoad ==
    /\ pc = "drop" /\ pc' = "unset"
    /\ held' = sock
    /\ UNCHANGED <<link, op, second, copies, result, closer>>

DropUnset ==
    /\ pc = "unset"
    /\ sock' = NoSocket
    /\ Goto("shut")
    /\ UNCHANGED <<wantOpen, connected, attempt, reconnects, connects, failures, live,
                   closer>>

DropShutLeaks ==         \* mutant: the reference is dropped, the socket left open
    /\ pc = "shut"
    /\ Goto("unflag")
    /\ UNCHANGED <<link, closer>>

DropShut ==
    /\ pc = "shut"
    /\ live' = live \ {held}
    /\ Goto("unflag")
    /\ UNCHANGED <<wantOpen, connected, sock, attempt, reconnects, connects, failures,
                   closer>>

DropKeepsFlag ==         \* mutant: _connected stays set
    /\ pc = "unflag"
    /\ Goto("dropped")
    /\ UNCHANGED <<link, closer>>

DropUnflag ==
    /\ pc = "unflag"
    /\ connected' = FALSE
    /\ Goto("dropped")
    /\ UNCHANGED <<wantOpen, sock, attempt, reconnects, connects, failures, live, closer>>

(* read(): after the end of the stream it backs off if it may reconnect;   *)
(* after an error it first looks whether it was closed.                    *)
ReadDropped ==
    /\ pc = "dropped" /\ op = "read"
    /\ IF result = "raised" /\ ~wantOpen THEN Return("empty")
       ELSE IF reconnect THEN Goto("backoff")
       ELSE Return(result)
    /\ UNCHANGED <<link, closer>>

WriteDropped ==
    /\ pc = "dropped" /\ op = "write"
    /\ IF reconnect /\ wantOpen
       THEN pc' = "backoff" /\ second' = TRUE /\ UNCHANGED <<op, held, copies, result>>
       ELSE Return("raised")
    /\ UNCHANGED <<link, closer>>

-----------------------------------------------------------------------------
(* close().  The thread that opens is the one that closes, so it never     *)
(* interrupts open().                                                      *)

CloseBegin ==
    /\ cpc = "before" /\ pc # "new"
    /\ pc = "idle" \/ (shared /\ op # "open")
    /\ wantOpen' = FALSE /\ cpc' = "load"
    /\ UNCHANGED <<connected, sock, attempt, reconnects, connects, failures, live, caller,
                   old>>

CloseLoad ==
    /\ cpc = "load" /\ cpc' = "unset"
    /\ old' = sock
    /\ UNCHANGED <<link, caller>>

CloseUnset ==
    /\ cpc = "unset" /\ cpc' = "close"
    /\ sock' = NoSocket
    /\ UNCHANGED <<wantOpen, connected, attempt, reconnects, connects, failures, live,
                   caller, old>>

CloseShut ==
    /\ cpc = "close" /\ cpc' = "unflag"
    /\ live' = live \ {old} /\ old' = NoSocket
    /\ UNCHANGED <<wantOpen, connected, sock, attempt, reconnects, connects, failures,
                   caller>>

CloseUnflag ==
    /\ cpc = "unflag" /\ cpc' = "after"
    /\ connected' = FALSE
    /\ UNCHANGED <<wantOpen, sock, attempt, reconnects, connects, failures, live, caller,
                   old>>

-----------------------------------------------------------------------------
(* The steps of the caller within a call.                                  *)
CallStep ==
    \/ Loop \/ Ensure \/ Dial \/ (\E s \in Sockets : Connect(s)) \/ ConnectRefused
    \/ SetSocket \/ SetConnected \/ Backoff \/ BackoffOverflows
    \/ TestSocket \/ LoadSocket \/ ReadData \/ ReadIdle \/ ReadEnds \/ WriteSent
    \/ WriteError \/ DropLoad \/ DropUnset \/ DropShut \/ DropUnflag
    \/ ReadDropped \/ WriteDropped

CloseStep == CloseLoad \/ CloseUnset \/ CloseShut \/ CloseUnflag

Terminated == cpc = "after" /\ pc = "idle" /\ UNCHANGED vars

Next ==
    \/ /\ Open \/ (\E o \in Ops : Call(o)) \/ CallStep \/ CloseBegin \/ CloseStep
       /\ UNCHANGED setup
    \/ Terminated

Spec == Init /\ [][Next]_vars

(* Connects, receives and sleeps are bounded by their timeouts.            *)
FairSpec == Spec /\ WF_vars(CallStep /\ UNCHANGED setup)
                 /\ WF_vars(CloseStep /\ UNCHANGED setup)

-----------------------------------------------------------------------------
\* One socket at most is open at any time, and a reconnect never overwrites one it
\* has not closed: the open socket is in the transport, in the call or in the hands of
\* close().  Only close() in another thread can break that, by storing its None over
\* the socket of a reconnect.
Lost == live \ {sock, held, old}

NoSocketLost ==
    /\ \A s, t \in live : s = t
    /\ Lost # {} => shared /\ cpc \in {"close", "unflag", "after"}

\* Between two calls, as long as no other thread closes the transport, _connected is
\* the truth, on which _ensure_connected skips the connect, and no socket but the
\* stored one is open; after close() there is none and _connected is FALSE.
FlagIsTrue ==
    pc = "idle" /\ (cpc = "before" \/ (cpc = "after" /\ ~shared)) =>
        /\ connected <=> sock # NoSocket
        /\ live \ {sock} = {}
        /\ cpc = "after" => ~connected

\* close() drops the connection: nothing is open once it and the call it
\* interrupted, if any, are over.
ClosedForGood == cpc = "after" /\ pc = "idle" => live = {} /\ ~connected

\* read() returns no bytes, which every loop of a client takes for the end, only
\* once the transport is closed, or when a TCP stream ended and reconnect= is off:
\* neither a silent bus nor a link that comes back ends a watch.
EmptyIsTheEnd ==
    pc = "idle" /\ result = "empty" => ~wantOpen \/ (backend = "tcp" /\ ~reconnect)

\* A write that returns has put its bytes on the bus, and the one retry can
\* make that twice, never more: without reconnect= never more than once.
WriteCopies ==
    /\ result = "sent" /\ pc = "idle" => copies >= 1
    /\ copies <= IF reconnect THEN 2 ELSE 1

\* A call with reconnect= raises on an open transport only in the second try of a
\* write, or when the longest row of failures has made the delay overflow: no
\* trouble, and no row of troubles broken by a connect, ends a read.
GivesUpAtLimit ==
    [][op # NoOp /\ op' = NoOp /\ result' = "raised" /\ reconnect /\ wantOpen /\ ~second
          => failures > Overflow]_vars

\* After close() a call in progress in another thread comes to its end.
CloseEndsCall == (cpc = "after") ~> (pc = "idle")

\* read()'s docstring: "Idle timeouts return no data"; _listen_and_log relies
\* on it: "Transport reads should time out ... so this loop can exit".
ReadReturns == (op = "read") ~> (op # "read")

=============================================================================
