--------------------------- MODULE TransportProofs ---------------------------
(***************************************************************************)
(* Where an open socket can be, how often a payload is written, what an    *)
(* empty read and a raised one mean, for every number of sockets and of    *)
(* connects and every limit of the tries, whatever the peer does, over TCP *)
(* and over a serial port, and with a close() from another thread at any   *)
(* step.  The call such a close() comes into runs down to its end.         *)
(***************************************************************************)
EXTENDS Transport, TLAPS

-----------------------------------------------------------------------------
(* The inductive invariant of the sockets.                                 *)

Unlinked == {"new", "dial", "connecting", "dialed", "redial", "shut", "unflag", "dropped",
             "backoff"}

(* While a call dials, there is no socket to overwrite, and none is open.  *)
SockInv == /\ pc \in Unlinked => sock = NoSocket
           /\ pc = "connecting" => live = {}

(* Until close() stores its None the caller's socket is the stored one, or *)
(* the one close() has loaded, but while it is new or about to be closed.  *)
Unstored == cpc \in {"before", "load", "unset"} \/ ~shared

HeldInv ==
    /\ Unstored /\ held \in live => held \in {sock, old} \/ pc \in {"dialed", "shut"}
    /\ pc = "unset" /\ sock # NoSocket => sock = held

(* A call never dials over a stored socket: the flag is down only when     *)
(* close() is over.                                                        *)
FlagInv ==
    /\ sock # NoSocket /\ pc # "linked" => connected \/ ~wantOpen
    /\ pc = "ensure" /\ sock # NoSocket => connected /\ cpc \in {"before", "load", "unset"}

CloseInv ==
    /\ cpc # "before" => ~wantOpen /\ pc # "new"
    /\ cpc \notin {"unset", "close"} => old = NoSocket
    /\ ~shared /\ cpc # "before" => pc = "idle"
    /\ ~shared /\ cpc = "unset" => old = sock
    /\ cpc \in {"before", "load", "unset", "close", "unflag", "after"}

SocketInv ==
    /\ live \subseteq Sockets /\ NoSocketLost
    /\ SockInv /\ HeldInv /\ FlagInv /\ CloseInv

LEMMA InitSocketInv == Init => SocketInv
BY DEF Init, SocketInv, Lost, NoSocketLost, SockInv, HeldInv, FlagInv, CloseInv

-----------------------------------------------------------------------------
(* One step per action.                                                    *)

LEMMA NextSocketInv == SocketInv /\ [Next]_vars => SocketInv'
<1> SUFFICES ASSUME SocketInv, [Next]_vars PROVE SocketInv'
  OBVIOUS
<1> USE DEF SocketInv, Lost, NoSocketLost, SockInv, HeldInv, Unstored, FlagInv, CloseInv,
           Unlinked
<1>0. shared' = shared
  BY DEF Next, Terminated, vars, setup
<1>1. CASE Open
  BY <1>1, <1>0, TransportAssumption DEF Open, closer
<1>2. ASSUME NEW o \in Ops, Call(o) PROVE SocketInv'
  BY <1>2, <1>0, TransportAssumption DEF Call, link, closer
<1>3. CASE Loop
  BY <1>3, <1>0, TransportAssumption DEF Loop, Goto, Return, closer, link
<1>4. CASE Ensure
  BY <1>4, <1>0, TransportAssumption
  DEF Ensure, AfterConnect, Goto, Return, closer, link
<1>5. CASE Dial
  BY <1>5, <1>0, TransportAssumption DEF Dial, Goto, Return, closer, link
<1>6. ASSUME NEW s \in Sockets, Connect(s) PROVE SocketInv'
  BY <1>6, <1>0, TransportAssumption DEF Connect, closer
<1>7. CASE ConnectRefused
  BY <1>7, <1>0, TransportAssumption DEF ConnectRefused, Goto, Return, closer
<1>8. CASE SetSocket
  BY <1>8, <1>0, TransportAssumption DEF SetSocket, Goto, closer
<1>9. CASE SetConnected
  BY <1>9, <1>0, TransportAssumption
  DEF SetConnected, AfterConnect, Goto, Return, closer
<1>10. CASE Backoff
  BY <1>10, <1>0, TransportAssumption DEF Backoff, Waited, Goto, closer
<1>11. CASE BackoffOverflows
  BY <1>11, <1>0, TransportAssumption DEF BackoffOverflows, Return, closer, link
<1>12. CASE TestSocket
  BY <1>12, <1>0, TransportAssumption DEF TestSocket, Fail, Goto, Return, closer, link
<1>13. CASE LoadSocket
  BY <1>13, <1>0, TransportAssumption DEF LoadSocket, Return, closer, link
<1>14. CASE ReadData
  BY <1>14, <1>0, TransportAssumption DEF ReadData, Return, closer
<1>15. CASE ReadIdle
  BY <1>15, <1>0, TransportAssumption DEF ReadIdle, Goto, closer, link
<1>16. CASE ReadEnds
  BY <1>16, <1>0, TransportAssumption DEF ReadEnds, Fail, Return, closer
<1>17. CASE WriteSent
  BY <1>17, <1>0, TransportAssumption DEF WriteSent, closer, link
<1>18. CASE WriteError
  BY <1>18, <1>0, TransportAssumption DEF WriteError, closer
<1>19. CASE DropLoad
  BY <1>19, <1>0, TransportAssumption DEF DropLoad, closer, link
<1>20. CASE DropUnset
  BY <1>20, <1>0, TransportAssumption DEF DropUnset, Goto, closer
<1>21. CASE DropShut
  BY <1>21, <1>0, TransportAssumption DEF DropShut, Goto, closer
<1>22. CASE DropUnflag
  BY <1>22, <1>0, TransportAssumption DEF DropUnflag, Goto, closer
<1>23. CASE ReadDropped
  BY <1>23, <1>0, TransportAssumption DEF ReadDropped, Return, Goto, closer, link
<1>24. CASE WriteDropped
  BY <1>24, <1>0, TransportAssumption DEF WriteDropped, Return, closer, link
<1>25. CASE CloseBegin
  BY <1>25, <1>0, TransportAssumption DEF CloseBegin, caller
<1>26. CASE CloseLoad
  BY <1>26, <1>0, TransportAssumption DEF CloseLoad, caller, link
<1>27. CASE CloseUnset
  BY <1>27, <1>0, TransportAssumption DEF CloseUnset, caller
<1>28. CASE CloseShut
  BY <1>28, <1>0, TransportAssumption DEF CloseShut, caller
<1>29. CASE CloseUnflag
  BY <1>29, <1>0, TransportAssumption DEF CloseUnflag, caller
<1>30. CASE UNCHANGED vars
  BY <1>30, <1>0, TransportAssumption DEF vars, setup, link, caller, closer
<1> QED
  BY <1>1, <1>2, <1>3, <1>4, <1>5, <1>6, <1>7, <1>8, <1>9, <1>10, <1>11, <1>12,
     <1>13, <1>14, <1>15, <1>16, <1>17, <1>18, <1>19, <1>20, <1>21, <1>22, <1>23,
     <1>24, <1>25, <1>26, <1>27, <1>28, <1>29, <1>30
  DEF Next, CallStep, CloseStep, Terminated

\* The invariant holds in every reachable state, with and without reconnect=.
THEOREM SocketInvariant == Spec => []SocketInv
<1> QED BY InitSocketInv, NextSocketInv, PTL DEF Spec

\* One socket at most is open; it is in the transport, in the call or in the hands of
\* close(), but when close() in another thread has stored its None over it.
THEOREM SocketsKept == Spec => []NoSocketLost
<1>1. SocketInv => NoSocketLost
  BY DEF SocketInv
<1> QED BY <1>1, SocketInvariant, PTL

-----------------------------------------------------------------------------
(* How often a payload reaches the bus.                                    *)

Dropping == {"drop", "unset", "shut", "unflag", "dropped"}

(* What has left before this try: nothing before the first, at most once   *)
(* before the second, and a second try is write()'s alone, with reconnect=. *)
WriteInv ==
    /\ copies \in Nat
    /\ second => reconnect /\ op = "write" /\ pc \notin {"new", "idle"}
    /\ op # "write" /\ pc # "idle" => copies = 0
    /\ pc \in Dropping => ~second /\ result # "sent" /\ copies <= 1
    /\ pc # "idle" /\ pc \notin Dropping => copies <= IF second THEN 1 ELSE 0
    /\ WriteCopies

LEMMA InitWriteInv == Init => WriteInv
BY DEF Init, WriteInv, WriteCopies, Dropping

LEMMA NextWriteInv == WriteInv /\ [Next]_vars => WriteInv'
<1> SUFFICES ASSUME WriteInv, [Next]_vars PROVE WriteInv'
  OBVIOUS
<1> USE DEF WriteInv, WriteCopies, Dropping, NoOp
<1>0. reconnect' = reconnect
  BY DEF Next, Terminated, vars, setup
<1>1. CASE Open
  BY <1>1, <1>0 DEF Open, closer
<1>2. ASSUME NEW o \in Ops, Call(o) PROVE WriteInv'
  BY <1>2, <1>0 DEF Call, link, closer
<1>3. CASE Loop
  BY <1>3, <1>0 DEF Loop, Goto, Return, closer, link
<1>4. CASE Ensure
  BY <1>4, <1>0 DEF Ensure, AfterConnect, Goto, Return, closer, link
<1>5. CASE Dial
  BY <1>5, <1>0 DEF Dial, Goto, Return, closer, link
<1>6. ASSUME NEW s \in Sockets, Connect(s) PROVE WriteInv'
  BY <1>6, <1>0 DEF Connect, closer
<1>7. CASE ConnectRefused
  BY <1>7, <1>0 DEF ConnectRefused, Goto, Return, closer
<1>8. CASE SetSocket
  BY <1>8, <1>0 DEF SetSocket, Goto, closer
<1>9. CASE SetConnected
  BY <1>9, <1>0 DEF SetConnected, AfterConnect, Goto, Return, closer
<1>10. CASE Backoff
  BY <1>10, <1>0 DEF Backoff, Waited, Goto, closer
<1>11. CASE BackoffOverflows
  BY <1>11, <1>0 DEF BackoffOverflows, Return, closer, link
<1>12. CASE TestSocket
  BY <1>12, <1>0 DEF TestSocket, Fail, Goto, Return, closer, link
<1>13. CASE LoadSocket
  BY <1>13, <1>0 DEF LoadSocket, Return, closer, link
<1>14. CASE ReadData
  BY <1>14, <1>0 DEF ReadData, Return, closer
<1>15. CASE ReadIdle
  BY <1>15, <1>0 DEF ReadIdle, Goto, closer, link
<1>16. CASE ReadEnds
  BY <1>16, <1>0 DEF ReadEnds, Fail, Return, closer
<1>17. CASE WriteSent
  BY <1>17, <1>0 DEF WriteSent, closer, link
<1>18. CASE WriteError
  BY <1>18, <1>0 DEF WriteError, closer
<1>19. CASE DropLoad
  BY <1>19, <1>0 DEF DropLoad, closer, link
<1>20. CASE DropUnset
  BY <1>20, <1>0 DEF DropUnset, Goto, closer
<1>21. CASE DropShut
  BY <1>21, <1>0 DEF DropShut, Goto, closer
<1>22. CASE DropUnflag
  BY <1>22, <1>0 DEF DropUnflag, Goto, closer
<1>23. CASE ReadDropped
  BY <1>23, <1>0 DEF ReadDropped, Return, Goto, closer, link
<1>24. CASE WriteDropped
  BY <1>24, <1>0 DEF WriteDropped, Return, closer, link
<1>25. CASE CloseBegin
  BY <1>25, <1>0 DEF CloseBegin, caller
<1>26. CASE CloseLoad
  BY <1>26, <1>0 DEF CloseLoad, caller, link
<1>27. CASE CloseUnset
  BY <1>27, <1>0 DEF CloseUnset, caller
<1>28. CASE CloseShut
  BY <1>28, <1>0 DEF CloseShut, caller
<1>29. CASE CloseUnflag
  BY <1>29, <1>0 DEF CloseUnflag, caller
<1>30. CASE UNCHANGED vars
  BY <1>30, <1>0 DEF vars, setup, link, caller, closer
<1> QED
  BY <1>1, <1>2, <1>3, <1>4, <1>5, <1>6, <1>7, <1>8, <1>9, <1>10, <1>11, <1>12,
     <1>13, <1>14, <1>15, <1>16, <1>17, <1>18, <1>19, <1>20, <1>21, <1>22, <1>23,
     <1>24, <1>25, <1>26, <1>27, <1>28, <1>29, <1>30
  DEF Next, CallStep, CloseStep, Terminated

\* A payload is on the bus at least once if write() returns, at most twice, and at
\* most once without reconnect=.
THEOREM Copies == Spec => []WriteCopies
<1>1. WriteInv => WriteCopies
  BY DEF WriteInv
<1> QED BY <1>1, InitWriteInv, NextWriteInv, PTL DEF Spec

-----------------------------------------------------------------------------
(* Type correctness, and what the calls and close() leave behind.          *)

LEMMA InitTypeOK == Init => TypeOK
<1>1. Init => FlagsOK
  BY TransportAssumption, Zenon DEF Init, FlagsOK
<1>2. Init => TypeOK
  BY <1>1, TransportAssumption DEF Init, TypeOK, CallPoints, NoOp
<1> QED BY <1>2

LEMMA NextFlagsOK == FlagsOK /\ [Next]_vars => FlagsOK'
<1> SUFFICES ASSUME FlagsOK, [Next]_vars PROVE FlagsOK'
  OBVIOUS
<1> USE DEF FlagsOK, NoOp
<1>0. UNCHANGED setup
  BY DEF Next, Terminated, vars
<1>1. CASE Open
  BY <1>1, <1>0, Zenon DEF setup, Open, closer
<1>2. ASSUME NEW o \in Ops, Call(o) PROVE FlagsOK'
  BY <1>2, <1>0, Zenon DEF setup, Call, link, closer
<1>3. CASE Loop
  BY <1>3, <1>0, Zenon DEF setup, Loop, Goto, Return, closer, link
<1>4. CASE Ensure
  BY <1>4, <1>0, Zenon DEF setup, Ensure, AfterConnect, Goto, Return, closer, link
<1>5. CASE Dial
  BY <1>5, <1>0, Zenon DEF setup, Dial, Goto, Return, closer, link
<1>6. ASSUME NEW s \in Sockets, Connect(s) PROVE FlagsOK'
  BY <1>6, <1>0, Zenon DEF setup, Connect, closer
<1>7. CASE ConnectRefused
  BY <1>7, <1>0, Zenon DEF setup, ConnectRefused, Goto, Return, closer
<1>8. CASE SetSocket
  BY <1>8, <1>0, Zenon DEF setup, SetSocket, Goto, closer
<1>9. CASE SetConnected
  BY <1>9, <1>0, Zenon DEF setup, SetConnected, AfterConnect, Goto, Return, closer
<1>10. CASE Backoff
  BY <1>10, <1>0, Zenon DEF setup, Backoff, Waited, Goto, closer
<1>11. CASE BackoffOverflows
  BY <1>11, <1>0, Zenon DEF setup, BackoffOverflows, Return, closer, link
<1>12. CASE TestSocket
  BY <1>12, <1>0, Zenon DEF setup, TestSocket, Fail, Goto, Return, closer, link
<1>13. CASE LoadSocket
  BY <1>13, <1>0, Zenon DEF setup, LoadSocket, Return, closer, link
<1>14. CASE ReadData
  BY <1>14, <1>0, Zenon DEF setup, ReadData, Return, closer
<1>15. CASE ReadIdle
  BY <1>15, <1>0, Zenon DEF setup, ReadIdle, Goto, closer, link
<1>16. CASE ReadEnds
  BY <1>16, <1>0, Zenon DEF setup, ReadEnds, Fail, Return, closer
<1>17. CASE WriteSent
  BY <1>17, <1>0, Zenon DEF setup, WriteSent, closer, link
<1>18. CASE WriteError
  BY <1>18, <1>0, Zenon DEF setup, WriteError, closer
<1>19. CASE DropLoad
  BY <1>19, <1>0, Zenon DEF setup, DropLoad, closer, link
<1>20. CASE DropUnset
  BY <1>20, <1>0, Zenon DEF setup, DropUnset, Goto, closer
<1>21. CASE DropShut
  BY <1>21, <1>0, Zenon DEF setup, DropShut, Goto, closer
<1>22. CASE DropUnflag
  BY <1>22, <1>0, Zenon DEF setup, DropUnflag, Goto, closer
<1>23. CASE ReadDropped
  BY <1>23, <1>0, Zenon DEF setup, ReadDropped, Return, Goto, closer, link
<1>24. CASE WriteDropped
  BY <1>24, <1>0, Zenon DEF setup, WriteDropped, Return, closer, link
<1>25. CASE CloseBegin
  BY <1>25, <1>0, Zenon DEF setup, CloseBegin, caller
<1>26. CASE CloseLoad
  BY <1>26, <1>0, Zenon DEF setup, CloseLoad, caller, link
<1>27. CASE CloseUnset
  BY <1>27, <1>0, Zenon DEF setup, CloseUnset, caller
<1>28. CASE CloseShut
  BY <1>28, <1>0, Zenon DEF setup, CloseShut, caller
<1>29. CASE CloseUnflag
  BY <1>29, <1>0, Zenon DEF setup, CloseUnflag, caller
<1>30. CASE UNCHANGED vars
  BY <1>30, <1>0, Zenon DEF setup, vars, setup, link, caller, closer
<1> QED
  BY <1>1, <1>2, <1>3, <1>4, <1>5, <1>6, <1>7, <1>8, <1>9, <1>10, <1>11, <1>12,
     <1>13, <1>14, <1>15, <1>16, <1>17, <1>18, <1>19, <1>20, <1>21, <1>22, <1>23,
     <1>24, <1>25, <1>26, <1>27, <1>28, <1>29, <1>30
  DEF Next, CallStep, CloseStep, Terminated

LEMMA NextTypeOK == TypeOK /\ [Next]_vars => TypeOK'
<1> SUFFICES ASSUME TypeOK, [Next]_vars PROVE TypeOK'
  OBVIOUS
<1> USE DEF TypeOK, CallPoints, NoOp
<1>0. UNCHANGED setup /\ FlagsOK'
  BY NextFlagsOK DEF Next, Terminated, vars
<1>1. CASE Open
  BY <1>1, <1>0, TransportAssumption DEF setup, Open, closer
<1>2. ASSUME NEW o \in Ops, Call(o) PROVE TypeOK'
  BY <1>2, <1>0, TransportAssumption DEF setup, Call, link, closer
<1>3. CASE Loop
  BY <1>3, <1>0 DEF setup, Loop, Goto, Return, closer, link
<1>4. CASE Ensure
  BY <1>4, <1>0 DEF setup, Ensure, AfterConnect, Goto, Return, closer, link
<1>5. CASE Dial
  BY <1>5, <1>0 DEF setup, Dial, Goto, Return, closer, link
<1>6. ASSUME NEW s \in Sockets, Connect(s) PROVE TypeOK'
  BY <1>6, <1>0, TransportAssumption DEF setup, Connect, closer
<1>7. CASE ConnectRefused
  BY <1>7, <1>0, TransportAssumption
  DEF setup, OneMoreFailure, ConnectRefused, Goto, Return, closer
<1>8. CASE SetSocket
  BY <1>8, <1>0 DEF setup, SetSocket, Goto, closer
<1>9. CASE SetConnected
  BY <1>9, <1>0, TransportAssumption
  DEF setup, SetConnected, AfterConnect, Goto, Return, closer
<1>10. CASE Backoff
  BY <1>10, <1>0, TransportAssumption DEF setup, Backoff, Waited, Goto, closer
<1>11. CASE BackoffOverflows
  BY <1>11, <1>0 DEF setup, BackoffOverflows, Return, closer, link
<1>12. CASE TestSocket
  BY <1>12, <1>0 DEF setup, TestSocket, Fail, Goto, Return, closer, link
<1>13. CASE LoadSocket
  BY <1>13, <1>0 DEF setup, LoadSocket, Return, closer, link
<1>14. CASE ReadData
  BY <1>14, <1>0, TransportAssumption DEF setup, ReadData, Return, closer
<1>15. CASE ReadIdle
  BY <1>15, <1>0 DEF setup, ReadIdle, Goto, closer, link
<1>16. CASE ReadEnds
  BY <1>16, <1>0, TransportAssumption
  DEF setup, OneMoreFailure, ReadEnds, Fail, Return, closer
<1>17. CASE WriteSent
  BY <1>17, <1>0 DEF setup, WriteSent, closer, link
<1>18. CASE WriteError
  BY <1>18, <1>0, TransportAssumption
  DEF setup, OneMoreFailure, WriteError, closer
<1>19. CASE DropLoad
  BY <1>19, <1>0 DEF setup, DropLoad, closer, link
<1>20. CASE DropUnset
  BY <1>20, <1>0 DEF setup, DropUnset, Goto, closer
<1>21. CASE DropShut
  BY <1>21, <1>0 DEF setup, DropShut, Goto, closer
<1>22. CASE DropUnflag
  BY <1>22, <1>0 DEF setup, DropUnflag, Goto, closer
<1>23. CASE ReadDropped
  BY <1>23, <1>0 DEF setup, ReadDropped, Return, Goto, closer, link
<1>24. CASE WriteDropped
  BY <1>24, <1>0 DEF setup, WriteDropped, Return, closer, link
<1>25. CASE CloseBegin
  BY <1>25, <1>0 DEF setup, CloseBegin, caller
<1>26. CASE CloseLoad
  BY <1>26, <1>0 DEF setup, CloseLoad, caller, link
<1>27. CASE CloseUnset
  BY <1>27, <1>0 DEF setup, CloseUnset, caller
<1>28. CASE CloseShut
  BY <1>28, <1>0 DEF setup, CloseShut, caller
<1>29. CASE CloseUnflag
  BY <1>29, <1>0 DEF setup, CloseUnflag, caller
<1>30. CASE UNCHANGED vars
  BY <1>30, <1>0 DEF setup, vars, setup, link, caller, closer
<1> QED
  BY <1>1, <1>2, <1>3, <1>4, <1>5, <1>6, <1>7, <1>8, <1>9, <1>10, <1>11, <1>12,
     <1>13, <1>14, <1>15, <1>16, <1>17, <1>18, <1>19, <1>20, <1>21, <1>22, <1>23,
     <1>24, <1>25, <1>26, <1>27, <1>28, <1>29, <1>30
  DEF Next, CallStep, CloseStep, Terminated

\* The variables keep their types: _attempt is never counted beyond the try whose delay
\* cannot be computed, and a call is always at one of its steps.
THEOREM TypeCorrect == Spec => []TypeOK
<1> QED BY InitTypeOK, NextTypeOK, PTL DEF Spec

(* Until close() begins the flag and the socket say the same, but between  *)
(* the two assignments that set them and the two that clear them.          *)
TrueFlagInv ==
    /\ pc = "dialed" => held \in Sockets
    /\ cpc = "before" /\ pc = "linked" => sock # NoSocket
    /\ cpc = "before" /\ pc \notin {"linked", "shut", "unflag"} =>
           (connected <=> sock # NoSocket)
    /\ cpc = "before" /\ pc \in {"io", "load"} => sock # NoSocket

(* Without another thread close() runs between two calls, and none follows. *)
ClosedInv ==
    ~shared =>
        /\ cpc \in {"close", "unflag", "after"} => sock = NoSocket
        /\ cpc \in {"unflag", "after"} => live = {}
        /\ cpc = "after" => ~connected

(* A dropped read that found the end found it on a stream.                 *)
EndInv ==
    /\ pc \in Dropping /\ result = "empty" => backend = "tcp"
    /\ EmptyIsTheEnd

LinkInv == TrueFlagInv /\ ClosedInv /\ EndInv

LEMMA InitLinkInv == Init => LinkInv
BY DEF Init, LinkInv, TrueFlagInv, ClosedInv, EndInv, EmptyIsTheEnd, Dropping

LEMMA NextLinkInv == SocketInv /\ LinkInv /\ [Next]_vars => LinkInv'
<1> SUFFICES ASSUME SocketInv, LinkInv, [Next]_vars PROVE LinkInv'
  OBVIOUS
<1> USE DEF LinkInv, TrueFlagInv, ClosedInv, EndInv, EmptyIsTheEnd, Dropping,
           SocketInv, Lost, NoSocketLost, SockInv, HeldInv, Unstored, FlagInv, CloseInv,
           Unlinked
<1>0. backend' = backend /\ reconnect' = reconnect /\ shared' = shared
  BY DEF Next, Terminated, vars, setup
<1>1. CASE Open
  BY <1>1, <1>0, TransportAssumption DEF Open, closer
<1>2. ASSUME NEW o \in Ops, Call(o) PROVE LinkInv'
  BY <1>2, <1>0, TransportAssumption DEF Call, link, closer
<1>3. CASE Loop
  BY <1>3, <1>0, TransportAssumption DEF Loop, Goto, Return, closer, link
<1>4. CASE Ensure
  BY <1>4, <1>0, TransportAssumption
  DEF Ensure, AfterConnect, Goto, Return, closer, link
<1>5. CASE Dial
  BY <1>5, <1>0, TransportAssumption DEF Dial, Goto, Return, closer, link
<1>6. ASSUME NEW s \in Sockets, Connect(s) PROVE LinkInv'
  BY <1>6, <1>0, TransportAssumption DEF Connect, closer
<1>7. CASE ConnectRefused
  BY <1>7, <1>0, TransportAssumption DEF ConnectRefused, Goto, Return, closer
<1>8. CASE SetSocket
  BY <1>8, <1>0, TransportAssumption DEF SetSocket, Goto, closer
<1>9. CASE SetConnected
  BY <1>9, <1>0, TransportAssumption
  DEF SetConnected, AfterConnect, Goto, Return, closer
<1>10. CASE Backoff
  BY <1>10, <1>0, TransportAssumption DEF Backoff, Waited, Goto, closer
<1>11. CASE BackoffOverflows
  BY <1>11, <1>0, TransportAssumption DEF BackoffOverflows, Return, closer, link
<1>12. CASE TestSocket
  BY <1>12, <1>0, TransportAssumption DEF TestSocket, Fail, Goto, Return, closer, link
<1>13. CASE LoadSocket
  BY <1>13, <1>0, TransportAssumption DEF LoadSocket, Return, closer, link
<1>14. CASE ReadData
  BY <1>14, <1>0, TransportAssumption DEF ReadData, Return, closer
<1>15. CASE ReadIdle
  BY <1>15, <1>0, TransportAssumption DEF ReadIdle, Goto, closer, link
<1>16. CASE ReadEnds
  BY <1>16, <1>0, TransportAssumption DEF ReadEnds, Fail, Return, closer
<1>17. CASE WriteSent
  BY <1>17, <1>0, TransportAssumption DEF WriteSent, closer, link
<1>18. CASE WriteError
  BY <1>18, <1>0, TransportAssumption DEF WriteError, closer
<1>19. CASE DropLoad
  BY <1>19, <1>0, TransportAssumption DEF DropLoad, closer, link
<1>20. CASE DropUnset
  BY <1>20, <1>0, TransportAssumption DEF DropUnset, Goto, closer
<1>21. CASE DropShut
  BY <1>21, <1>0, TransportAssumption DEF DropShut, Goto, closer
<1>22. CASE DropUnflag
  BY <1>22, <1>0, TransportAssumption DEF DropUnflag, Goto, closer
<1>23. CASE ReadDropped
  BY <1>23, <1>0, TransportAssumption DEF ReadDropped, Return, Goto, closer, link
<1>24. CASE WriteDropped
  BY <1>24, <1>0, TransportAssumption DEF WriteDropped, Return, closer, link
<1>25. CASE CloseBegin
  BY <1>25, <1>0, TransportAssumption DEF CloseBegin, caller
<1>26. CASE CloseLoad
  BY <1>26, <1>0, TransportAssumption DEF CloseLoad, caller, link
<1>27. CASE CloseUnset
  BY <1>27, <1>0, TransportAssumption DEF CloseUnset, caller
<1>28. CASE CloseShut
  BY <1>28, <1>0, TransportAssumption DEF CloseShut, caller
<1>29. CASE CloseUnflag
  BY <1>29, <1>0, TransportAssumption DEF CloseUnflag, caller
<1>30. CASE UNCHANGED vars
  BY <1>30, <1>0, TransportAssumption DEF vars, setup, link, caller, closer
<1> QED
  BY <1>1, <1>2, <1>3, <1>4, <1>5, <1>6, <1>7, <1>8, <1>9, <1>10, <1>11, <1>12,
     <1>13, <1>14, <1>15, <1>16, <1>17, <1>18, <1>19, <1>20, <1>21, <1>22, <1>23,
     <1>24, <1>25, <1>26, <1>27, <1>28, <1>29, <1>30
  DEF Next, CallStep, CloseStep, Terminated

LEMMA LinkInvariant == Spec => []LinkInv
<1> QED BY InitLinkInv, NextLinkInv, SocketInvariant, PTL DEF Spec

\* Between two calls of a transport that no other thread closes, _connected says whether
\* there is a socket and no other one is open; after close() none is.
THEOREM FlagTrue == Spec => []FlagIsTrue
<1>1. SocketInv /\ LinkInv => FlagIsTrue
  BY TransportAssumption
  DEF SocketInv, Lost, NoSocketLost, HeldInv, Unstored, CloseInv, LinkInv, TrueFlagInv,
      ClosedInv, FlagIsTrue
<1> QED BY <1>1, SocketInvariant, LinkInvariant, PTL

\* An empty read means that the transport is closed, or that a TCP stream without
\* reconnect= has ended, whatever the bus and close() in another thread do.
THEOREM EmptyReads == Spec => []EmptyIsTheEnd
<1>1. LinkInv => EmptyIsTheEnd
  BY DEF LinkInv, EndInv
<1> QED BY <1>1, LinkInvariant, PTL

-----------------------------------------------------------------------------
(* How many tries a call makes.                                            *)

(* _attempt counts the failures since the last connect, and the one in     *)
(* progress is not counted before its delay is over.                       *)
CountInv ==
    wantOpen =>
        /\ pc \notin {"dialed", "linked"} => attempt <= failures
        /\ pc \in Dropping \union {"redial", "backoff"} => attempt < failures

LEMMA InitCountInv == Init => CountInv
BY DEF Init, CountInv, Dropping

LEMMA NextCountInv == TypeOK /\ SocketInv /\ LinkInv /\ CountInv /\ [Next]_vars => CountInv'
<1> SUFFICES ASSUME TypeOK, SocketInv, LinkInv, CountInv, [Next]_vars PROVE CountInv'
  OBVIOUS
<1> USE DEF CountInv, Dropping
<1>0. /\ wantOpen => cpc = "before"
      /\ wantOpen /\ pc \in {"io", "load"} => sock # NoSocket
      /\ attempt \in Nat /\ failures \in Nat /\ Overflow \in Nat
      /\ attempt <= Overflow /\ failures <= Overflow + 1
  BY TransportAssumption DEF TypeOK, SocketInv, CloseInv, LinkInv, TrueFlagInv
<1>1. CASE Open
  BY <1>1, <1>0 DEF Open, closer
<1>2. ASSUME NEW o \in Ops, Call(o) PROVE CountInv'
  BY <1>2, <1>0, TransportAssumption DEF Call, link, closer
<1>3. CASE Loop
  BY <1>3, <1>0 DEF Loop, Goto, Return, closer, link
<1>4. CASE Ensure
  BY <1>4, <1>0 DEF Ensure, AfterConnect, Goto, Return, closer, link
<1>5. CASE Dial
  BY <1>5, <1>0 DEF Dial, Goto, Return, closer, link
<1>6. ASSUME NEW s \in Sockets, Connect(s) PROVE CountInv'
  BY <1>6, <1>0 DEF Connect, closer
<1>7. CASE ConnectRefused
  BY <1>7, <1>0 DEF OneMoreFailure, ConnectRefused, Goto, Return, closer
<1>8. CASE SetSocket
  BY <1>8, <1>0 DEF SetSocket, Goto, closer
<1>9. CASE SetConnected
  BY <1>9, <1>0 DEF SetConnected, AfterConnect, Goto, Return, closer
<1>10. CASE Backoff
  BY <1>10, <1>0 DEF Backoff, Waited, Goto, closer
<1>11. CASE BackoffOverflows
  BY <1>11, <1>0 DEF BackoffOverflows, Return, closer, link
<1>12. CASE TestSocket
  BY <1>12, <1>0 DEF TestSocket, Fail, Goto, Return, closer, link
<1>13. CASE LoadSocket
  BY <1>13, <1>0 DEF LoadSocket, Return, closer, link
<1>14. CASE ReadData
  BY <1>14, <1>0 DEF ReadData, Return, closer
<1>15. CASE ReadIdle
  BY <1>15, <1>0 DEF ReadIdle, Goto, closer, link
<1>16. CASE ReadEnds
  BY <1>16, <1>0 DEF OneMoreFailure, ReadEnds, Fail, Return, closer
<1>17. CASE WriteSent
  BY <1>17, <1>0 DEF WriteSent, closer, link
<1>18. CASE WriteError
  BY <1>18, <1>0 DEF OneMoreFailure, WriteError, closer
<1>19. CASE DropLoad
  BY <1>19, <1>0 DEF DropLoad, closer, link
<1>20. CASE DropUnset
  BY <1>20, <1>0 DEF DropUnset, Goto, closer
<1>21. CASE DropShut
  BY <1>21, <1>0 DEF DropShut, Goto, closer
<1>22. CASE DropUnflag
  BY <1>22, <1>0 DEF DropUnflag, Goto, closer
<1>23. CASE ReadDropped
  BY <1>23, <1>0 DEF ReadDropped, Return, Goto, closer, link
<1>24. CASE WriteDropped
  BY <1>24, <1>0 DEF WriteDropped, Return, closer, link
<1>25. CASE CloseBegin
  BY <1>25, <1>0 DEF CloseBegin, caller
<1>26. CASE CloseLoad
  BY <1>26, <1>0 DEF CloseLoad, caller, link
<1>27. CASE CloseUnset
  BY <1>27, <1>0 DEF CloseUnset, caller
<1>28. CASE CloseShut
  BY <1>28, <1>0 DEF CloseShut, caller
<1>29. CASE CloseUnflag
  BY <1>29, <1>0 DEF CloseUnflag, caller
<1>30. CASE UNCHANGED vars
  BY <1>30, <1>0 DEF vars, setup, link, caller, closer
<1> QED
  BY <1>1, <1>2, <1>3, <1>4, <1>5, <1>6, <1>7, <1>8, <1>9, <1>10, <1>11, <1>12,
     <1>13, <1>14, <1>15, <1>16, <1>17, <1>18, <1>19, <1>20, <1>21, <1>22, <1>23,
     <1>24, <1>25, <1>26, <1>27, <1>28, <1>29, <1>30
  DEF Next, CallStep, CloseStep, Terminated

(* The step that ends a call by an exception.                              *)
GivesUp ==
    op # NoOp /\ op' = NoOp /\ result' = "raised" /\ reconnect /\ wantOpen /\ ~second
        => failures > Overflow

LEMMA StepGivesUp == TypeOK /\ SocketInv /\ LinkInv /\ CountInv /\ [Next]_vars => GivesUp
<1> SUFFICES ASSUME TypeOK, SocketInv, LinkInv, CountInv, [Next]_vars PROVE GivesUp
  OBVIOUS
<1> USE DEF GivesUp, CountInv, Dropping, NoOp
<1>0. /\ wantOpen => cpc = "before"
      /\ wantOpen /\ pc \in {"io", "load"} => sock # NoSocket
      /\ attempt \in Nat /\ failures \in Nat /\ Overflow \in Nat
      /\ attempt <= Overflow /\ failures <= Overflow + 1
  BY TransportAssumption DEF TypeOK, SocketInv, CloseInv, LinkInv, TrueFlagInv
<1>1. CASE Open
  BY <1>1, <1>0 DEF Open, closer
<1>2. ASSUME NEW o \in Ops, Call(o) PROVE GivesUp
  BY <1>2, <1>0, TransportAssumption DEF Call, link, closer
<1>3. CASE Loop
  BY <1>3, <1>0 DEF Loop, Goto, Return, closer, link
<1>4. CASE Ensure
  BY <1>4, <1>0 DEF Ensure, AfterConnect, Goto, Return, closer, link
<1>5. CASE Dial
  BY <1>5, <1>0 DEF Dial, Goto, Return, closer, link
<1>6. ASSUME NEW s \in Sockets, Connect(s) PROVE GivesUp
  BY <1>6, <1>0 DEF Connect, closer
<1>7. CASE ConnectRefused
  BY <1>7, <1>0 DEF OneMoreFailure, ConnectRefused, Goto, Return, closer
<1>8. CASE SetSocket
  BY <1>8, <1>0 DEF SetSocket, Goto, closer
<1>9. CASE SetConnected
  BY <1>9, <1>0 DEF SetConnected, AfterConnect, Goto, Return, closer
<1>10. CASE Backoff
  BY <1>10, <1>0 DEF Backoff, Waited, Goto, closer
<1>11. CASE BackoffOverflows
  BY <1>11, <1>0 DEF BackoffOverflows, Return, closer, link
<1>12. CASE TestSocket
  BY <1>12, <1>0 DEF TestSocket, Fail, Goto, Return, closer, link
<1>13. CASE LoadSocket
  BY <1>13, <1>0 DEF LoadSocket, Return, closer, link
<1>14. CASE ReadData
  BY <1>14, <1>0 DEF ReadData, Return, closer
<1>15. CASE ReadIdle
  BY <1>15, <1>0 DEF ReadIdle, Goto, closer, link
<1>16. CASE ReadEnds
  BY <1>16, <1>0 DEF OneMoreFailure, ReadEnds, Fail, Return, closer
<1>17. CASE WriteSent
  BY <1>17, <1>0 DEF WriteSent, closer, link
<1>18. CASE WriteError
  BY <1>18, <1>0 DEF OneMoreFailure, WriteError, closer
<1>19. CASE DropLoad
  BY <1>19, <1>0 DEF DropLoad, closer, link
<1>20. CASE DropUnset
  BY <1>20, <1>0 DEF DropUnset, Goto, closer
<1>21. CASE DropShut
  BY <1>21, <1>0 DEF DropShut, Goto, closer
<1>22. CASE DropUnflag
  BY <1>22, <1>0 DEF DropUnflag, Goto, closer
<1>23. CASE ReadDropped
  BY <1>23, <1>0 DEF ReadDropped, Return, Goto, closer, link
<1>24. CASE WriteDropped
  BY <1>24, <1>0 DEF WriteDropped, Return, closer, link
<1>25. CASE CloseBegin
  BY <1>25, <1>0 DEF CloseBegin, caller
<1>26. CASE CloseLoad
  BY <1>26, <1>0 DEF CloseLoad, caller, link
<1>27. CASE CloseUnset
  BY <1>27, <1>0 DEF CloseUnset, caller
<1>28. CASE CloseShut
  BY <1>28, <1>0 DEF CloseShut, caller
<1>29. CASE CloseUnflag
  BY <1>29, <1>0 DEF CloseUnflag, caller
<1>30. CASE UNCHANGED vars
  BY <1>30, <1>0 DEF vars, setup, link, caller, closer
<1> QED
  BY <1>1, <1>2, <1>3, <1>4, <1>5, <1>6, <1>7, <1>8, <1>9, <1>10, <1>11, <1>12,
     <1>13, <1>14, <1>15, <1>16, <1>17, <1>18, <1>19, <1>20, <1>21, <1>22, <1>23,
     <1>24, <1>25, <1>26, <1>27, <1>28, <1>29, <1>30
  DEF Next, CallStep, CloseStep, Terminated

\* With reconnect= neither a failing peer nor any row of failures that a connect breaks
\* makes a first try raise on an open transport: only the try whose delay overflows.
THEOREM CallsGiveUp == Spec => GivesUpAtLimit
<1>1. Spec => []CountInv
  BY InitCountInv, NextCountInv, TypeCorrect, SocketInvariant, LinkInvariant, PTL DEF Spec
<1>2. TypeOK /\ SocketInv /\ LinkInv /\ CountInv /\ [Next]_vars
          => [op # NoOp /\ op' = NoOp /\ result' = "raised" /\ reconnect /\ wantOpen
                  /\ ~second => failures > Overflow]_vars
  BY StepGivesUp DEF GivesUp
<1> QED
  BY <1>1, <1>2, TypeCorrect, SocketInvariant, LinkInvariant, PTL DEF Spec, GivesUpAtLimit

-----------------------------------------------------------------------------
(* A call that close() comes into.                                         *)

(* How far a call is from its end once _want_open is cleared.  A read that *)
(* comes round to its loop condition ends there; a write goes through      *)
(* _ensure_connected() once more, for its second try.                      *)
StepsLeft ==
    CASE pc = "idle" -> 0
      [] pc = "loop" -> 1
      [] pc = "dial" -> 2
      [] pc = "redial" -> 3
      [] pc = "backoff" -> IF op = "read" THEN 4 ELSE 17
      [] pc = "dropped" -> 5
      [] pc = "unflag" -> 6
      [] pc = "shut" -> 7
      [] pc = "unset" -> 8
      [] pc = "drop" -> 9
      [] pc = "transfer" -> 10
      [] pc = "load" -> 11
      [] pc = "io" -> 12
      [] pc = "linked" -> 13
      [] pc = "dialed" -> 14
      [] pc = "connecting" -> 15
      [] pc = "ensure" -> 16
      [] OTHER -> 18

(* close() finds a read, a write or no call in progress.                   *)
CallInv ==
    /\ op \in {NoOp, "open", "read", "write"}
    /\ pc \in {"new", "idle"} <=> op = NoOp
    /\ cpc # "before" => op # "open" /\ ~wantOpen /\ pc # "new"

LEMMA InitCallInv == Init => CallInv
BY DEF Init, CallInv, NoOp

LEMMA NextCallInv == CallInv /\ [Next]_vars => CallInv'
<1> SUFFICES ASSUME CallInv, [Next]_vars PROVE CallInv'
  OBVIOUS
<1> USE DEF CallInv, NoOp
<1>1. CASE Open
  BY <1>1 DEF Open, closer
<1>2. ASSUME NEW o \in Ops, Call(o) PROVE CallInv'
  BY <1>2, TransportAssumption DEF Call, link, closer
<1>3. CASE Loop
  BY <1>3 DEF Loop, Goto, Return, closer, link
<1>4. CASE Ensure
  BY <1>4 DEF Ensure, AfterConnect, Goto, Return, closer, link
<1>5. CASE Dial
  BY <1>5 DEF Dial, Goto, Return, closer, link
<1>6. ASSUME NEW s \in Sockets, Connect(s) PROVE CallInv'
  BY <1>6 DEF Connect, closer
<1>7. CASE ConnectRefused
  BY <1>7 DEF ConnectRefused, Goto, Return, closer
<1>8. CASE SetSocket
  BY <1>8 DEF SetSocket, Goto, closer
<1>9. CASE SetConnected
  BY <1>9 DEF SetConnected, AfterConnect, Goto, Return, closer
<1>10. CASE Backoff
  BY <1>10 DEF Backoff, Waited, Goto, closer
<1>11. CASE BackoffOverflows
  BY <1>11 DEF BackoffOverflows, Return, closer, link
<1>12. CASE TestSocket
  BY <1>12 DEF TestSocket, Fail, Goto, Return, closer, link
<1>13. CASE LoadSocket
  BY <1>13 DEF LoadSocket, Return, closer, link
<1>14. CASE ReadData
  BY <1>14 DEF ReadData, Return, closer
<1>15. CASE ReadIdle
  BY <1>15 DEF ReadIdle, Goto, closer, link
<1>16. CASE ReadEnds
  BY <1>16 DEF ReadEnds, Fail, Return, closer
<1>17. CASE WriteSent
  BY <1>17 DEF WriteSent, closer, link
<1>18. CASE WriteError
  BY <1>18 DEF WriteError, closer
<1>19. CASE DropLoad
  BY <1>19 DEF DropLoad, closer, link
<1>20. CASE DropUnset
  BY <1>20 DEF DropUnset, Goto, closer
<1>21. CASE DropShut
  BY <1>21 DEF DropShut, Goto, closer
<1>22. CASE DropUnflag
  BY <1>22 DEF DropUnflag, Goto, closer
<1>23. CASE ReadDropped
  BY <1>23 DEF ReadDropped, Return, Goto, closer, link
<1>24. CASE WriteDropped
  BY <1>24 DEF WriteDropped, Return, closer, link
<1>25. CASE CloseBegin
  BY <1>25 DEF CloseBegin, caller
<1>26. CASE CloseLoad
  BY <1>26 DEF CloseLoad, caller, link
<1>27. CASE CloseUnset
  BY <1>27 DEF CloseUnset, caller
<1>28. CASE CloseShut
  BY <1>28 DEF CloseShut, caller
<1>29. CASE CloseUnflag
  BY <1>29 DEF CloseUnflag, caller
<1>30. CASE UNCHANGED vars
  BY <1>30 DEF vars, setup, link, caller, closer
<1> QED
  BY <1>1, <1>2, <1>3, <1>4, <1>5, <1>6, <1>7, <1>8, <1>9, <1>10, <1>11, <1>12,
     <1>13, <1>14, <1>15, <1>16, <1>17, <1>18, <1>19, <1>20, <1>21, <1>22, <1>23,
     <1>24, <1>25, <1>26, <1>27, <1>28, <1>29, <1>30
  DEF Next, CallStep, CloseStep, Terminated

LEMMA CallInvariant == Spec => []CallInv
<1> QED BY InitCallInv, NextCallInv, PTL DEF Spec

(* After close() has begun a step of the call brings it nearer its end.    *)
Nearer == StepsLeft <= 17 /\ StepsLeft' \in 0 .. (StepsLeft - 1)

RunsDown ==
    cpc # "before" /\ caller' # caller => Nearer

LEMMA StepRunsDown == CallInv /\ [Next]_vars => RunsDown
<1> SUFFICES ASSUME CallInv, [Next]_vars, cpc # "before", caller' # caller
             PROVE Nearer
  BY DEF RunsDown
<1> USE DEF CallInv, NoOp, StepsLeft, Nearer
<1>1. CASE Open
  BY <1>1 DEF Open, closer
<1>2. ASSUME NEW o \in Ops, Call(o) PROVE Nearer
  BY <1>2, TransportAssumption DEF Call, link, closer
<1>3. CASE Loop
  BY <1>3 DEF Loop, Goto, Return, closer, link
<1>4. CASE Ensure
  BY <1>4 DEF Ensure, AfterConnect, Goto, Return, closer, link
<1>5. CASE Dial
  BY <1>5 DEF Dial, Goto, Return, closer, link
<1>6. ASSUME NEW s \in Sockets, Connect(s) PROVE Nearer
  BY <1>6 DEF Connect, closer
<1>7. CASE ConnectRefused
  BY <1>7 DEF ConnectRefused, Goto, Return, closer
<1>8. CASE SetSocket
  BY <1>8 DEF SetSocket, Goto, closer
<1>9. CASE SetConnected
  BY <1>9 DEF SetConnected, AfterConnect, Goto, Return, closer
<1>10. CASE Backoff
  BY <1>10 DEF Backoff, Waited, Goto, closer
<1>11. CASE BackoffOverflows
  BY <1>11 DEF BackoffOverflows, Return, closer, link
<1>12. CASE TestSocket
  BY <1>12 DEF TestSocket, Fail, Goto, Return, closer, link
<1>13. CASE LoadSocket
  BY <1>13 DEF LoadSocket, Return, closer, link
<1>14. CASE ReadData
  BY <1>14 DEF ReadData, Return, closer
<1>15. CASE ReadIdle
  BY <1>15 DEF ReadIdle, Goto, closer, link
<1>16. CASE ReadEnds
  BY <1>16 DEF ReadEnds, Fail, Return, closer
<1>17. CASE WriteSent
  BY <1>17 DEF WriteSent, closer, link
<1>18. CASE WriteError
  BY <1>18 DEF WriteError, closer
<1>19. CASE DropLoad
  BY <1>19 DEF DropLoad, closer, link
<1>20. CASE DropUnset
  BY <1>20 DEF DropUnset, Goto, closer
<1>21. CASE DropShut
  BY <1>21 DEF DropShut, Goto, closer
<1>22. CASE DropUnflag
  BY <1>22 DEF DropUnflag, Goto, closer
<1>23. CASE ReadDropped
  BY <1>23 DEF ReadDropped, Return, Goto, closer, link
<1>24. CASE WriteDropped
  BY <1>24 DEF WriteDropped, Return, closer, link
<1>25. CASE CloseBegin
  BY <1>25 DEF CloseBegin, caller
<1>26. CASE CloseLoad
  BY <1>26 DEF CloseLoad, caller, link
<1>27. CASE CloseUnset
  BY <1>27 DEF CloseUnset, caller
<1>28. CASE CloseShut
  BY <1>28 DEF CloseShut, caller
<1>29. CASE CloseUnflag
  BY <1>29 DEF CloseUnflag, caller
<1>30. CASE UNCHANGED vars
  BY <1>30 DEF vars, setup, link, caller, closer
<1> QED
  BY <1>1, <1>2, <1>3, <1>4, <1>5, <1>6, <1>7, <1>8, <1>9, <1>10, <1>11, <1>12,
     <1>13, <1>14, <1>15, <1>16, <1>17, <1>18, <1>19, <1>20, <1>21, <1>22, <1>23,
     <1>24, <1>25, <1>26, <1>27, <1>28, <1>29, <1>30
  DEF Next, CallStep, CloseStep, Terminated

\* Once close() has begun, every step of the call it came into brings that call
\* nearer its end, at most 17 steps away, whatever the peer does: neither the loop of
\* read() nor that of _ensure_connected() keeps a call in a closed transport.
THEOREM CallsRunDown == Spec => [][RunsDown]_vars
<1> QED BY CallInvariant, StepRunsDown, PTL DEF Spec

=============================================================================
