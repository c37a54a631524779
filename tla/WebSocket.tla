------------------------------- MODULE WebSocket -------------------------------
(***************************************************************************)
(* One WebSocket of a session (internal/sandbox/websocket.go): the wsConn  *)
(* and its write lock, the bridge with its read and write goroutines, the  *)
(* events they schedule for JavaScript, the WebSocket class of wsJS, and   *)
(* the teardown by close() and by Session.Dispose.                         *)
(*                                                                         *)
(* A frame the client writes is a close, a pong or a numbered message;     *)
(* module WSFrame models its bytes.  An event is on the timer     *)
(* queue, in any order because each has a timer goroutine of its own,      *)
(* until a drain loop (module Timers) takes it.                            *)
(***************************************************************************)
EXTENDS Naturals, Sequences, FiniteSets

CONSTANTS
  Drains,     \* evaluations, each with its script and its drain loop
  Nobody,     \* nobody holds a lock; no event in hand
  SendCap,    \* capacity of sendCh (64 in the code)
  SendBound,  \* bound on the send() calls
  MsgBound    \* bound on the messages of the server

ASSUME SocketConstants ==
  /\ Nobody \notin Drains
  /\ SendCap \in Nat \ {0} /\ SendBound \in Nat /\ MsgBound \in Nat

VARIABLES
  locker,     \* the evaluation running JavaScript
  js,         \* where that JavaScript stands
  hand,       \* the event each drain loop has taken and not run, with the id it read
  pending,    \* scheduled events
  seen,       \* the events the handlers saw, in order; "thrown" is a close whose handler threw
  readyState, \* of the WebSocket object
  receiver,   \* receivers[id] is set
  conn,       \* where the construction of the WebSocket stands
  inReg,      \* the bridge is in the registry
  closing,    \* wsBridge.closing
  disposed,   \* Session.disposed
  dispose,    \* where Session.Dispose stands
  mu,         \* who holds wsConn.mu
  closed,     \* wsConn.closed
  rawOpen,    \* wsConn.raw is open
  wire,       \* the frames written to it
  sends,      \* send() calls so far
  sendCh,     \* messages for the write goroutine
  stop,       \* wsBridge.stop is closed
  reader, writer,   \* the two goroutines
  received,   \* messages of the server so far
  term        \* where terminate stands

jsVars     == <<locker, js, hand>>
eventVars  == <<pending, seen>>
objectVars == <<readyState, receiver, conn, inReg, closing>>
dispVars   == <<disposed, dispose>>
connVars   == <<mu, closed, rawOpen, wire>>
sendVars   == <<sends, sendCh>>
loopVars   == <<stop, reader, writer, received, term>>
vars == <<jsVars, eventVars, objectVars, dispVars, connVars, sendVars, loopVars>>

Message(n) == <<"message", n>>
Plain(kind) == <<kind, 0>>

Messages == {Message(n) : n \in 1..SendBound}
Frames   == Messages \cup {Plain("close"), Plain("pong")}
Arrivals == {Message(n) : n \in 1..MsgBound}
Events   == Arrivals \cup {Plain("open"), Plain("error"), Plain("close")}
Sightings == Events \cup {Plain("thrown")}
WireBound == SendBound      \* no pong is answered on a longer wire
NoEvent == [event |-> Nobody, idSet |-> FALSE]

TypeOK ==
  /\ locker \in Drains \cup {Nobody}
  /\ js \in {"out", "run", "create", "register", "sendClose", "closing", "markClosed"}
  /\ js = "out" <=> locker = Nobody
  /\ hand \in [Drains -> [event : Events \cup {Nobody}, idSet : BOOLEAN]]
  /\ pending \subseteq Events
  /\ seen \in Seq(Sightings)
  /\ readyState \in 0..3
  /\ receiver \in BOOLEAN
  /\ conn \in {"none", "dialed", "registered", "ready"}
  /\ inReg \in BOOLEAN /\ closing \in BOOLEAN
  /\ disposed \in BOOLEAN
  /\ dispose \in {"no", "flipped", "await", "stopAll", "finished"}
  /\ mu \in {"js", "reader", "writer", Nobody}
  /\ closed \in BOOLEAN /\ rawOpen \in BOOLEAN
  /\ wire \in Seq(Frames)
  /\ sends \in 0..SendBound
  /\ sendCh \in Seq(Messages) /\ Len(sendCh) <= SendCap
  /\ stop \in BOOLEAN
  /\ reader \in {"none", "reading", "ponging", "echoing", "echoed", "eof", "exited"}
  /\ writer \in [at : {"none", "select", "locking", "writing", "exited"},
                 msg : Messages \cup {Nobody}]
  /\ received \in 0..MsgBound
  /\ term \in {"no", "closeRaw", "await", "terminated"}

Init ==
  /\ locker = Nobody /\ js = "out"
  /\ hand = [d \in Drains |-> NoEvent]
  /\ pending = {} /\ seen = <<>>
  /\ readyState = 0 /\ receiver = FALSE /\ conn = "none"
  /\ inReg = FALSE /\ closing = FALSE
  /\ disposed = FALSE /\ dispose = "no"
  /\ mu = Nobody /\ closed = FALSE /\ rawOpen = FALSE /\ wire = <<>>
  /\ sends = 0 /\ sendCh = <<>>
  /\ stop = FALSE /\ received = 0
  /\ reader = "none" /\ writer = [at |-> "none", msg |-> Nobody]
  /\ term = "no"

\* scheduleTimer refuses what comes after StopAll.
Schedule(es) == pending' = pending \cup (IF dispose = "finished" THEN {} ELSE es)

\* writeFrame: its caller takes w.mu, and keeps it while raw.Write writes the frame, which
\* may block for as long as the server does not read.
WriteBegins(who, f) ==
  /\ mu = Nobody /\ ~closed
  /\ mu' = who
  /\ wire' = Append(wire, f)

WriteEnds == mu' = Nobody /\ UNCHANGED wire

\* "ws: connection closed".
WriteRefused == mu = Nobody /\ closed /\ UNCHANGED <<mu, wire>>

MarkClosed == mu = Nobody /\ closed' = TRUE /\ rawOpen' = FALSE

-----------------------------------------------------------------------------
(* JavaScript: scripts and event handlers.                                 *)

JsMoves(from, to) ==
  /\ js = from
  /\ js' = to
  /\ UNCHANGED <<locker, hand>>

\* A script of evaluation d starts; a disposed session admits none.
ScriptStarts(d) ==
  /\ ~disposed
  /\ locker = Nobody /\ hand[d] = NoEvent
  /\ locker' = d /\ js' = "run"
  /\ UNCHANGED <<hand, eventVars, objectVars, dispVars, connVars, sendVars, loopVars>>

JsEnds ==
  /\ js = "run"
  /\ locker' = Nobody /\ js' = "out"
  /\ UNCHANGED <<hand, eventVars, objectVars, dispVars, connVars, sendVars, loopVars>>

\* startWSBridge: dial, schedule "open", start both loops.
StartWSBridge ==
  /\ conn = "none"
  /\ JsMoves("run", "create")
  /\ conn' = "dialed"
  /\ rawOpen' = TRUE
  /\ Schedule({Plain("open")})
  /\ reader' = "reading"
  /\ writer' = [writer EXCEPT !.at = "select"]
  /\ UNCHANGED <<seen, readyState, receiver, inReg, closing, dispVars, mu, closed,
                 wire, sendVars, stop, received, term>>

\* wsRegistry.register, which also sets the id of the bridge.
Register ==
  /\ JsMoves("create", "register")
  /\ conn' = "registered"
  /\ inReg' = TRUE
  /\ UNCHANGED <<eventVars, readyState, receiver, closing, dispVars, connVars,
                 sendVars, loopVars>>

\* Back in the constructor: __besWebSocketRegisterReceiver.
RegisterReceiver ==
  /\ JsMoves("register", "run")
  /\ conn' = "ready"
  /\ receiver' = TRUE
  /\ UNCHANGED <<eventVars, readyState, inReg, closing, dispVars, connVars,
                 sendVars, loopVars>>

SendCall ==
  /\ js = "run" /\ conn = "ready" /\ readyState = 1
  /\ sends < SendBound
  /\ sends' = sends + 1

\* Mutant: when the queue is full the message is written at once.
SendOrWrite ==
  /\ SendCall
  /\ IF Len(sendCh) < SendCap
     THEN sendCh' = Append(sendCh, Message(sends')) /\ UNCHANGED wire
     ELSE /\ mu = Nobody /\ ~closed /\ UNCHANGED sendCh
          /\ wire' = Append(wire, Message(sends'))
  /\ UNCHANGED <<jsVars, eventVars, objectVars, dispVars, mu, closed, rawOpen, loopVars>>

\* send(): queued if the bridge is still registered and the queue is not full.
Send ==
  /\ SendCall
  /\ sendCh' = IF inReg /\ Len(sendCh) < SendCap THEN Append(sendCh, Message(sends'))
             ELSE sendCh
  /\ UNCHANGED <<jsVars, eventVars, objectVars, dispVars, connVars, loopVars>>

\* The onclose handler sees the close event.  Only when it returns is the receiver deleted.
HandlesClose ==
  /\ readyState' = 3
  /\ \/ seen' = Append(seen, Plain("close")) /\ receiver' = FALSE
     \/ seen' = Append(seen, Plain("thrown")) /\ UNCHANGED receiver

\* close(), up to the close frame.  The close event is fired on the spot; what its handler
\* throws is logged.
Close ==
  /\ conn = "ready" /\ readyState < 2
  /\ IF inReg
     THEN /\ JsMoves("run", "sendClose")
          /\ closing' = TRUE
          /\ IF disposed
             THEN readyState' = 2 /\ UNCHANGED <<seen, receiver>>
             ELSE HandlesClose
     ELSE /\ readyState' = 2
          /\ JsMoves("run", "run")
          /\ UNCHANGED <<closing, seen, receiver>>
  /\ UNCHANGED <<pending, conn, inReg, dispVars, connVars, sendVars, loopVars>>

\* sendClose, on the thread that holds the V8 Locker: the frame ...
SendClose ==
  /\ \/ JsMoves("sendClose", "closing") /\ WriteBegins("js", Plain("close"))
     \/ JsMoves("sendClose", "markClosed") /\ WriteRefused
  /\ UNCHANGED <<eventVars, objectVars, dispVars, closed, rawOpen, sendVars, loopVars>>

CloseWritten ==
  /\ JsMoves("closing", "markClosed")
  /\ WriteEnds
  /\ UNCHANGED <<eventVars, objectVars, dispVars, closed, rawOpen, sendVars, loopVars>>

\* terminate runs once: close(w.stop), then closeRaw and the wait.
TerminateBegins ==
  IF term = "no" THEN term' = "closeRaw" /\ stop' = TRUE ELSE UNCHANGED <<term, stop>>

\* ... then, in a second critical section, the flag; go terminate; removeByID.
CloseMarks ==
  /\ JsMoves("markClosed", "run")
  /\ MarkClosed
  /\ TerminateBegins
  /\ inReg' = FALSE
  /\ UNCHANGED <<eventVars, readyState, receiver, conn, closing, dispVars, mu, wire,
                 sendVars, reader, writer, received>>

-----------------------------------------------------------------------------
(* Event callbacks.                                                        *)

\* A drain loop takes a callback, which reads the id of the bridge and IsDisposed
\* before it waits for the Locker.
TakeEvent(d, e) ==
  /\ e \in pending
  /\ hand[d] = NoEvent /\ locker # d
  /\ pending' = pending \ {e}
  /\ hand' = IF disposed THEN hand
             ELSE [hand EXCEPT ![d] = 
               [event |-> e, idSet |-> conn \in {"registered", "ready"}]]
  /\ UNCHANGED <<locker, js, seen, objectVars, dispVars, connVars, sendVars, loopVars>>

RunCallback(d) ==
  /\ hand[d] # NoEvent
  /\ locker = Nobody
  /\ locker' = d /\ js' = "run"
  /\ hand' = [hand EXCEPT ![d] = NoEvent]
  /\ UNCHANGED <<pending, conn, inReg, closing, dispVars, connVars, sendVars, loopVars>>

Finds(d) == hand[d].idSet /\ receiver

OnEvent(d, e, state) ==
  /\ RunCallback(d)
  /\ Finds(d)
  /\ hand[d].event = e
  /\ seen' = Append(seen, e)
  /\ readyState' = state

\* __besWebSocketOnOpen, OnMessage, OnError.
OnOpen(d) == OnEvent(d, Plain("open"), 1) /\ UNCHANGED receiver
OnMessage(d) == \E m \in Arrivals : OnEvent(d, m, readyState) /\ UNCHANGED receiver
OnError(d) == OnEvent(d, Plain("error"), readyState) /\ UNCHANGED receiver

\* Mutant: the receiver is left in place for a later reconnect.
OnCloseKeeps(d) == OnEvent(d, Plain("close"), 3) /\ UNCHANGED receiver

\* __besWebSocketOnClose.
OnClose(d) ==
  /\ RunCallback(d)
  /\ Finds(d)
  /\ hand[d].event = Plain("close")
  /\ HandlesClose

\* receivers[id] is undefined.
NoReceiver(d) ==
  /\ RunCallback(d)
  /\ ~Finds(d)
  /\ UNCHANGED <<seen, readyState, receiver>>

-----------------------------------------------------------------------------
(* readLoop and readFrame.                                                 *)

ReaderGoes(from, to) ==
  /\ reader = from
  /\ reader' = to
  /\ UNCHANGED <<jsVars, seen, objectVars, dispVars, sendVars, stop, writer, term>>

ReadMessage ==
  /\ rawOpen /\ received < MsgBound
  /\ ReaderGoes("reading", "reading")
  /\ received' = received + 1
  /\ Schedule({Message(received')})
  /\ UNCHANGED connVars

\* A ping, read when w.mu is there for the pong.
ReadPing ==
  /\ rawOpen
  /\ Len(wire) < WireBound
  /\ \/ ReaderGoes("reading", "ponging") /\ WriteBegins("reader", Plain("pong"))
     \/ ReaderGoes("reading", "reading") /\ WriteRefused
  /\ UNCHANGED <<pending, closed, rawOpen, received>>

PongWritten ==
  /\ ReaderGoes("ponging", "reading")
  /\ WriteEnds
  /\ UNCHANGED <<pending, closed, rawOpen, received>>

\* The server closes: the echo, and in a second critical section the flag.
ReadClose ==
  /\ rawOpen
  /\ \/ ReaderGoes("reading", "echoing") /\ WriteBegins("reader", Plain("close"))
     \/ ReaderGoes("reading", "echoed") /\ WriteRefused
  /\ UNCHANGED <<pending, closed, rawOpen, received>>

EchoWritten ==
  /\ ReaderGoes("echoing", "echoed")
  /\ WriteEnds
  /\ UNCHANGED <<pending, closed, rawOpen, received>>

ReadCloseMarks ==
  /\ ReaderGoes("echoed", "eof")
  /\ MarkClosed
  /\ UNCHANGED <<pending, mu, wire, received>>

\* readFrame returns an error: the end of the stream, or anything else.  closing
\* is read afterwards.
ReadFails ==
  \/ /\ ReaderGoes("eof", "exited")
     /\ Schedule(IF closing THEN {} ELSE {Plain("close")})
     /\ UNCHANGED <<connVars, received>>
  \/ /\ ReaderGoes("reading", "exited")
     /\ \E es \in SUBSET {Plain("error")} :
          Schedule(IF closing THEN {} ELSE es \cup {Plain("close")})
     /\ UNCHANGED <<connVars, received>>

-----------------------------------------------------------------------------
(* writeLoop.                                                              *)

WriterGoes(from, to, m) ==
  /\ writer.at = from
  /\ writer' = [at |-> to, msg |-> m]
  /\ UNCHANGED <<jsVars, eventVars, objectVars, dispVars, closed, rawOpen, sends,
                 stop, reader, received, term>>

WriterStops ==
  /\ stop
  /\ WriterGoes("select", "exited", Nobody)
  /\ UNCHANGED <<mu, wire, sendCh>>

WriterTakes ==
  /\ sendCh # <<>>
  /\ WriterGoes("select", "locking", Head(sendCh))
  /\ sendCh' = Tail(sendCh)
  /\ UNCHANGED <<mu, wire>>

WriterWrites ==
  /\ WriterGoes("locking", "writing", Nobody)
  /\ WriteBegins("writer", writer.msg)
  /\ UNCHANGED sendCh

\* Mutant: the early return of writeFrame forgets to unlock.
WriterRefusedLocked ==
  /\ WriterGoes("locking", "select", Nobody)
  /\ mu = Nobody /\ closed
  /\ mu' = "writer"
  /\ UNCHANGED <<wire, sendCh>>

\* The message is dropped.
WriterRefused ==
  /\ WriterGoes("locking", "select", Nobody)
  /\ WriteRefused
  /\ UNCHANGED sendCh

WriterWritten ==
  /\ WriterGoes("writing", "select", Nobody)
  /\ WriteEnds
  /\ UNCHANGED sendCh

-----------------------------------------------------------------------------
(* terminate and Session.Dispose.                                          *)

TerminateGoes(from, to) ==
  /\ term = from
  /\ term' = to
  /\ UNCHANGED <<jsVars, eventVars, objectVars, dispVars, mu, wire, sendVars,
                 stop, reader, writer, received>>

\* Mutant: the connection is left to the read goroutine.
CloseRawNot == TerminateGoes("closeRaw", "await") /\ UNCHANGED <<closed, rawOpen>>

CloseRaw == TerminateGoes("closeRaw", "await") /\ MarkClosed

\* loopDone is closed, or two seconds have passed.
AwaitLoop == TerminateGoes("await", "terminated") /\ UNCHANGED <<closed, rawOpen>>

DisposeGoes(from, to) ==
  /\ dispose = from
  /\ dispose' = to
  /\ UNCHANGED <<jsVars, seen, readyState, receiver, conn, closing, connVars,
                 sendVars, reader, writer, received>>

DisposeFlip ==
  /\ DisposeGoes("no", "flipped")
  /\ disposed' = TRUE
  /\ UNCHANGED <<pending, inReg, stop, term>>

\* wsRegistry.disposeAll terminates what is registered now.
DisposeAll ==
  /\ DisposeGoes("flipped", IF inReg THEN "await" ELSE "stopAll")
  /\ inReg' = FALSE
  /\ IF inReg THEN TerminateBegins ELSE UNCHANGED <<term, stop>>
  /\ UNCHANGED <<pending, disposed>>

DisposeAwaits ==
  /\ term = "terminated"
  /\ DisposeGoes("await", "stopAll")
  /\ UNCHANGED <<pending, disposed, inReg, stop, term>>

\* TimerManager.StopAll.
StopAll ==
  /\ DisposeGoes("stopAll", "finished")
  /\ pending' = {}
  /\ UNCHANGED <<disposed, inReg, stop, term>>

-----------------------------------------------------------------------------
JavaScript ==
  \/ \E d \in Drains : ScriptStarts(d)
  \/ JsEnds \/ StartWSBridge \/ Register \/ RegisterReceiver
  \/ Send \/ Close \/ SendClose \/ CloseMarks

Callback(d) ==
  \/ \E e \in Events : TakeEvent(d, e)
  \/ OnOpen(d) \/ OnMessage(d) \/ OnError(d) \/ OnClose(d) \/ NoReceiver(d)

ReadLoop == ReadMessage \/ ReadPing \/ ReadClose \/ ReadCloseMarks \/ ReadFails

\* raw.Write returns.
WriteReturns == CloseWritten \/ PongWritten \/ EchoWritten \/ WriterWritten

WriteLoop == WriterStops \/ WriterTakes \/ WriterWrites \/ WriterRefused

Terminate == CloseRaw \/ AwaitLoop

Dispose == DisposeFlip \/ DisposeAll \/ DisposeAwaits \/ StopAll

Next ==
  \/ JavaScript
  \/ \E d \in Drains : Callback(d)
  \/ ReadLoop
  \/ WriteLoop
  \/ WriteReturns
  \/ Terminate
  \/ Dispose

Spec == Init /\ [][Next]_vars

-----------------------------------------------------------------------------
\* A close event whose handler returns is the last event that JavaScript sees, and the
\* WebSocket stays CLOSED, whether the server closes, the script does, or both at once.  A
\* handler that throws leaves the receiver in place: other events may follow it, another
\* close among them, and an "open" may even turn readyState back.
CloseIsLast ==
  \A i \in DOMAIN seen : seen[i] = Plain("close") => i = Len(seen) /\ readyState = 3

\* What reaches the wire of the messages of send() is in the order of the calls, each
\* at most once.
SentInOrder ==
  \A i, j \in DOMAIN wire :
    wire[i] \in Messages /\ wire[j] \in Messages /\ i < j => wire[i][2] < wire[j][2]

\* What the goroutines of the bridge do by themselves once it is told to stop: no
\* new data from the server, no further JavaScript but the close() under way, and no return
\* of a raw.Write, for which the server has to read.
BridgeProgress ==
  \/ SendClose \/ CloseMarks
  \/ ReadCloseMarks \/ (~rawOpen /\ ReadFails)
  \/ WriteLoop
  \/ Terminate

\* When a step of BridgeProgress, or of Dispose, is possible.
BridgeCanMove ==
  \/ mu = Nobody /\ (\/ js \in {"sendClose", "markClosed"} \/ reader = "echoed"
                    \/ writer.at = "locking" \/ term = "closeRaw")
  \/ ~rawOpen /\ reader \in {"reading", "eof"}
  \/ writer.at = "select" /\ (stop \/ sendCh # <<>>)
  \/ term = "await"

DisposeCanMove ==
  dispose \in {"no", "flipped", "stopAll"} \/ (dispose = "await" /\ term = "terminated")

\* Somebody is inside raw.Write.
InWrite == js = "closing" \/ reader \in {"ponging", "echoing"} \/ writer.at = "writing"

\* A raw.Write that the server does not answer by reading is the only thing a bridge that
\* was told to stop can wait for without a bound, whoever stopped it and whatever its
\* goroutines were doing: with nobody inside raw.Write one of them can take a step, until
\* both have exited and terminate has returned.  Nor does Dispose wait for anything else:
\* its wait for terminate is bounded, but terminate first takes the lock of the writers.
SomebodyCanMove ==
  /\ stop => \/ BridgeCanMove \/ InWrite
             \/ reader = "exited" /\ writer.at = "exited" /\ term = "terminated"
  /\ disposed => dispose = "finished" \/ DisposeCanMove \/ BridgeCanMove \/ InWrite

\* The same of the steps themselves.
NeverStuck ==
  /\ SomebodyCanMove
  /\ BridgeCanMove <=> ENABLED BridgeProgress
  /\ DisposeCanMove <=> ENABLED Dispose
=============================================================================
