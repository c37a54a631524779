--------------------------- MODULE WebSocketProofs ---------------------------
(***************************************************************************)
(* Proofs about the WebSocket bridge: the order of the events that         *)
(* JavaScript sees and of the messages that it sends (WebSocket), for any  *)
(* set of drains, capacity of the send queue and number of messages; that  *)
(* its parts wind down once it was told to stop; and the framing of        *)
(* messages (WSFrame), for every opcode and every length that fits into 32 *)
(* bits: what can be read, and what never is.                              *)
(***************************************************************************)
EXTENDS WebSocket, WSFrame, TLAPS, SequenceTheorems

-----------------------------------------------------------------------------
(* Types. *)

\* A message is determined by its number.
LEMMA MessageIs == \A f \in Messages : f[2] \in 1..SendBound /\ f = Message(f[2])
BY DEF Messages, Message

\* The plain frames and events are no messages, and a close is unlike the others.
LEMMA KindsOfFrames ==
  /\ Plain("close") \in Frames \ Messages /\ Plain("pong") \in Frames \ Messages
  /\ Messages \subseteq Frames /\ Arrivals \subseteq Events
  /\ Plain("open") \in Events /\ Plain("error") \in Events /\ Plain("close") \in Events
  /\ Plain("open") # Plain("close") /\ Plain("error") # Plain("close")
  /\ Events \subseteq Sightings /\ Plain("thrown") \in Sightings /\ Plain("thrown") # Plain("close")
  /\ \A m \in Arrivals : m # Plain("close")
<1>1. Plain("close") \notin Messages /\ Plain("pong") \notin Messages /\ Plain("close") \notin Arrivals
  BY SocketConstants DEF Plain, Messages, Message, Arrivals
<1>2. /\ Plain("open") # Plain("close") /\ Plain("error") # Plain("close")
      /\ Plain("thrown") # Plain("close")
  BY DEF Plain
<1> QED BY <1>1, <1>2 DEF Frames, Events, Sightings

\* What a call of writeFrame leaves of the lock and on the wire.
LEMMA WriteTypes ==
  ASSUME TypeOK, NEW f \in Frames, NEW who \in {"js", "reader", "writer"},
         WriteBegins(who, f) \/ WriteRefused \/ WriteEnds
  PROVE  /\ mu' \in {"js", "reader", "writer", Nobody}
         /\ wire' \in Seq(Frames) /\ (wire' = wire \/ wire' = Append(wire, f))
<1>1. wire \in Seq(Frames) /\ Append(wire, f) \in Seq(Frames) /\ mu \in {"js", "reader", "writer", Nobody}
  BY DEF TypeOK
<1>2. mu' \in {mu, who, Nobody} /\ (wire' = wire \/ wire' = Append(wire, f))
  BY DEF WriteBegins, WriteRefused, WriteEnds
<1> QED BY <1>1, <1>2

\* The write goroutine has a message when it waits for the lock.
WriterHolds == writer.at = "locking" => writer.msg \in Messages

\* Every variable keeps its type, and JavaScript runs exactly where the Locker is held.
LEMMA SocketTypes == TypeOK /\ WriterHolds /\ [Next]_vars => TypeOK'
<1> SUFFICES ASSUME TypeOK, WriterHolds, [Next]_vars PROVE TypeOK'
  OBVIOUS
<1> USE SocketConstants DEF TypeOK
<1>1. ASSUME NEW d \in Drains, ScriptStarts(d) PROVE TypeOK'
  BY <1>1 DEF ScriptStarts, eventVars, objectVars, dispVars, connVars, sendVars, loopVars
<1>2. CASE JsEnds
  BY <1>2 DEF JsEnds, eventVars, objectVars, dispVars, connVars, sendVars, loopVars
<1>3. CASE StartWSBridge
  <2>1. pending' \subseteq Events
    BY <1>3, KindsOfFrames DEF StartWSBridge, Schedule
  <2>2. writer' \in [at : {"none", "select", "locking", "writing", "exited"},
                     msg : Messages \cup {Nobody}]
    BY <1>3 DEF StartWSBridge
  <2> QED BY <1>3, <2>1, <2>2 DEF StartWSBridge, JsMoves, dispVars, sendVars
<1>4. CASE Register
  BY <1>4 DEF Register, JsMoves, eventVars, dispVars, connVars, sendVars, loopVars
<1>5. CASE RegisterReceiver
  BY <1>5 DEF RegisterReceiver, JsMoves, eventVars, dispVars, connVars, sendVars, loopVars
<1>6. CASE Send
  <2>1. sends + 1 \in 1..SendBound /\ Message(sends + 1) \in Messages
    BY <1>6 DEF Send, SendCall, Messages
  <2>2. sendCh' \in Seq(Messages) /\ Len(sendCh') <= SendCap
    BY <1>6, <2>1 DEF Send, SendCall
  <2> QED BY <1>6, <2>1, <2>2
        DEF Send, SendCall, jsVars, eventVars, objectVars, dispVars, connVars, loopVars
<1>7. CASE Close
  <2>1. seen' \in Seq(Sightings)
    <3>1. seen' = seen \/ seen' = Append(seen, Plain("close")) \/ seen' = Append(seen, Plain("thrown"))
      BY <1>7 DEF Close, HandlesClose
    <3>2. /\ seen \in Seq(Sightings) /\ Append(seen, Plain("close")) \in Seq(Sightings)
          /\ Append(seen, Plain("thrown")) \in Seq(Sightings)
      BY KindsOfFrames
    <3> QED BY <3>1, <3>2
  <2>2. readyState' \in 0..3 /\ js' \in {"run", "sendClose"} /\ js = "run"
    BY <1>7 DEF Close, HandlesClose, JsMoves
  <2>3. receiver' \in BOOLEAN /\ closing' \in BOOLEAN
    BY <1>7 DEF Close, HandlesClose
  <2>4. UNCHANGED <<locker, hand, pending, conn, inReg, dispVars, connVars, sendVars, loopVars>>
    BY <1>7 DEF Close, JsMoves
  <2> QED BY <2>1, <2>2, <2>3, <2>4 DEF dispVars, connVars, sendVars, loopVars
<1>8. CASE SendClose \/ CloseWritten
  <2>1. wire' \in Seq(Frames) /\ mu' \in {"js", "reader", "writer", Nobody}
    BY <1>8, WriteTypes, KindsOfFrames DEF SendClose, CloseWritten
  <2>2. js \in {"sendClose", "closing"} /\ js' \in {"closing", "markClosed"} /\ UNCHANGED <<locker, hand>>
    BY <1>8 DEF SendClose, CloseWritten, JsMoves
  <2>3. UNCHANGED <<eventVars, objectVars, dispVars, closed, rawOpen, sendVars, loopVars>>
    BY <1>8 DEF SendClose, CloseWritten
  <2> QED BY <2>1, <2>2, <2>3 DEF eventVars, objectVars, dispVars, sendVars, loopVars
<1>9. CASE CloseMarks
  <2>1. closed' \in BOOLEAN /\ rawOpen' \in BOOLEAN /\ inReg' \in BOOLEAN
    BY <1>9 DEF CloseMarks, MarkClosed
  <2>2. stop' \in BOOLEAN /\ term' \in {"no", "closeRaw", "await", "terminated"}
    BY <1>9 DEF CloseMarks, TerminateBegins
  <2>3. js = "markClosed" /\ js' = "run" /\ UNCHANGED <<locker, hand>>
    BY <1>9 DEF CloseMarks, JsMoves
  <2>4. UNCHANGED <<eventVars, readyState, receiver, conn, closing, dispVars, mu, wire, sendVars,
                    reader, writer, received>>
    BY <1>9 DEF CloseMarks
  <2> QED BY <2>1, <2>2, <2>3, <2>4 DEF eventVars, dispVars, sendVars
<1>10. ASSUME NEW d \in Drains, NEW e \in Events, TakeEvent(d, e) PROVE TypeOK'
  <2>1. hand' \in [Drains -> [event : Events \cup {Nobody}, idSet : BOOLEAN]]
    <3>1. [event |-> e, idSet |-> conn \in {"registered", "ready"}]
            \in [event : Events \cup {Nobody}, idSet : BOOLEAN]
      <4>1. CASE conn \in {"registered", "ready"}
        BY <4>1
      <4>2. CASE conn \notin {"registered", "ready"}
        BY <4>2
      <4> QED BY <4>1, <4>2
    <3> QED BY <1>10, <3>1 DEF TakeEvent
  <2> QED BY <1>10, <2>1 DEF TakeEvent, objectVars, dispVars, connVars, sendVars, loopVars
<1>11. ASSUME NEW d \in Drains, RunCallback(d), seen' \in Seq(Sightings), readyState' \in 0..3,
              receiver' \in BOOLEAN
       PROVE  TypeOK'
  <2>1. NoEvent \in [event : Events \cup {Nobody}, idSet : BOOLEAN]
    BY DEF NoEvent
  <2>2. hand' \in [Drains -> [event : Events \cup {Nobody}, idSet : BOOLEAN]]
    BY <1>11, <2>1 DEF RunCallback
  <2> QED BY <1>11, <2>2 DEF RunCallback, dispVars, connVars, sendVars, loopVars
<1>12. ASSUME NEW d \in Drains, OnOpen(d) \/ OnMessage(d) \/ OnError(d) \/ OnClose(d) \/ NoReceiver(d)
       PROVE  TypeOK'
  <2>1. ASSUME NEW e \in Events, NEW state \in 0..3, OnEvent(d, e, state), receiver' \in BOOLEAN
        PROVE  TypeOK'
    <3>1. seen' \in Seq(Sightings) /\ readyState' \in 0..3 /\ RunCallback(d)
      BY <2>1, KindsOfFrames DEF OnEvent
    <3> QED BY <1>11, <2>1, <3>1
  <2>2. CASE OnOpen(d)
    BY <2>1, <2>2, KindsOfFrames DEF OnOpen
  <2>3. CASE OnMessage(d)
    BY <2>1, <2>3, KindsOfFrames DEF OnMessage
  <2>4. CASE OnError(d)
    BY <2>1, <2>4, KindsOfFrames DEF OnError
  <2>5. CASE OnClose(d)
    <3>1. RunCallback(d) /\ HandlesClose
      BY <2>5 DEF OnClose
    <3>2. /\ Append(seen, Plain("close")) \in Seq(Sightings)
          /\ Append(seen, Plain("thrown")) \in Seq(Sightings)
      BY KindsOfFrames
    <3>3. seen' \in Seq(Sightings) /\ readyState' \in 0..3 /\ receiver' \in BOOLEAN
      <4>1. 3 \in 0..3 /\ receiver \in BOOLEAN
        OBVIOUS
      <4>2. readyState' = 3 /\ seen' \in {Append(seen, Plain("close")), Append(seen, Plain("thrown"))}
            /\ (receiver' = FALSE \/ receiver' = receiver)
        BY <3>1 DEF HandlesClose
      <4> QED BY <3>2, <4>1, <4>2
    <3> QED BY <1>11, <3>1, <3>3
  <2>6. CASE NoReceiver(d)
    BY <1>11, <2>6 DEF NoReceiver
  <2> QED BY <1>12, <2>2, <2>3, <2>4, <2>5, <2>6
<1>13. CASE ReadMessage
  <2>1. Message(received') \in Arrivals
    <3>1. received' = received + 1 /\ received < MsgBound /\ received \in 0..MsgBound
      BY <1>13 DEF ReadMessage
    <3>2. received' \in 1..MsgBound
      BY <3>1
    <3> QED BY <3>2 DEF Arrivals
  <2>2. pending' \subseteq Events
    BY <1>13, <2>1, KindsOfFrames DEF ReadMessage, Schedule
  <2> QED BY <1>13, <2>2 DEF ReadMessage, ReaderGoes, jsVars, objectVars, dispVars, connVars, sendVars
<1>14. CASE ReadPing \/ ReadClose \/ PongWritten \/ EchoWritten
  <2>1. wire' \in Seq(Frames) /\ mu' \in {"js", "reader", "writer", Nobody}
    BY <1>14, WriteTypes, KindsOfFrames DEF ReadPing, ReadClose, PongWritten, EchoWritten
  <2>2. /\ reader' \in {"reading", "ponging", "echoing", "echoed"}
        /\ UNCHANGED <<jsVars, seen, objectVars, dispVars, sendVars, stop, writer, term>>
        /\ UNCHANGED <<pending, closed, rawOpen, received>>
    BY <1>14 DEF ReadPing, ReadClose, PongWritten, EchoWritten, ReaderGoes
  <2> QED BY <2>1, <2>2 DEF jsVars, objectVars, dispVars, sendVars
<1>15. CASE ReadCloseMarks
  <2>1. closed' \in BOOLEAN /\ rawOpen' \in BOOLEAN
    BY <1>15 DEF ReadCloseMarks, MarkClosed
  <2>2. reader' = "eof" /\ UNCHANGED <<jsVars, eventVars, objectVars, dispVars, sendVars, stop,
                                      writer, received, term, mu, wire>>
    BY <1>15 DEF ReadCloseMarks, ReaderGoes, eventVars
  <2> QED BY <2>1, <2>2 DEF jsVars, eventVars, objectVars, dispVars, sendVars
<1>16. CASE ReadFails
  <2>1. pending' \subseteq Events
    BY <1>16, KindsOfFrames DEF ReadFails, Schedule
  <2> QED BY <1>16, <2>1 DEF ReadFails, ReaderGoes, jsVars, objectVars, dispVars, connVars, sendVars
<1>17. ASSUME NEW from, NEW to \in {"select", "locking", "writing", "exited"},
              NEW m \in Messages \cup {Nobody}, WriterGoes(from, to, m),
              mu' \in {"js", "reader", "writer", Nobody}, wire' \in Seq(Frames),
              sendCh' \in Seq(Messages), Len(sendCh') <= SendCap
       PROVE  TypeOK'
  <2>1. writer' \in [at : {"none", "select", "locking", "writing", "exited"},
                     msg : Messages \cup {Nobody}]
    BY <1>17 DEF WriterGoes
  <2> QED BY <1>17, <2>1 DEF WriterGoes, jsVars, eventVars, objectVars, dispVars
<1>18. CASE WriterStops \/ WriterRefused \/ WriterWritten
  BY <1>17, <1>18 DEF WriterStops, WriterRefused, WriterWritten, WriteRefused, WriteEnds
<1>19. CASE WriterTakes
  <2>1. Head(sendCh) \in Messages /\ Tail(sendCh) \in Seq(Messages) /\ Len(Tail(sendCh)) <= SendCap
    BY <1>19 DEF WriterTakes
  <2> QED BY <1>17, <1>19, <2>1 DEF WriterTakes
<1>20. CASE WriterWrites
  <2>1. writer.msg \in Frames
    BY <1>20, KindsOfFrames DEF WriterWrites, WriterGoes, WriterHolds
  <2>2. wire' \in Seq(Frames) /\ mu' = "writer"
    BY <1>20, <2>1 DEF WriterWrites, WriteBegins
  <2> QED BY <1>17, <1>20, <2>2 DEF WriterWrites
<1>21. CASE CloseRaw \/ AwaitLoop
  <2>1. closed' \in BOOLEAN /\ rawOpen' \in BOOLEAN
    BY <1>21 DEF CloseRaw, AwaitLoop, MarkClosed
  <2>2. term' \in {"await", "terminated"} /\ UNCHANGED <<jsVars, eventVars, objectVars, dispVars,
          mu, wire, sendVars, stop, reader, writer, received>>
    BY <1>21 DEF CloseRaw, AwaitLoop, TerminateGoes
  <2> QED BY <2>1, <2>2 DEF jsVars, eventVars, objectVars, dispVars, sendVars
<1>22. CASE DisposeFlip \/ DisposeAll \/ DisposeAwaits \/ StopAll
  <2>1. inReg' \in BOOLEAN /\ disposed' \in BOOLEAN
    BY <1>22 DEF DisposeFlip, DisposeAll, DisposeAwaits, StopAll
  <2>2. stop' \in BOOLEAN /\ term' \in {"no", "closeRaw", "await", "terminated"}
    BY <1>22 DEF DisposeFlip, DisposeAll, DisposeAwaits, StopAll, TerminateBegins
  <2>3. pending' \subseteq Events /\ dispose' \in {"flipped", "await", "stopAll", "finished"}
    BY <1>22 DEF DisposeFlip, DisposeAll, DisposeAwaits, StopAll, DisposeGoes
  <2>4. UNCHANGED <<jsVars, seen, readyState, receiver, conn, closing, connVars, sendVars, reader,
                    writer, received>>
    BY <1>22 DEF DisposeFlip, DisposeAll, DisposeAwaits, StopAll, DisposeGoes
  <2> QED BY <2>1, <2>2, <2>3, <2>4 DEF jsVars, connVars, sendVars
<1>23. CASE UNCHANGED vars
  BY <1>23 DEF vars, jsVars, eventVars, objectVars, dispVars, connVars, sendVars, loopVars
<1> QED BY <1>1, <1>2, <1>3, <1>4, <1>5, <1>6, <1>7, <1>8, <1>9, <1>10, <1>12, <1>13, <1>14, <1>15,
           <1>16, <1>18, <1>19, <1>20, <1>21, <1>22, <1>23
        DEF Next, JavaScript, Callback, ReadLoop, WriteLoop, WriteReturns, Terminate, Dispose

-----------------------------------------------------------------------------
(* Events: the last one that JavaScript sees is the close. *)

\* No handler of a close event has returned.
NoCloseYet == \A i \in DOMAIN seen : seen[i] # Plain("close")

\* Where one has, nothing was seen afterwards.
CloseAtTheEnd == \A i \in DOMAIN seen : seen[i] = Plain("close") => i = Len(seen)

\* A receiver has seen no close, or has thrown.  It is missing before the constructor has
\* returned, when nothing was seen, and after a close, which leaves readyState at CLOSED.
CloseInv ==
  /\ CloseAtTheEnd
  /\ receiver => conn = "ready" /\ NoCloseYet
  /\ conn = "ready" => receiver \/ readyState = 3
  /\ conn # "ready" => seen = <<>>
  /\ js = "create" => conn = "dialed"
  /\ js = "register" => conn = "registered"

\* An event after which there is no receiver, or which is no close, may be the next one.
LEMMA OneMoreEvent ==
  ASSUME TypeOK, NoCloseYet, NEW e \in Sightings, seen' = Append(seen, e)
  PROVE  CloseAtTheEnd' /\ (e # Plain("close") => NoCloseYet')
<1>1. /\ Len(seen') = Len(seen) + 1 /\ Len(seen) \in Nat
      /\ DOMAIN seen = 1..Len(seen) /\ DOMAIN seen' = 1..Len(seen')
      /\ seen'[Len(seen) + 1] = e /\ \A i \in 1..Len(seen) : seen'[i] = seen[i]
  BY DEF TypeOK
<1>2. \A i \in DOMAIN seen' : i \in DOMAIN seen \/ i = Len(seen')
  BY <1>1
<1> QED BY <1>1, <1>2 DEF CloseAtTheEnd, NoCloseYet

\* What was seen stays as it is.
LEMMA SameEvents ==
  ASSUME CloseInv, UNCHANGED <<seen, readyState, receiver>>,
         conn' = conn \/ (conn # "ready" /\ conn' # "ready" /\ ~receiver),
         js' = "create" => conn' = "dialed", js' = "register" => conn' = "registered"
  PROVE  CloseInv'
BY DEF CloseInv, CloseAtTheEnd, NoCloseYet

\* No step lets JavaScript see an event after a close.
LEMMA CloseStep == TypeOK /\ CloseInv /\ [Next]_vars => CloseInv'
<1> SUFFICES ASSUME TypeOK, CloseInv, [Next]_vars PROVE CloseInv'
  OBVIOUS
<1>a. (js = "out" <=> locker = Nobody) /\ Nobody \notin Drains /\ js \in {"out", "run", "create", "register", "sendClose", "closing", "markClosed"}
  BY SocketConstants DEF TypeOK
<1>b. (js = "create" => conn = "dialed") /\ (js = "register" => conn = "registered")
  BY DEF CloseInv
<1>e. ASSUME receiver, NoCloseYet, conn = "ready", conn' = conn, js' \in {"run", "sendClose"}, HandlesClose
      PROVE  CloseInv'
  <2>1. CASE seen' = Append(seen, Plain("close")) /\ receiver' = FALSE
    <3>1. CloseAtTheEnd'
      BY <1>e, <2>1, OneMoreEvent, KindsOfFrames
    <3> QED BY <1>e, <2>1, <3>1 DEF CloseInv, HandlesClose
  <2>2. CASE seen' = Append(seen, Plain("thrown")) /\ UNCHANGED receiver
    <3>1. CloseAtTheEnd' /\ NoCloseYet'
      BY <1>e, <2>2, OneMoreEvent, KindsOfFrames
    <3> QED BY <1>e, <2>2, <3>1 DEF CloseInv, HandlesClose
  <2> QED BY <1>e, <2>1, <2>2 DEF HandlesClose
<1>1. CASE StartWSBridge
  <2>1. UNCHANGED <<seen, readyState, receiver>> /\ conn = "none" /\ conn' = "dialed" /\ js' = "create"
    BY <1>1 DEF StartWSBridge, JsMoves
  <2>2. ~receiver
    BY <2>1 DEF CloseInv
  <2> QED BY <2>1, <2>2, SameEvents
<1>2. CASE Register
  <2>1. UNCHANGED <<seen, readyState, receiver>> /\ conn = "dialed" /\ conn' = "registered" /\ js' = "register"
    BY <1>b, <1>2 DEF Register, JsMoves, eventVars
  <2>2. ~receiver
    BY <2>1 DEF CloseInv
  <2> QED BY <2>1, <2>2, SameEvents
<1>3. CASE RegisterReceiver
  <2>1. UNCHANGED <<seen, readyState>> /\ conn = "registered" /\ conn' = "ready" /\ js' = "run"
        /\ receiver'
    BY <1>b, <1>3 DEF RegisterReceiver, JsMoves, eventVars
  <2>2. seen' = <<>>
    BY <2>1 DEF CloseInv
  <2>3. CloseAtTheEnd' /\ NoCloseYet'
    BY <2>2 DEF CloseAtTheEnd, NoCloseYet
  <2> QED BY <2>1, <2>3 DEF CloseInv
<1>4. CASE Close
  <2>1. conn = "ready" /\ conn' = "ready" /\ readyState < 2 /\ js' \in {"run", "sendClose"}
    BY <1>4 DEF Close, JsMoves
  <2>2. receiver /\ NoCloseYet
    BY <2>1 DEF CloseInv, TypeOK
  <2>3. CASE seen' = seen /\ receiver' = receiver
    BY <2>1, <2>2, <2>3 DEF CloseInv, CloseAtTheEnd, NoCloseYet
  <2>4. CASE HandlesClose
    BY <1>e, <2>1, <2>2, <2>4
  <2> QED BY <1>4, <2>3, <2>4 DEF Close
<1>5. ASSUME NEW d \in Drains, NEW e \in Events, NEW state, OnEvent(d, e, state),
             e # Plain("close"), UNCHANGED receiver
      PROVE  CloseInv'
  <2>1. receiver /\ conn = "ready" /\ NoCloseYet /\ conn' = conn /\ js' = "run" /\ readyState' = state
        /\ seen' = Append(seen, e)
    BY <1>5 DEF OnEvent, RunCallback, Finds, CloseInv
  <2>2. CloseAtTheEnd' /\ (e # Plain("close") => NoCloseYet')
    BY <2>1, OneMoreEvent, KindsOfFrames
  <2> QED BY <1>5, <2>1, <2>2 DEF CloseInv
<1>6. ASSUME NEW d \in Drains, OnOpen(d) \/ OnMessage(d) \/ OnError(d) \/ OnClose(d) PROVE CloseInv'
  <2>1. CASE OnOpen(d)
    BY <1>5, <2>1, KindsOfFrames DEF OnOpen
  <2>2. CASE OnMessage(d)
    BY <1>5, <2>2, KindsOfFrames DEF OnMessage
  <2>3. CASE OnError(d)
    BY <1>5, <2>3, KindsOfFrames DEF OnError
  <2>4. CASE OnClose(d)
    <3>1. receiver /\ conn' = conn /\ js' = "run" /\ HandlesClose
      BY <2>4 DEF OnClose, RunCallback, Finds
    <3>2. conn = "ready" /\ NoCloseYet
      BY <3>1 DEF CloseInv
    <3> QED BY <1>e, <3>1, <3>2
  <2> QED BY <1>6, <2>1, <2>2, <2>3, <2>4
<1>7. ASSUME UNCHANGED <<seen, readyState, receiver, conn>>,
             js' = js \/ js' \in {"out", "run", "closing", "markClosed"}
      PROVE  CloseInv'
  BY <1>b, <1>7, SameEvents
<1>8. ASSUME NEW d \in Drains,
             ScriptStarts(d) \/ NoReceiver(d) \/ \E e \in Events : TakeEvent(d, e)
      PROVE  CloseInv'
  BY <1>7, <1>8 DEF ScriptStarts, NoReceiver, RunCallback, TakeEvent, eventVars, objectVars
<1>9. CASE JsEnds \/ Send \/ SendClose \/ CloseWritten \/ CloseMarks
  BY <1>7, <1>9 DEF JsEnds, Send, SendClose, CloseWritten, CloseMarks, JsMoves, jsVars, eventVars, objectVars
<1>10. CASE ReadLoop \/ PongWritten \/ EchoWritten
  BY <1>7, <1>10 DEF ReadLoop, ReadMessage, ReadPing, ReadClose, ReadCloseMarks, ReadFails,
       PongWritten, EchoWritten,
       ReaderGoes, jsVars, objectVars
<1>11. CASE WriteLoop \/ WriterWritten
  BY <1>7, <1>11 DEF WriteLoop, WriterWritten, WriterStops, WriterTakes, WriterWrites, WriterRefused,
       WriterGoes, jsVars, eventVars, objectVars
<1>12. CASE Terminate
  BY <1>7, <1>12 DEF Terminate, CloseRaw, AwaitLoop, TerminateGoes, jsVars, eventVars, objectVars
<1>13. CASE Dispose
  BY <1>7, <1>13 DEF Dispose, DisposeFlip, DisposeAll, DisposeAwaits, StopAll, DisposeGoes, jsVars
<1>14. CASE UNCHANGED vars
  BY <1>7, <1>14 DEF vars, jsVars, eventVars, objectVars
<1> QED BY <1>1, <1>2, <1>3, <1>4, <1>6, <1>8, <1>9, <1>10, <1>11, <1>12, <1>13, <1>14
        DEF Next, JavaScript, Callback, WriteReturns

-----------------------------------------------------------------------------
(* Messages: what is written is in the order of the calls of send(). *)

\* What the write goroutine has taken and not written yet.
Taken == writer.at = "locking"

\* Messages are numbered as they are sent, and pass from the queue through the hands of
\* the write goroutine to the wire.
OrderInv ==
  /\ SentInOrder
  /\ WriterHolds
  /\ \A k \in DOMAIN sendCh : sendCh[k][2] <= sends
  /\ \A k, l \in DOMAIN sendCh : k < l => sendCh[k][2] < sendCh[l][2]
  /\ Taken => writer.msg[2] <= sends /\ \A k \in DOMAIN sendCh : writer.msg[2] < sendCh[k][2]
  /\ \A i \in DOMAIN wire : wire[i] \in Messages =>
       /\ wire[i][2] <= sends
       /\ Taken => wire[i][2] < writer.msg[2]
       /\ \A k \in DOMAIN sendCh : wire[i][2] < sendCh[k][2]

\* A frame that is no message changes nothing.
LEMMA PlainFrames ==
  ASSUME TypeOK, OrderInv, UNCHANGED <<sends, sendCh, writer>>, NEW f \in Frames \ Messages,
         wire' = wire \/ wire' = Append(wire, f)
  PROVE  OrderInv'
<1>1. CASE wire' = wire
  BY <1>1 DEF OrderInv, SentInOrder, WriterHolds, Taken
<1>2. CASE wire' = Append(wire, f)
  <2>1. /\ DOMAIN wire' = 1..(Len(wire) + 1) /\ DOMAIN wire = 1..Len(wire) /\ Len(wire) \in Nat
        /\ wire'[Len(wire) + 1] = f /\ \A i \in DOMAIN wire : wire'[i] = wire[i]
    BY <1>2 DEF TypeOK
  <2>2. \A i \in DOMAIN wire' : wire'[i] \in Messages => i \in DOMAIN wire /\ wire'[i] = wire[i]
    BY <2>1
  <2>3. SentInOrder'
    BY <2>2 DEF OrderInv, SentInOrder
  <2> HIDE <1>2
  <2> QED BY <2>2, <2>3 DEF OrderInv, WriterHolds, Taken
<1> QED BY <1>1, <1>2

\* send() numbers a message above all others.
LEMMA SendOrder == TypeOK /\ OrderInv /\ Send => OrderInv'
<1> SUFFICES ASSUME TypeOK, OrderInv, Send PROVE OrderInv'
  OBVIOUS
<1>1. sends' = sends + 1 /\ sends \in Nat /\ UNCHANGED <<wire, writer>>
  BY SocketConstants DEF Send, SendCall, TypeOK, connVars, loopVars
<1>2. sendCh \in Seq(Messages) /\ DOMAIN sendCh = 1..Len(sendCh) /\ Len(sendCh) \in Nat
      /\ writer.at = writer'.at /\ (Taken => writer.msg \in Messages)
  BY <1>1 DEF TypeOK, OrderInv, WriterHolds, Taken
<1>3. /\ \A k \in DOMAIN sendCh : sendCh[k][2] \in Nat
      /\ \A i \in DOMAIN wire : wire[i] \in Messages => wire[i][2] \in Nat
      /\ Taken => writer.msg[2] \in Nat
  BY <1>2, MessageIs
<1>4. CASE sendCh' = sendCh
  BY <1>1, <1>3, <1>4 DEF OrderInv, SentInOrder, WriterHolds, Taken
<1>5. CASE sendCh' = Append(sendCh, Message(sends'))
  <2> DEFINE n == Len(sendCh) + 1
  <2>1. DOMAIN sendCh' = 1..n /\ sendCh'[n] = Message(sends') /\ \A k \in DOMAIN sendCh : sendCh'[k] = sendCh[k]
    BY <1>2, <1>5
  <2>2. sendCh'[n][2] = sends + 1 /\ n \in Nat /\ \A k \in DOMAIN sendCh' : k \in DOMAIN sendCh \/ k = n
    BY <1>1, <1>2, <2>1 DEF Message
  <2>3. \A k \in DOMAIN sendCh : k < n
    BY <1>2
  <2> HIDE <1>5 DEF n
  <2>4. \A k \in DOMAIN sendCh' : sendCh'[k][2] <= sends'
    BY <1>1, <1>3, <2>1, <2>2 DEF OrderInv
  <2>5. \A k, l \in DOMAIN sendCh' : k < l => sendCh'[k][2] < sendCh'[l][2]
    <3> SUFFICES ASSUME NEW k \in DOMAIN sendCh', NEW l \in DOMAIN sendCh', k < l
                 PROVE  sendCh'[k][2] < sendCh'[l][2]
      OBVIOUS
    <3>1. k \in DOMAIN sendCh
      BY <1>2, <2>1, <2>2, <2>3
    <3>2. CASE l \in DOMAIN sendCh
      BY <2>1, <3>1, <3>2 DEF OrderInv
    <3>3. CASE l = n
      BY <1>1, <1>3, <2>1, <2>2, <3>1, <3>3 DEF OrderInv
    <3> QED BY <2>2, <3>2, <3>3
  <2>6. Taken' => writer'.msg[2] <= sends' /\ \A k \in DOMAIN sendCh' : writer'.msg[2] < sendCh'[k][2]
    BY <1>1, <1>3, <2>1, <2>2 DEF OrderInv, Taken
  <2>7. \A i \in DOMAIN wire' : wire'[i] \in Messages =>
          /\ wire'[i][2] <= sends'
          /\ Taken' => wire'[i][2] < writer'.msg[2]
          /\ \A k \in DOMAIN sendCh' : wire'[i][2] < sendCh'[k][2]
    BY <1>1, <1>3, <2>1, <2>2 DEF OrderInv, Taken
  <2>8. SentInOrder' /\ WriterHolds'
    BY <1>1 DEF OrderInv, SentInOrder, WriterHolds
  <2> QED BY <2>4, <2>5, <2>6, <2>7, <2>8 DEF OrderInv
<1> QED BY <1>4, <1>5 DEF Send

\* The write goroutine takes the first message of the queue.
LEMMA TakeOrder == TypeOK /\ OrderInv /\ WriterTakes => OrderInv'
<1> SUFFICES ASSUME TypeOK, OrderInv, WriterTakes PROVE OrderInv'
  OBVIOUS
<1>1. /\ UNCHANGED <<wire, sends>> /\ sendCh # <<>> /\ sendCh' = Tail(sendCh)
      /\ writer' = [at |-> "locking", msg |-> Head(sendCh)]
  BY DEF WriterTakes, WriterGoes
<1>2. sendCh \in Seq(Messages)
  BY DEF TypeOK
<1>3. /\ Head(sendCh) = sendCh[1] /\ 1 \in DOMAIN sendCh /\ Head(sendCh) \in Messages
      /\ \A k \in DOMAIN sendCh' : k + 1 \in DOMAIN sendCh /\ sendCh'[k] = sendCh[k + 1] /\ 1 < k + 1
      /\ \A k, l \in DOMAIN sendCh' : k < l => k + 1 < l + 1
  BY <1>1, <1>2
<1> DEFINE m == sendCh[1]
<1>4. writer'.msg = m /\ WriterHolds' /\ m \in Messages
  BY <1>1, <1>3 DEF WriterHolds
<1>5. \A k \in DOMAIN sendCh' : sendCh'[k][2] <= sends /\ m[2] < sendCh'[k][2]
  BY <1>3 DEF OrderInv
<1>6. \A k, l \in DOMAIN sendCh' : k < l => sendCh'[k][2] < sendCh'[l][2]
  BY <1>3 DEF OrderInv
<1>7. m[2] <= sends
  BY <1>3 DEF OrderInv
<1>8. \A i \in DOMAIN wire : wire[i] \in Messages =>
        /\ wire[i][2] <= sends /\ wire[i][2] < m[2]
        /\ \A k \in DOMAIN sendCh' : wire[i][2] < sendCh'[k][2]
  BY <1>3 DEF OrderInv
<1>9. SentInOrder'
  BY <1>1 DEF OrderInv, SentInOrder
<1> HIDE DEF m
<1> QED BY <1>1, <1>4, <1>5, <1>6, <1>7, <1>8, <1>9 DEF OrderInv, Taken

\* It writes what it has taken, after all that is on the wire.
LEMMA WriteOrder == TypeOK /\ OrderInv /\ WriterWrites => OrderInv'
<1> SUFFICES ASSUME TypeOK, OrderInv, WriterWrites PROVE OrderInv'
  OBVIOUS
<1> DEFINE m == writer.msg
<1>1. /\ UNCHANGED <<sendCh, sends>> /\ Taken /\ m \in Messages
      /\ writer' = [at |-> "writing", msg |-> Nobody]
      /\ wire' = Append(wire, m)
  BY DEF WriterWrites, WriteBegins, WriterGoes, OrderInv, WriterHolds, Taken
<1>2. /\ WriterHolds' /\ ~Taken'
      /\ \A k \in DOMAIN sendCh' : sendCh'[k][2] <= sends'
      /\ \A k, l \in DOMAIN sendCh' : k < l => sendCh'[k][2] < sendCh'[l][2]
  BY <1>1 DEF WriterHolds, Taken, OrderInv
<1>4. wire' = Append(wire, m)
  BY <1>1
<1>5. OrderInv'
  <2> DEFINE n == Len(wire) + 1
  <2>1. /\ DOMAIN wire' = 1..n /\ wire'[n] = m /\ \A i \in DOMAIN wire : wire'[i] = wire[i]
        /\ \A i \in DOMAIN wire' : i \in DOMAIN wire \/ i = n
        /\ \A i \in DOMAIN wire : i < n
        /\ \A i, j \in DOMAIN wire' : i < j => i \in DOMAIN wire
    BY <1>4 DEF TypeOK
  <2> HIDE <1>4 DEF n, m
  <2>2. /\ \A i \in DOMAIN wire : wire[i] \in Messages =>
             /\ wire[i][2] <= sends /\ wire[i][2] < m[2]
             /\ \A k \in DOMAIN sendCh : wire[i][2] < sendCh[k][2]
        /\ m[2] <= sends /\ \A k \in DOMAIN sendCh : m[2] < sendCh[k][2]
    BY <1>1 DEF OrderInv, m
  <2>3. SentInOrder'
    <3> SUFFICES ASSUME NEW i \in DOMAIN wire', NEW j \in DOMAIN wire', i < j,
                        wire'[i] \in Messages, wire'[j] \in Messages
                 PROVE  wire'[i][2] < wire'[j][2]
      BY DEF SentInOrder
    <3>1. i \in DOMAIN wire /\ wire'[i] = wire[i]
      BY <2>1
    <3>2. CASE j = n
      BY <2>1, <2>2, <3>1, <3>2
    <3>3. CASE j \in DOMAIN wire
      BY <2>1, <3>1, <3>3 DEF OrderInv, SentInOrder
    <3> QED BY <2>1, <3>2, <3>3
  <2>4. \A i \in DOMAIN wire' : wire'[i] \in Messages =>
             /\ wire'[i][2] <= sends'
             /\ \A k \in DOMAIN sendCh' : wire'[i][2] < sendCh'[k][2]
    BY <1>1, <2>1, <2>2
  <2> QED BY <1>2, <2>3, <2>4 DEF OrderInv
<1> QED BY <1>5

\* It has nothing in its hands any more, or never had.
LEMMA IdleWriter ==
  ASSUME OrderInv, UNCHANGED <<wire, sends, sendCh>>, writer' = writer \/ writer'.at # "locking"
  PROVE  OrderInv'
<1>1. Taken' => Taken /\ writer' = writer
  BY DEF Taken
<1>2. WriterHolds'
  BY <1>1 DEF OrderInv, WriterHolds, Taken
<1> QED BY <1>1, <1>2 DEF OrderInv, SentInOrder

\* No step lets a message overtake another one.
LEMMA OrderStep == TypeOK /\ OrderInv /\ [Next]_vars => OrderInv'
<1> SUFFICES ASSUME TypeOK, OrderInv, [Next]_vars PROVE OrderInv'
  OBVIOUS
<1>1. CASE Send
  BY <1>1, SendOrder
<1>2. CASE SendClose \/ ReadPing \/ ReadClose \/ CloseWritten \/ PongWritten \/ EchoWritten
  <2>1. UNCHANGED <<sends, sendCh, writer>>
    BY <1>2 DEF SendClose, ReadPing, ReadClose, CloseWritten, PongWritten, EchoWritten, ReaderGoes,
                sendVars, loopVars
  <2>2. PICK f \in {Plain("close"), Plain("pong")} : wire' = wire \/ wire' = Append(wire, f)
    BY <1>2 DEF SendClose, ReadPing, ReadClose, CloseWritten, PongWritten, EchoWritten,
                WriteBegins, WriteRefused, WriteEnds
  <2>3. f \in Frames \ Messages
    BY <2>2, KindsOfFrames
  <2> QED BY <2>1, <2>2, <2>3, PlainFrames
<1>3. CASE WriterTakes
  BY <1>3, TakeOrder
<1>4. CASE WriterWrites
  BY <1>4, WriteOrder
<1>5. CASE StartWSBridge \/ WriterStops \/ WriterRefused \/ WriterWritten
  <2>1. UNCHANGED <<wire, sends, sendCh>>
    BY <1>5 DEF StartWSBridge, WriterStops, WriterRefused, WriterWritten, WriteRefused, WriteEnds, WriterGoes, sendVars
  <2>2. writer'.at # "locking"
    BY <1>5 DEF StartWSBridge, WriterStops, WriterRefused, WriterWritten, WriterGoes, TypeOK
  <2> QED BY <2>1, <2>2, IdleWriter
<1>6. ASSUME UNCHANGED <<wire, sends, sendCh, writer>> PROVE OrderInv'
  BY <1>6, IdleWriter
<1>7. ASSUME NEW d \in Drains, ScriptStarts(d) \/ Callback(d) PROVE OrderInv'
  BY <1>6, <1>7 DEF ScriptStarts, Callback, TakeEvent, OnOpen, OnMessage, OnError, OnClose,
     OnEvent, NoReceiver, RunCallback, connVars, sendVars, loopVars
<1>8. CASE JsEnds \/ Register \/ RegisterReceiver \/ Close \/ CloseMarks
  BY <1>6, <1>8 DEF JsEnds, Register, RegisterReceiver, Close, CloseMarks, connVars, sendVars, loopVars
<1>9. CASE ReadMessage \/ ReadCloseMarks \/ ReadFails
  BY <1>6, <1>9 DEF ReadMessage, ReadCloseMarks, ReadFails, ReaderGoes, connVars, sendVars
<1>10. CASE Terminate
  BY <1>6, <1>10 DEF Terminate, CloseRaw, AwaitLoop, TerminateGoes, sendVars
<1>11. CASE Dispose
  BY <1>6, <1>11 DEF Dispose, DisposeFlip, DisposeAll, DisposeAwaits, StopAll, DisposeGoes,
                     connVars, sendVars
<1>12. CASE UNCHANGED vars
  BY <1>6, <1>12 DEF vars, connVars, sendVars, loopVars
<1> QED BY <1>1, <1>2, <1>3, <1>4, <1>5, <1>7, <1>8, <1>9, <1>10, <1>11, <1>12
        DEF Next, JavaScript, ReadLoop, WriteLoop, WriteReturns

\* The inductive invariant of a WebSocket.
SocketInv == TypeOK /\ CloseInv /\ OrderInv

\* It holds initially, and every step keeps it.
LEMMA SocketInvHolds == Spec => []SocketInv
<1>1. Init => SocketInv
  <2> SUFFICES ASSUME Init PROVE SocketInv
    OBVIOUS
  <2> USE SocketConstants DEF Init
  <2>1. NoEvent \in [event : Events \cup {Nobody}, idSet : BOOLEAN]
    BY DEF NoEvent
  <2>2. hand \in [Drains -> [event : Events \cup {Nobody}, idSet : BOOLEAN]]
    BY <2>1
  <2>3. writer \in [at : {"none", "select", "locking", "writing", "exited"},
                    msg : Messages \cup {Nobody}]
    OBVIOUS
  <2>4. TypeOK
    <3>1. /\ pending \subseteq Events /\ seen \in Seq(Sightings) /\ wire \in Seq(Frames)
          /\ sendCh \in Seq(Messages) /\ Len(sendCh) <= SendCap
          /\ sends \in 0..SendBound /\ received \in 0..MsgBound /\ readyState \in 0..3
      OBVIOUS
    <3> QED BY <2>2, <2>3, <3>1 DEF TypeOK
  <2>5. CloseInv
    BY DEF CloseInv, CloseAtTheEnd, NoCloseYet
  <2>6. OrderInv
    BY DEF OrderInv, SentInOrder, WriterHolds, Taken
  <2> QED BY <2>4, <2>5, <2>6 DEF SocketInv
<1>2. SocketInv /\ [Next]_vars => SocketInv'
  BY SocketTypes, CloseStep, OrderStep DEF SocketInv, OrderInv
<1> QED BY <1>1, <1>2, PTL DEF Spec

\* A close event whose handler returns is the last that JavaScript sees, and the WebSocket
\* stays CLOSED, for any number of evaluations and messages, whoever closes and whatever is
\* in flight, and whichever handlers have thrown before.
THEOREM CloseComesLast == Spec => []CloseIsLast
<1>1. SocketInv => CloseIsLast
  <2> SUFFICES ASSUME SocketInv, NEW i \in DOMAIN seen, seen[i] = Plain("close")
               PROVE  i = Len(seen) /\ readyState = 3
    BY DEF CloseIsLast
  <2>1. ~NoCloseYet /\ seen # <<>>
    BY DEF NoCloseYet
  <2> QED BY <2>1 DEF SocketInv, CloseInv, CloseAtTheEnd
<1> QED BY <1>1, SocketInvHolds, PTL

\* Messages reach the wire in the order of the calls of send(), each at most once, for
\* every capacity of the queue and any number of calls.
THEOREM MessagesKeepTheirOrder == Spec => []SentInOrder
<1>1. SocketInv => SentInOrder
  BY DEF SocketInv, OrderInv
<1> QED BY <1>1, SocketInvHolds, PTL

-----------------------------------------------------------------------------
(* Nobody gets stuck. *)

\* Who holds the lock of the connection is inside raw.Write; a connection that was closed, by its
\* reader or by terminate, has no raw connection; who runs or has run is known from how far
\* construction, termination and Dispose are.
StuckInv ==
  /\ mu # Nobody => InWrite
  /\ stop <=> term # "no"
  /\ stop \/ js \in {"sendClose", "closing", "markClosed"} => conn \notin {"none", "dialed"}
  /\ inReg => conn \notin {"none", "dialed"}
  /\ conn = "none" <=> reader = "none"
  /\ conn = "none" <=> writer.at = "none"
  /\ reader = "eof" => ~rawOpen
  /\ term \in {"await", "terminated"} => ~rawOpen
  /\ disposed <=> dispose # "no"
  /\ dispose = "await" => stop
  /\ (js = "create" => conn = "dialed") /\ (js = "register" => conn = "registered")

\* What no part of the invariant speaks of.
StuckVars == <<mu, writer, stop, term, js, conn, inReg, reader, rawOpen, disposed, dispose>>

\* No step leaves the lock with nobody who writes, or a connection open behind terminate.
LEMMA StuckStep == TypeOK /\ StuckInv /\ [Next]_vars => StuckInv'
<1> SUFFICES ASSUME TypeOK, StuckInv, [Next]_vars PROVE StuckInv'
  OBVIOUS
<1>0. /\ js \in {"out", "run", "create", "register", "sendClose", "closing", "markClosed"}
      /\ js = "out" <=> locker = Nobody
      /\ conn \in {"none", "dialed", "registered", "ready"}
      /\ reader \in {"none", "reading", "ponging", "echoing", "echoed", "eof", "exited"}
      /\ writer.at \in {"none", "select", "locking", "writing", "exited"}
      /\ writer = [at |-> writer.at, msg |-> writer.msg]
      /\ term \in {"no", "closeRaw", "await", "terminated"}
      /\ dispose \in {"no", "flipped", "await", "stopAll", "finished"}
  BY DEF TypeOK
<1>1. ASSUME js # "closing", js' \in {"run", "out"},
             UNCHANGED <<mu, writer, stop, term, conn, inReg, reader, rawOpen, disposed, dispose>>
      PROVE  StuckInv'
  BY <1>1 DEF StuckInv, InWrite
<1>2. CASE \/ \E d \in Drains : ScriptStarts(d) \/ OnOpen(d) \/ OnMessage(d) \/ OnError(d)
                                \/ OnClose(d) \/ NoReceiver(d)
           \/ JsEnds
  BY <1>0, <1>1, <1>2 DEF ScriptStarts, OnOpen, OnMessage, OnError, OnClose, OnEvent, NoReceiver,
       RunCallback, JsEnds, objectVars, dispVars, connVars, sendVars, loopVars
<1>3. ASSUME UNCHANGED StuckVars PROVE StuckInv'
  BY <1>3 DEF StuckInv, StuckVars, InWrite
<1>4. CASE \/ \E d \in Drains : \E e \in Events : TakeEvent(d, e)
           \/ Send \/ ReadMessage \/ UNCHANGED vars
  BY <1>3, <1>4 DEF TakeEvent, Send, SendCall, ReadMessage, ReaderGoes, StuckVars, vars,
       jsVars, objectVars, dispVars, connVars, sendVars, loopVars
<1>5. CASE StartWSBridge
  <2>1. /\ conn = "none" /\ conn' = "dialed" /\ reader' = "reading" /\ js = "run" /\ js' = "create"
        /\ writer'.at = "select"
        /\ UNCHANGED <<mu, stop, term, inReg, disposed, dispose>>
    BY <1>0, <1>5 DEF StartWSBridge, JsMoves, dispVars
  <2> QED BY <1>0, <2>1 DEF StuckInv, InWrite
<1>6. CASE Register \/ RegisterReceiver
  <2>1. /\ UNCHANGED <<mu, writer, stop, term, reader, rawOpen, disposed, dispose>>
        /\ \/ js = "create" /\ js' = "register" /\ conn' = "registered" /\ inReg'
           \/ js = "register" /\ js' = "run" /\ conn' = "ready" /\ inReg' = inReg
    BY <1>6 DEF Register, RegisterReceiver, JsMoves, objectVars, dispVars, connVars, loopVars
  <2> QED BY <1>0, <2>1 DEF StuckInv, InWrite
<1>a. CASE SendClose \/ CloseWritten
  <2>1. /\ UNCHANGED <<writer, stop, term, reader, rawOpen, disposed, dispose, conn, inReg>>
        /\ \/ js = "sendClose" /\ js' = "closing"
           \/ js = "sendClose" /\ js' = "markClosed" /\ mu' = Nobody
           \/ js = "closing" /\ js' = "markClosed" /\ mu' = Nobody
    BY <1>a DEF SendClose, CloseWritten, JsMoves, WriteRefused, WriteEnds, objectVars, dispVars, loopVars
  <2> QED BY <2>1 DEF StuckInv, InWrite
<1>7. CASE Close
  <2>1. /\ conn = "ready" /\ js = "run" /\ js' \in {"run", "sendClose"}
        /\ UNCHANGED <<mu, writer, stop, term, conn, inReg, reader, rawOpen, disposed, dispose>>
    BY <1>7 DEF Close, JsMoves, dispVars, connVars, loopVars
  <2> QED BY <2>1 DEF StuckInv, InWrite
<1>8. CASE CloseMarks
  <2>1. /\ js = "markClosed" /\ js' = "run" /\ ~rawOpen' /\ ~inReg'
        /\ stop' /\ term' # "no"
        /\ UNCHANGED <<mu, conn, disposed, dispose, reader, writer>>
    BY <1>0, <1>8 DEF CloseMarks, JsMoves, MarkClosed, TerminateBegins, dispVars, StuckInv
  <2> QED BY <2>1 DEF StuckInv, InWrite
<1>b. CASE ReadPing \/ ReadClose \/ PongWritten \/ EchoWritten
  <2>1. /\ UNCHANGED <<writer, stop, term, js, conn, inReg, rawOpen, disposed, dispose>>
        /\ \/ reader = "reading" /\ reader' \in {"ponging", "echoing"}
           \/ /\ reader \in {"reading", "ponging", "echoing"} /\ reader' \in {"reading", "echoed"}
              /\ mu' = Nobody
    BY <1>b DEF ReadPing, ReadClose, PongWritten, EchoWritten, ReaderGoes, WriteRefused, WriteEnds,
         jsVars, objectVars, dispVars
  <2> QED BY <2>1 DEF StuckInv, InWrite
<1>9. CASE ReadCloseMarks \/ ReadFails
  <2>1. /\ reader \in {"reading", "echoed", "eof"} /\ reader' \in {"eof", "exited"}
        /\ reader' = "eof" => ~rawOpen'
        /\ rawOpen' => rawOpen
        /\ UNCHANGED <<mu, writer, stop, term, js, conn, inReg, disposed, dispose>>
    BY <1>9 DEF ReadCloseMarks, ReadFails, ReaderGoes, MarkClosed, jsVars, objectVars,
         dispVars, connVars
  <2> QED BY <2>1 DEF StuckInv, InWrite
<1>10. CASE WriteLoop \/ WriterWritten
  <2>1. /\ writer.at # "none" /\ writer'.at # "none"
        /\ UNCHANGED <<stop, term, js, conn, inReg, reader, rawOpen, disposed, dispose>>
        /\ \/ mu' = mu /\ writer.at # "writing"
           \/ mu' = Nobody
           \/ writer'.at = "writing"
    BY <1>0, <1>10 DEF WriteLoop, WriterWritten, WriterStops, WriterTakes, WriterWrites, WriteEnds,
         WriterRefused, WriteRefused, WriterGoes, jsVars, objectVars, dispVars
  <2> QED BY <2>1 DEF StuckInv, InWrite
<1>11. CASE Terminate
  <2>1. /\ term \in {"closeRaw", "await"} /\ term' \in {"await", "terminated"} /\ ~rawOpen'
        /\ UNCHANGED <<mu, stop, js, conn, inReg, reader, writer, disposed, dispose>>
    BY <1>11 DEF Terminate, CloseRaw, AwaitLoop, TerminateGoes, MarkClosed, StuckInv, jsVars,
         objectVars, dispVars
  <2> QED BY <2>1 DEF StuckInv, InWrite
<1>12. CASE DisposeFlip \/ DisposeAwaits \/ StopAll
  <2>1. /\ disposed' /\ dispose' \in {"flipped", "stopAll", "finished"}
        /\ UNCHANGED <<mu, writer, stop, term, js, conn, inReg, reader, rawOpen>>
    BY <1>12 DEF DisposeFlip, DisposeAwaits, StopAll, DisposeGoes, StuckInv, jsVars, connVars
  <2> QED BY <2>1 DEF StuckInv, InWrite
<1>13. CASE DisposeAll
  <2>1. /\ disposed' /\ disposed /\ dispose' \in {"await", "stopAll"} /\ ~inReg'
        /\ dispose' = "await" => inReg
        /\ IF inReg THEN TerminateBegins ELSE UNCHANGED <<term, stop>>
        /\ UNCHANGED <<mu, writer, js, conn, reader, rawOpen>>
    BY <1>13 DEF DisposeAll, DisposeGoes, StuckInv, jsVars, connVars
  <2>2. /\ stop => stop' /\ term' = term
        /\ inReg => stop'
        /\ stop' <=> term' # "no"
        /\ term' \in {term, "closeRaw"}
        /\ stop' => stop \/ inReg
    BY <2>1 DEF TerminateBegins, StuckInv
  <2> QED BY <2>1, <2>2 DEF StuckInv, InWrite
<1> QED BY <1>2, <1>4, <1>5, <1>6, <1>a, <1>7, <1>8, <1>b, <1>9, <1>10, <1>11, <1>12, <1>13
        DEF Next, JavaScript, Callback, ReadLoop, WriteReturns, Dispose

\* It holds initially.
LEMMA InitStuck == Init => StuckInv
BY SocketConstants DEF Init, StuckInv, InWrite

\* A bridge that was told to stop, and Dispose, wait for nothing without a bound but a
\* raw.Write: by the invariant, the lock of the connection is free or its holder is inside one.
THEOREM SomebodyAlwaysCanMove == Spec => []SomebodyCanMove
<1>1. TypeOK /\ StuckInv => SomebodyCanMove
  <2> SUFFICES ASSUME TypeOK, StuckInv PROVE SomebodyCanMove
    OBVIOUS
  <2>1. /\ reader \in {"none", "reading", "ponging", "echoing", "echoed", "eof", "exited"}
        /\ writer.at \in {"none", "select", "locking", "writing", "exited"}
        /\ term \in {"no", "closeRaw", "await", "terminated"}
        /\ dispose \in {"no", "flipped", "await", "stopAll", "finished"}
    BY DEF TypeOK
  <2>2. ASSUME stop, ~BridgeCanMove, ~InWrite
        PROVE  reader = "exited" /\ writer.at = "exited" /\ term = "terminated"
    <3>1. mu = Nobody
      BY <2>2 DEF StuckInv
    <3>2. term = "terminated" /\ ~rawOpen
      BY <2>1, <2>2, <3>1 DEF StuckInv, BridgeCanMove
    <3>3. reader = "exited"
      BY <2>1, <2>2, <3>1, <3>2 DEF StuckInv, BridgeCanMove, InWrite
    <3>4. writer.at = "exited"
      BY <2>1, <2>2, <3>1 DEF StuckInv, BridgeCanMove, InWrite
    <3> QED BY <3>2, <3>3, <3>4
  <2>3. ASSUME disposed, dispose # "finished", ~DisposeCanMove PROVE BridgeCanMove \/ InWrite
    <3>1. dispose = "await" /\ stop /\ term # "terminated"
      BY <2>1, <2>3 DEF StuckInv, DisposeCanMove
    <3> QED BY <2>2, <3>1
  <2> QED BY <2>2, <2>3 DEF SomebodyCanMove
<1> QED BY <1>1, InitStuck, StuckStep, SocketInvHolds, PTL DEF Spec, SocketInv

-----------------------------------------------------------------------------
(* The goroutines wind down. *)

\* What is left to be done by the parts of a bridge: the steps of the write goroutine, three
\* for each message that waits, of the read goroutine, of terminate, of a close() under
\* way and of Dispose.
WriterWork ==
  3 * Len(sendCh) + (CASE writer.at = "locking" -> 3 [] writer.at = "writing" -> 2
                       [] writer.at = "select" -> 1 [] OTHER -> 0)
ReaderWork == CASE reader \in {"reading", "ponging", "echoing"} -> 3 [] reader = "echoed" -> 2
                [] reader = "eof" -> 1 [] OTHER -> 0
TermWork == CASE term = "closeRaw" -> 2 [] term = "await" -> 1 [] OTHER -> 0
CloseWork == CASE js = "sendClose" -> 3 [] js = "closing" -> 2 [] js = "markClosed" -> 1 [] OTHER -> 0
DisposeWork == CASE dispose = "no" -> 4 [] dispose = "flipped" -> 3 [] dispose = "await" -> 2
                 [] dispose = "stopAll" -> 1 [] OTHER -> 0

Work == WriterWork + ReaderWork + TermWork + CloseWork + DisposeWork

\* A bridge that was told to stop is no longer in the registry: nothing is queued for it.
StoppedInv == stop => ~inReg

\* They are numbers.
NumbersLeft ==
  /\ WriterWork \in Nat /\ ReaderWork \in Nat /\ TermWork \in Nat
  /\ CloseWork \in Nat /\ DisposeWork \in Nat

LEMMA WorkTypes == TypeOK => NumbersLeft
<1> SUFFICES ASSUME TypeOK PROVE NumbersLeft
  OBVIOUS
<1>1. Len(sendCh) \in Nat
  BY DEF TypeOK
<1>2. WriterWork \in Nat
  <2>1. \/ WriterWork = 3 * Len(sendCh) + 3 \/ WriterWork = 3 * Len(sendCh) + 2
        \/ WriterWork = 3 * Len(sendCh) + 1 \/ WriterWork = 3 * Len(sendCh) + 0
    BY <1>1 DEF WriterWork
  <2> QED BY <1>1, <2>1
<1> QED BY <1>2 DEF NumbersLeft, ReaderWork, TermWork, CloseWork, DisposeWork

LEMMA WorkTypesNext == TypeOK' => NumbersLeft'
BY WorkTypes, PTL

\* Each part of BridgeProgress, and Dispose, moves what it is named for.
LEMMA Moves ==
  /\ ReadCloseMarks \/ ReadFails => reader' # reader
  /\ WriteLoop \/ WriterWritten =>
       \/ writer.at = "select" /\ writer'.at \in {"exited", "locking"}
       \/ writer.at = "locking" /\ writer'.at \in {"writing", "select"}
       \/ writer.at = "writing" /\ writer'.at = "select"
  /\ Terminate => (term = "closeRaw" /\ term' = "await") \/ (term = "await" /\ term' = "terminated")
  /\ Dispose => \/ dispose = "no" /\ dispose' = "flipped"
                \/ dispose = "flipped" /\ dispose' \in {"await", "stopAll"}
                \/ dispose = "await" /\ dispose' = "stopAll"
                \/ dispose = "stopAll" /\ dispose' = "finished"
  /\ SendClose => js = "sendClose" /\ js' \in {"closing", "markClosed"}
  /\ CloseMarks => js = "markClosed" /\ js' = "run"
<1>1. ReadCloseMarks \/ ReadFails => reader' # reader
  BY DEF ReadCloseMarks, ReadFails, ReaderGoes
<1>2. WriteLoop \/ WriterWritten =>
       \/ writer.at = "select" /\ writer'.at \in {"exited", "locking"}
       \/ writer.at = "locking" /\ writer'.at \in {"writing", "select"}
       \/ writer.at = "writing" /\ writer'.at = "select"
  BY DEF WriteLoop, WriterWritten, WriterStops, WriterTakes, WriterWrites, WriterRefused, WriterGoes
<1>3. Terminate => (term = "closeRaw" /\ term' = "await") \/ (term = "await" /\ term' = "terminated")
  BY DEF Terminate, CloseRaw, AwaitLoop, TerminateGoes
<1>4. Dispose =>
                \/ dispose = "no" /\ dispose' = "flipped"
                \/ dispose = "flipped" /\ dispose' \in {"await", "stopAll"}
                \/ dispose = "await" /\ dispose' = "stopAll"
                \/ dispose = "stopAll" /\ dispose' = "finished"
  <2>1. DisposeAll => dispose = "flipped" /\ dispose' \in {"await", "stopAll"}
    BY DEF DisposeAll, DisposeGoes
  <2>2. DisposeFlip => dispose = "no" /\ dispose' = "flipped"
    BY DEF DisposeFlip, DisposeGoes
  <2>3. DisposeAwaits => dispose = "await" /\ dispose' = "stopAll"
    BY DEF DisposeAwaits, DisposeGoes
  <2>4. StopAll => dispose = "stopAll" /\ dispose' = "finished"
    BY DEF StopAll, DisposeGoes
  <2> QED BY <2>1, <2>2, <2>3, <2>4 DEF Dispose
<1>5. /\ SendClose => js = "sendClose" /\ js' \in {"closing", "markClosed"}
      /\ CloseMarks => js = "markClosed" /\ js' = "run"
  BY DEF SendClose, CloseMarks, JsMoves
<1> QED BY <1>1, <1>2, <1>3, <1>4, <1>5

\* Nothing that moves stays as it is.
LEMMA WhoMoves ==
  /\ UNCHANGED reader => ~(ReadCloseMarks \/ ReadFails)
  /\ UNCHANGED writer => ~(WriteLoop \/ WriterWritten)
  /\ UNCHANGED term => ~Terminate
  /\ UNCHANGED dispose => ~Dispose
  /\ UNCHANGED js => ~(SendClose \/ CloseMarks)
BY Moves

\* Less of one part and not more of any other is less in all.
LEMMA LessWork ==
  ASSUME TypeOK, TypeOK',
         WriterWork' <= WriterWork, ReaderWork' <= ReaderWork, TermWork' <= TermWork,
         CloseWork' <= CloseWork, DisposeWork' <= DisposeWork
  PROVE  /\ Work' <= Work
         /\ \/ WriterWork' < WriterWork \/ ReaderWork' < ReaderWork \/ TermWork' < TermWork
            \/ CloseWork' < CloseWork \/ DisposeWork' < DisposeWork
            => Work' < Work
<1>1. /\ WriterWork \in Nat /\ ReaderWork \in Nat /\ TermWork \in Nat
      /\ CloseWork \in Nat /\ DisposeWork \in Nat
  BY WorkTypes DEF NumbersLeft
<1>2. /\ WriterWork' \in Nat /\ ReaderWork' \in Nat /\ TermWork' \in Nat
      /\ CloseWork' \in Nat /\ DisposeWork' \in Nat
  BY WorkTypesNext DEF NumbersLeft
<1>3. /\ Work = WriterWork + ReaderWork + TermWork + CloseWork + DisposeWork
      /\ Work' = WriterWork' + ReaderWork' + TermWork' + CloseWork' + DisposeWork'
  BY DEF Work
<1>4. \A a, b, c, d, e, p, q, r, s, t \in Nat :
        p <= a /\ q <= b /\ r <= c /\ s <= d /\ t <= e =>
          /\ p + q + r + s + t <= a + b + c + d + e
          /\ p < a \/ q < b \/ r < c \/ s < d \/ t < e => p + q + r + s + t < a + b + c + d + e
  OBVIOUS
<1> QED BY <1>1, <1>2, <1>3, <1>4

\* What a step of the write goroutine does to its work.
LEMMA WriterWorks ==
  ASSUME TypeOK, TypeOK', WriteLoop \/ WriterWritten
  PROVE  WriterWork' < WriterWork
<1> DEFINE n == Len(sendCh)
<1>1. n \in Nat /\ Len(sendCh)' \in Nat
  BY DEF TypeOK
<1>2. CASE WriterTakes
  <2>1. Len(sendCh)' = n - 1 /\ n >= 1
    <3>1. sendCh # <<>> /\ sendCh' = Tail(sendCh) /\ sendCh \in Seq(Messages)
      BY <1>2 DEF WriterTakes, TypeOK
    <3> QED BY <3>1
  <2>2. writer.at = "select" /\ writer'.at = "locking"
    BY <1>2 DEF WriterTakes, WriterGoes
  <2> QED BY <1>1, <2>1, <2>2 DEF WriterWork
<1>3. CASE WriterStops \/ WriterWrites \/ WriterRefused \/ WriterWritten
  <2>1. sendCh' = sendCh
    BY <1>3 DEF WriterStops, WriterWrites, WriterRefused, WriterWritten, WriteRefused, WriteEnds
  <2>2. \/ writer.at = "select" /\ writer'.at = "exited"
        \/ writer.at = "locking" /\ writer'.at \in {"writing", "select"}
        \/ writer.at = "writing" /\ writer'.at = "select"
    BY <1>3 DEF WriterStops, WriterWrites, WriterRefused, WriterWritten, WriteRefused, WriteEnds, WriterGoes
  <2> QED BY <1>1, <2>1, <2>2 DEF WriterWork
<1> QED BY <1>2, <1>3 DEF WriteLoop

\* The step of the theorem below.
LEMMA WindDownStep ==
  ASSUME TypeOK, TypeOK', StuckInv, StoppedInv, [Next]_vars, stop
  PROVE  Work' <= Work /\ (BridgeProgress \/ Dispose => Work' < Work)
<1> DEFINE ws == <<sendCh, writer>>
<1>0. /\ term # "no" /\ conn \notin {"none", "dialed"} /\ ~inReg
      /\ js \in {"out", "run", "create", "register", "sendClose", "closing", "markClosed"}
      /\ writer.at # "none"
  BY DEF StuckInv, StoppedInv, TypeOK
<1>a. /\ WriterWork \in Nat /\ ReaderWork \in Nat /\ TermWork \in Nat
      /\ CloseWork \in Nat /\ DisposeWork \in Nat
  BY WorkTypes DEF NumbersLeft
<1>1. ASSUME UNCHANGED ws PROVE WriterWork' <= WriterWork
  BY <1>1, <1>a DEF WriterWork
<1>2. ASSUME UNCHANGED reader PROVE ReaderWork' <= ReaderWork
  BY <1>2, <1>a DEF ReaderWork
<1>3. ASSUME UNCHANGED term PROVE TermWork' <= TermWork
  BY <1>3, <1>a DEF TermWork
<1>4. ASSUME UNCHANGED dispose PROVE DisposeWork' <= DisposeWork
  BY <1>4, <1>a DEF DisposeWork
<1>5. ASSUME UNCHANGED js PROVE CloseWork' <= CloseWork
  BY <1>5, <1>a DEF CloseWork
<1>6. CASE JavaScript \/ CloseWritten \/ \E d \in Drains : Callback(d)
  <2>1. UNCHANGED <<reader, term, dispose, sendCh, writer>>
    BY <1>0, <1>6 DEF JavaScript, Callback, ScriptStarts, JsEnds, StartWSBridge, Register,
         RegisterReceiver, Send, SendCall, Close, SendClose, CloseWritten, CloseMarks, TakeEvent, OnOpen,
         OnMessage, OnError, OnClose, OnEvent, NoReceiver, RunCallback, TerminateBegins, dispVars, sendVars,
         loopVars
  <2>2. CloseWork' <= CloseWork
    <3>1. \/ js' = js \/ js' \in {"out", "run", "create", "register"}
          \/ js = "sendClose" /\ js' \in {"closing", "markClosed"}
          \/ js = "closing" /\ js' = "markClosed"
      BY <1>0, <1>6 DEF JavaScript, Callback, ScriptStarts, JsEnds, StartWSBridge, Register,
           RegisterReceiver, Send, Close, SendClose, CloseWritten, CloseMarks, TakeEvent, OnOpen, OnMessage,
           OnError, OnClose, OnEvent, NoReceiver, RunCallback, JsMoves, jsVars
    <3> QED BY <3>1, <1>0 DEF CloseWork
  <2>3. SendClose \/ CloseMarks => CloseWork' < CloseWork
    BY DEF SendClose, CloseMarks, JsMoves, CloseWork
  <2>4. ~(ReadCloseMarks \/ ReadFails \/ WriteLoop \/ WriterWritten \/ Terminate \/ Dispose)
    BY <2>1, WhoMoves
  <2> QED BY <1>1, <1>2, <1>3, <1>4, <2>1, <2>2, <2>3, <2>4, LessWork DEF BridgeProgress
<1>7. CASE ReadLoop \/ PongWritten \/ EchoWritten
  <2>1. UNCHANGED <<term, dispose, sendCh, writer, js>>
    BY <1>7 DEF ReadLoop, ReadMessage, ReadPing, ReadClose, ReadCloseMarks, ReadFails, ReaderGoes,
         PongWritten, EchoWritten,
         jsVars, dispVars, sendVars
  <2>2. \/ reader' = reader
        \/ reader \in {"reading", "ponging"} /\ reader' \in {"reading", "ponging", "echoing"}
        \/ reader \in {"reading", "echoing"} /\ reader' \in {"echoed", "exited"}
        \/ reader = "echoed" /\ reader' = "eof"
        \/ reader = "eof" /\ reader' = "exited"
    BY <1>7 DEF ReadLoop, ReadMessage, ReadPing, ReadClose, ReadCloseMarks, ReadFails, ReaderGoes,
         PongWritten, EchoWritten
  <2>4. ReaderWork' <= ReaderWork
    BY <1>2, <2>2 DEF ReaderWork
  <2>3. ReadCloseMarks \/ ReadFails => ReaderWork' < ReaderWork
    <3>1. ReadCloseMarks \/ ReadFails =>
            \/ reader = "echoed" /\ reader' = "eof"
            \/ reader \in {"reading", "eof"} /\ reader' = "exited"
      BY DEF ReadCloseMarks, ReadFails, ReaderGoes
    <3> QED BY <3>1 DEF ReaderWork
  <2>5. ~(SendClose \/ CloseMarks \/ WriteLoop \/ Terminate \/ Dispose)
    BY <2>1, WhoMoves
  <2> QED BY <1>1, <1>3, <1>4, <1>5, <2>1, <2>3, <2>4, <2>5, LessWork DEF BridgeProgress
<1>8. CASE WriteLoop \/ WriterWritten
  <2>1. UNCHANGED <<term, dispose, reader, js>>
    BY <1>8 DEF WriteLoop, WriterWritten, WriterStops, WriterTakes, WriterWrites, WriterRefused,
         WriterGoes, jsVars, dispVars
  <2>2. WriterWork' < WriterWork
    BY <1>8, WriterWorks
  <2>3. WriterWork' \in Nat
    BY WorkTypesNext DEF NumbersLeft
  <2> QED BY <1>a, <1>2, <1>3, <1>4, <1>5, <2>1, <2>2, <2>3, LessWork
<1>9. CASE Terminate
  <2>1. UNCHANGED <<dispose, reader, js, sendCh, writer>>
    BY <1>9 DEF Terminate, CloseRaw, AwaitLoop, TerminateGoes, jsVars, dispVars, sendVars
  <2>2. TermWork' < TermWork /\ TermWork' <= TermWork
    BY <1>9, Moves DEF TermWork
  <2> QED BY <1>1, <1>2, <1>4, <1>5, <2>1, <2>2, LessWork
<1>10. CASE Dispose
  <2>1. UNCHANGED <<reader, js, sendCh, writer, term>>
    BY <1>0, <1>10 DEF Dispose, DisposeFlip, DisposeAll, DisposeAwaits, StopAll, DisposeGoes, jsVars,
         sendVars, TerminateBegins
  <2>2. DisposeWork' < DisposeWork /\ DisposeWork' <= DisposeWork
    BY <1>10, Moves DEF DisposeWork
  <2> QED BY <1>1, <1>2, <1>3, <1>5, <2>1, <2>2, LessWork
<1>11. CASE UNCHANGED vars
  <2>1. UNCHANGED <<dispose, reader, js, sendCh, writer, term>>
    BY <1>11 DEF vars, jsVars, dispVars, sendVars, loopVars
  <2>2. ~(BridgeProgress \/ Dispose)
    BY <2>1, WhoMoves DEF BridgeProgress
  <2> QED BY <1>1, <1>2, <1>3, <1>4, <1>5, <2>1, <2>2, LessWork
<1> QED BY <1>6, <1>7, <1>8, <1>9, <1>10, <1>11 DEF Next, WriteReturns

\* websocket.go: a bridge that was told to stop winds down.  Whatever else happens, no step
\* gives its parts more to do, and each step of its goroutines, of terminate, of a close()
\* under way and of Dispose leaves them less: there are at most Work more of them, and with
\* SomebodyAlwaysCanMove one of them is possible until all have ended, unless one of them is
\* inside raw.Write.
THEOREM BridgeWindsDown ==
  Spec => [][stop => Work' <= Work /\ (BridgeProgress \/ Dispose => Work' < Work)]_vars
<1>1. Init => StoppedInv
  BY DEF Init, StoppedInv
<1>2. StuckInv /\ StoppedInv /\ TypeOK /\ [Next]_vars => StoppedInv'
  <2> SUFFICES ASSUME StuckInv, StoppedInv, TypeOK, [Next]_vars PROVE StoppedInv'
    OBVIOUS
  <2>1. CASE Register
    BY <2>1 DEF Register, JsMoves, StuckInv, StoppedInv, loopVars
  <2>2. CASE CloseMarks \/ DisposeAll
    BY <2>2 DEF CloseMarks, DisposeAll, StoppedInv
  <2>3. ASSUME UNCHANGED <<stop, inReg>> PROVE StoppedInv'
    BY <2>3 DEF StoppedInv
  <2>4. CASE \/ \E d \in Drains : ScriptStarts(d) \/ Callback(d)
             \/ JsEnds \/ StartWSBridge \/ RegisterReceiver \/ Send \/ Close \/ SendClose
             \/ UNCHANGED vars
    BY <2>3, <2>4 DEF Callback, ScriptStarts, JsEnds, StartWSBridge, RegisterReceiver, Send, Close,
         SendClose, TakeEvent, OnOpen, OnMessage, OnError, OnClose, OnEvent, NoReceiver, RunCallback,
         objectVars, loopVars, vars
  <2>5. CASE ReadLoop \/ WriteLoop \/ WriteReturns \/ Terminate
    BY <2>3, <2>5 DEF ReadLoop, ReadMessage, ReadPing, ReadClose, ReadCloseMarks, ReadFails,
         ReaderGoes, WriteLoop, WriteReturns, CloseWritten, PongWritten, EchoWritten, WriterWritten,
         WriterStops, WriterTakes, WriterWrites, WriterRefused, WriterGoes, Terminate, CloseRaw,
         AwaitLoop, TerminateGoes, objectVars, loopVars
  <2>6. CASE DisposeFlip \/ DisposeAwaits \/ StopAll
    BY <2>3, <2>6 DEF DisposeFlip, DisposeAwaits, StopAll
  <2> QED BY <2>1, <2>2, <2>4, <2>5, <2>6 DEF Next, JavaScript, Dispose
<1>3. Spec => []StuckInv
  BY InitStuck, StuckStep, SocketInvHolds, PTL DEF Spec, SocketInv
<1>4. TypeOK /\ TypeOK' /\ StuckInv /\ StoppedInv /\ [Next]_vars =>
        [stop => Work' <= Work /\ (BridgeProgress \/ Dispose => Work' < Work)]_vars
  BY WindDownStep
<1> QED BY <1>1, <1>2, <1>3, <1>4, SocketInvHolds, PTL DEF Spec, SocketInv

-----------------------------------------------------------------------------
(* Frames: what readFrame finds in a header is what was put into it.       *)

\* The four bytes of a number, from the upper one on.
B1(n) == (n \div 16777216) % 256
B2(n) == (n \div 65536) % 256
B3(n) == (n \div 256) % 256
B4(n) == n % 256

\* The bytes of a number make it again: the two lower ones below 2^16, all four below 2^32.
LEMMA BytesMakeNumber ==
  ASSUME NEW n \in Nat
  PROVE  /\ B1(n) \in Nat /\ B2(n) \in Nat /\ B3(n) \in Nat /\ B4(n) \in Nat
         /\ n < 65536 => B3(n) * 256 + B4(n) = n
         /\ n < 256 ^ 4 => B1(n) * 16777216 + B2(n) * 65536 + B3(n) * 256 + B4(n) = n
<1>1. B1(n) \in Nat /\ B2(n) \in Nat /\ B3(n) \in Nat /\ B4(n) \in Nat
  BY SMT DEF B1, B2, B3, B4
<1>2. n < 65536 => B3(n) * 256 + B4(n) = n
  BY SMT DEF B3, B4
<1>3. n < 4294967296 => B1(n) * 16777216 + B2(n) * 65536 + B3(n) * 256 + B4(n) = n
  BY SMT DEF B1, B2, B3, B4
<1>4. n < 256 ^ 4 => n < 4294967296
  BY SMT
<1> QED BY <1>1, <1>2, <1>3, <1>4, SMT

\* What readFrame needs to find in a header for opcode op and length n, with a mask bit
\* (128) or without (0), and the mask key behind it.
IsHeader(h, op, n, mask) ==
  LET key == IF mask = 128 THEN 4 ELSE 0 IN
  /\ h[1] = 128 + op
  /\ \/ n < 126 /\ h[2] = mask + n /\ Len(h) = 2 + key
     \/ /\ 126 <= n /\ n < 65536 /\ h[2] = mask + 126 /\ Len(h) = 4 + key
        /\ h[3] = B3(n) /\ h[4] = B4(n)
     \/ /\ 65536 <= n /\ h[2] = mask + 127 /\ Len(h) = 10 + key
        /\ h[3] = 0 /\ h[7] = B1(n) /\ h[8] = B2(n)
        /\ h[9] = B3(n) /\ h[10] = B4(n)

\* readFrame finds the opcode and the length of every such header and consumes all of it.
LEMMA HeaderRead ==
  ASSUME NEW h, NEW op \in Nat, op < 16, NEW n \in Nat, n < 256 ^ 4, NEW mask \in {0, 128},
         IsHeader(h, op, n, mask)
  PROVE  ReadFrame(h) = <<op, n, Len(h)>>
<1>1. h[1] % 16 = op
  BY SMT DEF IsHeader
<1>2. CASE n < 126 /\ h[2] = mask + n /\ Len(h) = 2 + (IF mask = 128 THEN 4 ELSE 0)
  <2>1. h[2] % 128 = n /\ (h[2] >= 128 <=> mask = 128)
    BY <1>2, SMT
  <2>2. ExtendedBytes(h) = 0
    BY <1>2, <2>1, SMT DEF ExtendedBytes
  <2>3. Consumed(h) = Len(h)
    BY <1>2, <2>1, <2>2, SMT DEF Consumed, Masked
  <2>4. ~(Len(h) < 2 + ExtendedBytes(h))
    BY <1>2, <2>2, SMT
  <2> QED BY <1>1, <2>1, <2>2, <2>3, <2>4, SMT DEF ReadFrame
<1>3. CASE /\ 126 <= n /\ n < 65536 /\ h[2] = mask + 126
           /\ Len(h) = 4 + (IF mask = 128 THEN 4 ELSE 0)
           /\ h[3] = B3(n) /\ h[4] = B4(n)
  <2>1. h[2] % 128 = 126 /\ (h[2] >= 128 <=> mask = 128)
    BY <1>3, SMT
  <2>2. ExtendedBytes(h) = 2
    BY <2>1, SMT DEF ExtendedBytes
  <2>3. Consumed(h) = Len(h)
    BY <1>3, <2>1, <2>2, SMT DEF Consumed, Masked
  <2>4. ~(Len(h) < 2 + ExtendedBytes(h))
    BY <1>3, <2>2, SMT
  <2>a. h[3] \in Nat /\ h[4] \in Nat
    BY <1>3, BytesMakeNumber
  <2>5. FromBytes(h, 3, 2) = h[3] * 256 + h[4]
    BY <2>a, SMT DEF FromBytes
  <2>6. FromBytes(h, 3, 2) = n
    BY <1>3, <2>5, BytesMakeNumber, SMT
  <2> QED BY <1>1, <2>2, <2>3, <2>4, <2>6, SMT DEF ReadFrame
<1>4. CASE /\ 65536 <= n /\ h[2] = mask + 127 /\ Len(h) = 10 + (IF mask = 128 THEN 4 ELSE 0)
           /\ h[3] = 0 /\ h[7] = B1(n) /\ h[8] = B2(n)
           /\ h[9] = B3(n) /\ h[10] = B4(n)
  <2>1. h[2] % 128 = 127 /\ (h[2] >= 128 <=> mask = 128)
    BY <1>4, SMT
  <2>2. ExtendedBytes(h) = 8
    BY <2>1, SMT DEF ExtendedBytes
  <2>3. Consumed(h) = Len(h)
    BY <1>4, <2>1, <2>2, SMT DEF Consumed, Masked
  <2>4. ~(Len(h) < 2 + ExtendedBytes(h))
    BY <1>4, <2>2, SMT
  <2>a. h[7] \in Nat /\ h[8] \in Nat /\ h[9] \in Nat /\ h[10] \in Nat
    BY <1>4, BytesMakeNumber, SMT
  <2>5. FromBytes(h, 3, 8) = h[7] * 16777216 + h[8] * 65536 + h[9] * 256 + h[10]
    BY <2>a, SMT DEF FromBytes
  <2>6. FromBytes(h, 3, 8) = n
    BY <1>4, <2>5, BytesMakeNumber, SMT
  <2>7. ~(ExtendedBytes(h) = 8 /\ h[3] > 0)
    BY <1>4, SMT
  <2> QED BY <1>1, <2>2, <2>3, <2>4, <2>6, <2>7, SMT DEF ReadFrame
<1> QED BY <1>2, <1>3, <1>4, SMT DEF IsHeader

\* The bytes of a length.
LEMMA BytesAre ==
  ASSUME NEW n \in Nat
  PROVE  /\ BigEndian(n, 2) = <<B3(n), B4(n)>>
         /\ BigEndian64(n) = <<0, 0, 0, 0>> \o <<B1(n), B2(n),
                                                B3(n), B4(n)>>
<1>1. BigEndian(n, 2) = <<B3(n), B4(n)>>
  BY SMT DEF BigEndian, B1, B2, B3, B4
<1>2. BigEndian(n, 4) = <<B1(n), B2(n),
                          B3(n), B4(n)>>
  BY SMT DEF BigEndian, B1, B2, B3, B4
<1> QED BY <1>1, <1>2, Zenon DEF BigEndian64

\* A byte in front of others, and where they are then.
Led(t, x, s, S) ==
  /\ t \in Seq(S) /\ Len(t) = Len(s) + 1 /\ t[1] = x
  /\ \A i \in 1..Len(s) : t[i + 1] = s[i]

\* The first element, and the others one place further on.
LEMMA PutInFront ==
  \A S, x, s, t : (x \in S /\ s \in Seq(S) /\ t = <<x>> \o s) => Led(t, x, s, S)
<1> SUFFICES ASSUME NEW S, NEW x, NEW s, NEW t, x \in S, s \in Seq(S), t = <<x>> \o s
             PROVE  Led(t, x, s, S)
  OBVIOUS
<1>1. <<x>> \in Seq(S) /\ Len(<<x>>) = 1 /\ <<x>>[1] = x /\ Len(s) \in Nat
  OBVIOUS
<1>2. /\ t \in Seq(S) /\ Len(t) = 1 + Len(s)
      /\ \A i \in 1..(1 + Len(s)) : t[i] = IF i <= 1 THEN <<x>>[i] ELSE s[i - 1]
  BY <1>1, ConcatProperties, SMT
<1> QED BY <1>1, <1>2, SMT DEF Led

\* Two bytes and the four bytes behind them and four zeros: a long length is announced.
LEMMA LongHeader ==
  ASSUME NEW x, NEW y, NEW a, NEW b, NEW c, NEW d, NEW h,
         h = <<x>> \o (<<y>> \o (<<0, 0, 0, 0>> \o <<a, b, c, d>>))
  PROVE  /\ h \in Seq({x, y, 0, a, b, c, d})
         /\ Len(h) = 10 /\ h[1] = x /\ h[2] = y /\ h[3] = 0
         /\ h[7] = a /\ h[8] = b /\ h[9] = c /\ h[10] = d
<1> DEFINE S == {x, y, 0, a, b, c, d}
           s == <<0, 0, 0, 0>> \o <<a, b, c, d>>
           t == <<y>> \o s
<1>1. s \in Seq(S) /\ Len(s) = 8 /\ s[1] = 0 /\ s[5] = a /\ s[6] = b /\ s[7] = c /\ s[8] = d
  BY SMT
<1>2. x \in S /\ y \in S
  OBVIOUS
<1> HIDE DEF s, S
<1>3. h = <<x>> \o t /\ t = <<y>> \o s
  BY DEF s
<1> HIDE DEF t
<1>4. Led(t, y, s, S)
  BY <1>1, <1>2, <1>3, PutInFront
<1>5. t \in Seq(S) /\ Len(t) = 9 /\ t[1] = y /\ t[2] = 0 /\ t[6] = a /\ t[7] = b /\ t[8] = c /\ t[9] = d
  BY <1>1, <1>4, SMT DEF Led
<1>6. Led(h, x, t, S)
  BY <1>2, <1>3, <1>5, PutInFront
<1>7. h \in Seq(S) /\ Len(h) = 10 /\ h[1] = x /\ h[2] = y /\ h[3] = 0
      /\ h[7] = a /\ h[8] = b /\ h[9] = c /\ h[10] = d
  BY <1>5, <1>6, SMT DEF Led
<1> QED BY <1>7 DEF S

\* The same for a length of two bytes.
LEMMA MediumHeader ==
  ASSUME NEW x, NEW y, NEW a, NEW b, NEW h,
         h = <<x>> \o (<<y>> \o <<a, b>>)
  PROVE  /\ h \in Seq({x, y, a, b})
         /\ Len(h) = 4 /\ h[1] = x /\ h[2] = y /\ h[3] = a /\ h[4] = b
BY SMT

\* What the DevTools end reads of the frames.
LEMMA ServerHeaderIs ==
  ASSUME NEW op \in Nat, op < 16, NEW n \in Nat, n < 256 ^ 4
  PROVE  /\ IsHeader(ServerHeader(op, n), op, n, 0)
         /\ ServerHeader(op, n) \in Seq(Nat) /\ Len(ServerHeader(op, n)) >= 2
         /\ ServerHeader(op, n)[2] < 128
<1> DEFINE h == ServerHeader(op, n)
           x == SetHighBit(op)
<1>1. x = 128 + op
  BY SMT DEF SetHighBit
<1> HIDE DEF x
<1>2. CASE n < 126
  <2>1. h = <<x>> \o <<n>>
    BY <1>2, SMT DEF ServerHeader, x
  <2> HIDE DEF h
  <2>2. h \in Seq(Nat) /\ Len(h) = 2 /\ h[1] = x /\ h[2] = n
    BY <1>1, <2>1, SMT
  <2> QED BY <1>1, <1>2, <2>2, SMT DEF IsHeader, h
<1>3. CASE 126 <= n /\ n < 65536
  <2>1. h = <<x>> \o (<<126>> \o BigEndian(n, 2))
    BY <1>3, SMT DEF ServerHeader, x
  <2> DEFINE a == B3(n)
             b == B4(n)
  <2>2. a \in Nat /\ b \in Nat
    BY BytesMakeNumber
  <2> HIDE DEF h, a, b
  <2>3. h = <<x>> \o (<<126>> \o <<a, b>>)
    BY <2>1, BytesAre DEF a, b
  <2>4. h \in Seq({x, 126, a, b}) /\ Len(h) = 4 /\ h[1] = x /\ h[2] = 126 /\ h[3] = a /\ h[4] = b
    BY <2>3, MediumHeader
  <2>5. h \in Seq(Nat)
    BY <1>1, <2>2, <2>4, SMT
  <2> QED BY <1>1, <1>3, <2>4, <2>5, SMT DEF IsHeader, h, a, b
<1>4. CASE 65536 <= n
  <2> DEFINE a == B1(n)
             b == B2(n)
             c == B3(n)
             d == B4(n)
  <2>1. h = <<x>> \o (<<127>> \o BigEndian64(n))
    BY <1>4, SMT DEF ServerHeader, x
  <2>2. a \in Nat /\ b \in Nat /\ c \in Nat /\ d \in Nat
    BY BytesMakeNumber
  <2>3. BigEndian64(n) = <<0, 0, 0, 0>> \o <<a, b, c, d>>
    BY BytesAre
  <2> HIDE DEF h, a, b, c, d
  <2>4. h = <<x>> \o (<<127>> \o (<<0, 0, 0, 0>> \o <<a, b, c, d>>))
    BY <2>1, <2>3
  <2>5. /\ h \in Seq({x, 127, 0, a, b, c, d}) /\ Len(h) = 10 /\ h[1] = x /\ h[2] = 127
        /\ h[3] = 0 /\ h[7] = a /\ h[8] = b /\ h[9] = c /\ h[10] = d
    BY <2>4, LongHeader
  <2>6. h \in Seq(Nat)
    BY <1>1, <2>2, <2>5, SMT
  <2> QED BY <1>1, <1>4, <2>5, <2>6, SMT DEF IsHeader, h, a, b, c, d
<1> QED BY <1>2, <1>3, <1>4, SMT

\* A mask bit and a mask key make a masked header of an unmasked one.
LEMMA MaskedHeader ==
  ASSUME NEW op \in Nat, NEW n \in Nat, NEW h \in Seq(Nat), Len(h) >= 2, h[2] < 128,
         IsHeader(h, op, n, 0)
  PROVE  IsHeader([h EXCEPT ![2] = SetHighBit(@)] \o MaskKey, op, n, 128)
<1> DEFINE g == [h EXCEPT ![2] = SetHighBit(@)]
           k == g \o MaskKey
<1>1. SetHighBit(h[2]) \in Nat /\ SetHighBit(h[2]) = 128 + h[2]
  <2>1. h[2] \in Nat
    OBVIOUS
  <2>2. ASSUME NEW v \in Nat, v < 128
        PROVE  SetHighBit(v) \in Nat /\ SetHighBit(v) = 128 + v
    BY <2>2, SMT DEF SetHighBit
  <2> QED BY <2>1, <2>2
<1>2. /\ g \in Seq(Nat) /\ Len(g) = Len(h) /\ g[2] = 128 + h[2]
      /\ \A i \in 1..Len(h) : i # 2 => g[i] = h[i]
  BY <1>1, SMT
<1> HIDE DEF g
<1>3. /\ Len(k) = Len(h) + 4 /\ \A i \in 1..Len(h) : k[i] = g[i]
  BY <1>2, SMT DEF MaskKey
<1> HIDE DEF k
<1>4. /\ Len(k) = Len(h) + 4 /\ k[2] = 128 + h[2]
      /\ \A i \in 1..Len(h) : i # 2 => k[i] = h[i]
  BY <1>2, <1>3, SMT
<1>5. k[1] = h[1]
  BY <1>4, SMT
<1> DEFINE Goal == IsHeader(k, op, n, 128)
<1>6. ASSUME n < 126 /\ h[2] = n /\ Len(h) = 2 PROVE Goal
  BY <1>4, <1>5, <1>6, SMT DEF IsHeader
<1>7. ASSUME 126 <= n, n < 65536, h[2] = 126, Len(h) = 4, h[3] = B3(n), h[4] = B4(n)
      PROVE  Goal
  <2>0. \A i \in {3, 4} : i \in 1..Len(h) /\ i # 2
    BY <1>7, SMT
  <2>1. k[3] = h[3] /\ k[4] = h[4]
    BY <1>4, <2>0, Zenon
  <2> QED BY <1>4, <1>5, <1>7, <2>1, SMT DEF IsHeader
<1>8. ASSUME 65536 <= n, h[2] = 127, Len(h) = 10, h[3] = 0,
             h[7] = B1(n), h[8] = B2(n), h[9] = B3(n), h[10] = B4(n)
      PROVE  Goal
  <2>0. \A i \in {3, 7, 8, 9, 10} : i \in 1..Len(h) /\ i # 2
    BY <1>8, SMT
  <2>1. k[3] = h[3] /\ k[7] = h[7] /\ k[8] = h[8] /\ k[9] = h[9] /\ k[10] = h[10]
    BY <1>4, <2>0, Zenon
  <2> QED BY <1>4, <1>5, <1>8, <2>1, SMT DEF IsHeader
<1> HIDE DEF Goal
<1>9. Goal
  BY <1>6, <1>7, <1>8, SMT DEF IsHeader
<1> QED BY <1>9 DEF Goal, k, g

\* What the sandbox writes of a short message.
LEMMA ShortClientHeaderIs ==
  ASSUME NEW op \in Nat, op < 16, NEW n \in Nat, n < 126
  PROVE  IsHeader(ClientHeader(op, n), op, n, 128)
<1> DEFINE x == SetHighBit(op)
           y == SetHighBit(n)
           h == ClientHeader(op, n)
<1>1. x = 128 + op /\ y = 128 + n
  BY SMT DEF SetHighBit
<1>2. h = (<<x, y>> \o Tail(<<n>>)) \o <<0, 0, 0, 0>>
  BY SMT DEF ClientHeader, MaskKey
<1> HIDE DEF x, y, h
<1>3. Len(h) = 6 /\ h[1] = x /\ h[2] = y
  BY <1>1, <1>2, SMT
<1> QED BY <1>1, <1>3, SMT DEF IsHeader, h

-----------------------------------------------------------------------------
\* Whether the sender masks, the opcode it writes, and whether it announces more than it
\* can mean.
MaskOf(who) == IF who \in {"client", "devtools", "overlong devtools"} THEN 128 ELSE 0
OpcodeOf(who, op) == IF who = "debug server" THEN 2 ELSE op
Overlong(who) == who \in {"overlong server", "overlong devtools"}

\* The header h is one that the reader can read, the sandbox's own of 126 bytes or more
\* excepted, or an overlong one.
WellPut(who, op, n, h) ==
  /\ (~Overlong(who) /\ (who # "client" \/ n < 126)) =>
       IsHeader(h, OpcodeOf(who, op), n, MaskOf(who))
  /\ Overlong(who) => n \in UpperBytes /\ h = OverlongHeader(op, n, MaskOf(who))

\* The inductive invariant of a frame: the header was put there by its sender, and what was
\* read was read from it.
FrameInv ==
  /\ header = Nothing => read = Nothing
  /\ header # Nothing =>
       /\ opcode \in Nat /\ opcode < 16 /\ length \in Nat /\ length < 256 ^ 4
       /\ WellPut(sender, opcode, length, header)
       /\ read = Nothing \/ read = ReadBy(sender, header)

\* A writer whose header can be read keeps the invariant.
LEMMA PutKeepsFrameInv ==
  ASSUME FrameInv, NEW who, NEW op \in Nat, op < 16, NEW n \in Nat, n < 256 ^ 4, NEW h,
         Put(who, op, n, h), WellPut(who, op, n, h)
  PROVE  FrameInv'
<1>1. read = Nothing /\ read' = Nothing
  BY Zenon DEF FrameInv, Put
<1>2. sender' = who /\ opcode' = op /\ length' = n /\ header' = h
  BY DEF Put
<1>3. WellPut(sender', opcode', length', header')
  BY <1>2, Zenon
<1>4. opcode' \in Nat /\ opcode' < 16 /\ length' \in Nat /\ length' < 256 ^ 4
  BY <1>2, Zenon
<1> QED BY <1>1, <1>3, <1>4, Zenon DEF FrameInv

\* The lengths and opcodes, in the numbers of the lemmas above.
LEMMA ConstantsBound ==
  /\ \A n \in Lengths : n \in Nat /\ n < 256 ^ 4
  /\ \A op \in Opcodes : op \in Nat /\ op < 16
  /\ \A top \in UpperBytes : top \in Nat /\ top < 256 ^ 4 /\ top > 0
<1>1. ASSUME NEW n \in Nat, n \div 256 < 256 ^ 3
      PROVE  n < 256 ^ 4
  BY <1>1, SMT
<1>2. \A n \in Lengths : n \in Nat /\ n < 256 ^ 4
  BY <1>1, FrameConstants, Zenon
<1>3. \A top \in UpperBytes : top \in Nat /\ top < 256 ^ 4 /\ top > 0
  BY SMT DEF UpperBytes
<1> QED BY <1>2, <1>3, FrameConstants, Zenon

\* What a sender of the DevTools protocol or the sandbox puts on the wire can be read.
LEMMA FrameInvHolds == FrameInv /\ [FrameNext]_frameVars => FrameInv'
<1> SUFFICES ASSUME FrameInv, [FrameNext]_frameVars PROVE FrameInv'
  OBVIOUS
<1>1. ASSUME NEW op \in Opcodes, NEW n \in Lengths,
             WriteFrame(op, n) \/ ServerWrites(op, n) \/ DevToolsWrites(op, n)
      PROVE  FrameInv'
  <2>1. op \in Nat /\ op < 16 /\ n \in Nat /\ n < 256 ^ 4
    BY ConstantsBound, Zenon
  <2>2. CASE WriteFrame(op, n)
    <3>1. n < 126 => IsHeader(ClientHeader(op, n), op, n, 128)
      BY <2>1, ShortClientHeaderIs
    <3>2. WellPut("client", op, n, ClientHeader(op, n))
      BY <3>1 DEF WellPut, MaskOf, OpcodeOf, Overlong
    <3> QED BY <2>1, <2>2, <3>2, PutKeepsFrameInv, Zenon DEF WriteFrame
  <2>3. CASE ServerWrites(op, n)
    <3>1. IsHeader(ServerHeader(op, n), op, n, 0)
      BY <2>1, ServerHeaderIs
    <3>2. WellPut("server", op, n, ServerHeader(op, n))
      BY <3>1 DEF WellPut, MaskOf, OpcodeOf, Overlong
    <3> QED BY <2>1, <2>3, <3>2, PutKeepsFrameInv, Zenon DEF ServerWrites
  <2>4. CASE DevToolsWrites(op, n)
    <3>1. IsHeader(DevToolsHeader(op, n), op, n, 128)
      BY <2>1, ServerHeaderIs, MaskedHeader, Zenon DEF DevToolsHeader
    <3>2. WellPut("devtools", op, n, DevToolsHeader(op, n))
      BY <3>1 DEF WellPut, MaskOf, OpcodeOf, Overlong
    <3> QED BY <2>1, <2>4, <3>2, PutKeepsFrameInv, Zenon DEF DevToolsWrites
  <2> QED BY <1>1, <2>2, <2>3, <2>4
<1>2. ASSUME NEW n \in Lengths, CdpWrites(n) PROVE FrameInv'
  <2>1. n \in Nat /\ n < 256 ^ 4
    BY ConstantsBound, Zenon
  <2>2. 1 \in Nat /\ 1 < 16 /\ 2 \in Nat /\ 2 < 16
    BY SMT
  <2>3. IsHeader(CdpHeader(n), 2, n, 0)
    BY <2>1, <2>2, ServerHeaderIs DEF CdpHeader
  <2>4. WellPut("debug server", 1, n, CdpHeader(n))
    BY <2>3 DEF WellPut, MaskOf, OpcodeOf, Overlong
  <2> QED BY <1>2, <2>1, <2>2, <2>4, PutKeepsFrameInv, Zenon DEF CdpWrites
<1>3. ASSUME NEW op \in Opcodes, NEW top \in UpperBytes,
             ServerOverdoes(op, top) \/ DevToolsOverdoes(op, top)
      PROVE  FrameInv'
  <2>1. op \in Nat /\ op < 16 /\ top \in Nat /\ top < 256 ^ 4
    BY ConstantsBound, Zenon
  <2>2. CASE ServerOverdoes(op, top)
    <3>1. WellPut("overlong server", op, top, OverlongHeader(op, top, 0))
      BY DEF WellPut, MaskOf, Overlong
    <3> QED BY <2>1, <2>2, <3>1, PutKeepsFrameInv, Zenon DEF ServerOverdoes
  <2>3. CASE DevToolsOverdoes(op, top)
    <3>1. WellPut("overlong devtools", op, top, OverlongHeader(op, top, 128))
      BY DEF WellPut, MaskOf, Overlong
    <3> QED BY <2>1, <2>3, <3>1, PutKeepsFrameInv, Zenon DEF DevToolsOverdoes
  <2> QED BY <1>3, <2>2, <2>3
<1>4. CASE Read
  <2>1. header # Nothing /\ UNCHANGED <<sender, opcode, length, header>>
    BY <1>4, Zenon DEF Read
  <2>2. read' = ReadBy(sender, header)
    BY <1>4, Zenon DEF Read
  <2> QED BY <2>1, <2>2, Zenon DEF FrameInv
<1>5. CASE NextFrame
  BY <1>5, Zenon DEF NextFrame, FrameInv
<1>6. CASE UNCHANGED frameVars
  BY <1>6, Zenon DEF frameVars, FrameInv
<1> QED BY <1>1, <1>2, <1>3, <1>4, <1>5, <1>6, Zenon DEF FrameNext

\* Neither reader finds a frame in an overlong header.
LEMMA OverlongHeaderRead ==
  ASSUME NEW op \in Nat, NEW top \in UpperBytes, NEW mask \in {0, 128}
  PROVE  /\ ReadFrame(OverlongHeader(op, top, mask)) = <<"panic">>
         /\ CdpReadFrame(OverlongHeader(op, top, mask))
              = IF top < 128 THEN <<"too large">> ELSE <<"panic">>
<1> DEFINE h == OverlongHeader(op, top, mask)
           g == <<SetHighBit(op), mask + 127, top, 0, 0, 0, 0, 0, 0, 0>>
           k == IF mask = 128 THEN MaskKey ELSE <<>>
<1>1. g \in Seq(Nat) /\ Len(g) = 10 /\ g[2] = mask + 127 /\ g[3] = top /\ top > 0
  <2>1. SetHighBit(op) \in Nat
    BY SMT DEF SetHighBit
  <2> QED BY <2>1, ConstantsBound, SMT
<1>2. k \in Seq(Nat)
  BY SMT DEF MaskKey
<1>3. h = g \o k
  BY DEF OverlongHeader
<1> HIDE DEF g, k
<1>a. g \in Seq(Nat)
  BY <1>1
<1>b. Len(k) \in Nat
  BY <1>2
<1>4. /\ Len(h) = Len(g) + Len(k)
      /\ \A i \in 1..(Len(g) + Len(k)) : h[i] = IF i <= Len(g) THEN g[i] ELSE k[i - Len(g)]
  <2>1. /\ g \o k \in Seq(Nat) /\ Len(g \o k) = Len(g) + Len(k)
        /\ \A i \in 1..Len(g) + Len(k) : (g \o k)[i] = IF i <= Len(g) THEN g[i] ELSE k[i - Len(g)]
    BY <1>a, <1>2, ConcatProperties
  <2> QED BY <1>3, <2>1
<1>5. Len(h) >= 10 /\ h[2] = mask + 127 /\ h[3] = top
  BY <1>1, <1>b, <1>4, SMT
<1>6. ExtendedBytes(h) = 8
  BY <1>5, SMT DEF ExtendedBytes
<1>7. ReadFrame(h) = <<"panic">>
  <2>1. ~(Len(h) < 2 + ExtendedBytes(h)) /\ h[3] > 0
    BY <1>1, <1>5, <1>6, SMT
  <2> QED BY <1>6, <2>1, Zenon DEF ReadFrame
<1>8. CdpReadFrame(h) = IF top < 128 THEN <<"too large">> ELSE <<"panic">>
  <2> DEFINE r == ReadFrame(h)
  <2>1. r = <<"panic">> /\ r # <<"misread">> /\ Len(r) # 3
    BY <1>7, SMT
  <2> HIDE DEF r
  <2>2. CdpReadFrame(h) = IF h[3] < 128 THEN <<"too large">> ELSE r
    BY <2>1, Zenon DEF CdpReadFrame, r
  <2> QED BY <1>5, <2>1, <2>2
<1> QED BY <1>7, <1>8

\* What the reader made of a header that it could read.
LEMMA FrameInvMeans == FrameInv => FramesReadable
<1> SUFFICES ASSUME FrameInv, read # Nothing PROVE FramesReadable
  BY Zenon DEF FramesReadable, Intact
<1>1. header # Nothing /\ read = ReadBy(sender, header)
  BY Zenon DEF FrameInv
<1>2. opcode \in Nat /\ opcode < 16 /\ length \in Nat /\ length < 256 ^ 4
      /\ WellPut(sender, opcode, length, header)
  BY <1>1, Zenon DEF FrameInv
<1>a. MaskOf(sender) \in {0, 128}
  BY DEF MaskOf
<1>b. OpcodeOf(sender, opcode) \in Nat /\ OpcodeOf(sender, opcode) < 16
  <2>1. 2 \in Nat /\ 2 < 16
    BY SMT
  <2> QED BY <1>2, <2>1, Zenon DEF OpcodeOf
<1>3. (~Overlong(sender) /\ (sender # "client" \/ length < 126)) =>
        ReadFrame(header) = <<OpcodeOf(sender, opcode), length, Len(header)>>
  BY <1>2, <1>a, <1>b, HeaderRead, Zenon DEF WellPut
<1>4. (sender = "server" \/ (sender = "client" /\ length < 126)) => Intact
  <2>1. ASSUME sender = "server" \/ (sender = "client" /\ length < 126) PROVE Intact
    <3>1. ~Overlong(sender) /\ sender \notin {"devtools", "overlong devtools", "debug server"}
      BY <2>1 DEF Overlong
    <3> QED BY <1>1, <1>3, <2>1, <3>1 DEF Intact, ReadBy, OpcodeOf
  <2> QED BY <2>1
<1>5. CASE sender = "devtools"
  <2>0. OpcodeOf(sender, opcode) = opcode /\ ~Overlong(sender) /\ sender # "client"
    BY <1>5 DEF OpcodeOf, Overlong
  <2>1. ReadFrame(header) = <<opcode, length, Len(header)>> /\ read = CdpReadFrame(header)
    BY <1>1, <1>3, <1>5, <2>0 DEF ReadBy
  <2>2. maxFrameSize \in Nat
    BY SMT DEF maxFrameSize
  <2> DEFINE m == maxFrameSize
             r == ReadFrame(header)
  <2>3. r # <<"misread">> /\ r # <<"panic">> /\ Len(r) = 3 /\ r[1] = opcode /\ r[2] = length /\ r[3] = Len(header)
    BY <2>1, SMT
  <2> HIDE DEF r
  <2>4. read = CASE r = <<"misread">> -> r
                 [] r = <<"panic">> -> IF header[3] < 128 THEN <<"too large">> ELSE r
                 [] Len(r) = 3 /\ r[2] > maxFrameSize -> <<"too large">>
                 [] Len(r) = 3 /\ r[2] <= maxFrameSize /\ r[1] = 8 -> <<"closed">>
                 [] OTHER -> <<r[2], r[3]>>
    BY <2>1, Zenon DEF CdpReadFrame, r
  <2> HIDE DEF m
  <2>5. CASE length > m
    <3>1. ~(length <= m)
      BY <1>2, <2>2, <2>5, SMT DEF m
    <3>a. r # <<"misread">> /\ r # <<"panic">> /\ Len(r) = 3 /\ r[2] > maxFrameSize /\ ~(r[2] <= maxFrameSize)
      BY <2>3, <2>5, <3>1, Zenon DEF m
    <3>2. read = <<"too large">>
      BY <2>4, <3>a, Zenon
    <3> QED BY <1>4, <1>5, <2>5, <3>1, <3>2, Zenon DEF FramesReadable, m
  <2>6. CASE length <= m /\ opcode = 8
    <3>1. ~(length > m)
      BY <1>2, <2>2, <2>6, SMT DEF m
    <3>a. /\ r # <<"misread">> /\ r # <<"panic">> /\ Len(r) = 3
          /\ ~(r[2] > maxFrameSize) /\ r[2] <= maxFrameSize /\ r[1] = 8
      BY <2>3, <2>6, <3>1, Zenon DEF m
    <3>2. read = <<"closed">>
      BY <2>4, <3>a, Zenon
    <3> QED BY <1>4, <1>5, <2>6, <3>1, <3>2, Zenon DEF FramesReadable, m
  <2>7. CASE length <= m /\ opcode # 8
    <3>1. ~(length > m)
      BY <1>2, <2>2, <2>7, SMT DEF m
    <3>a. /\ r # <<"misread">> /\ r # <<"panic">>
          /\ ~(r[2] > maxFrameSize) /\ r[1] # 8 /\ r[2] = length /\ r[3] = Len(header)
      BY <2>3, <2>7, <3>1, Zenon DEF m
    <3>2. read = <<length, Len(header)>>
      BY <2>4, <3>a, Zenon
    <3> QED BY <1>4, <1>5, <2>7, <3>1, <3>2, Zenon DEF FramesReadable, m
  <2>8. length > m \/ length <= m
    BY <1>2, <2>2, SMT DEF m
  <2> QED BY <2>5, <2>6, <2>7, <2>8
<1>6. CASE sender = "debug server"
  <2>1. ReadFrame(header) = <<2, length, Len(header)>> /\ read = ReadFrame(header)
    BY <1>1, <1>3, <1>6 DEF ReadBy, OpcodeOf, Overlong
  <2>2. read[2] = length /\ read[3] = Len(header)
    BY <2>1
  <2> QED BY <1>6, <2>2, Zenon DEF FramesReadable
<1>7. CASE Overlong(sender)
  <2>1. length \in UpperBytes /\ header = OverlongHeader(opcode, length, MaskOf(sender))
    BY <1>2, <1>7 DEF WellPut
  <2>2. /\ ReadFrame(header) = <<"panic">>
        /\ CdpReadFrame(header) = IF length < 128 THEN <<"too large">> ELSE <<"panic">>
    <3>1. opcode \in Nat /\ length \in UpperBytes /\ MaskOf(sender) \in {0, 128}
      BY <1>2, <1>a, <2>1
    <3>2. /\ ReadFrame(OverlongHeader(opcode, length, MaskOf(sender))) = <<"panic">>
          /\ CdpReadFrame(OverlongHeader(opcode, length, MaskOf(sender)))
               = IF length < 128 THEN <<"too large">> ELSE <<"panic">>
      BY <3>1, OverlongHeaderRead
    <3> QED BY <2>1, <3>2, Zenon
  <2> QED BY <1>1, <1>7, <2>2 DEF FramesReadable, Overlong, ReadBy
<1>8. CASE sender \notin {"devtools", "debug server", "overlong server", "overlong devtools"}
  BY <1>4, <1>8, Zenon DEF FramesReadable
<1> QED BY <1>5, <1>6, <1>7, <1>8 DEF Overlong

\* websocket.go and debug/websocket.go, for every length that fits into 32 bits and every
\* opcode: readFrame recovers every frame of a server, what the sandbox sends in one length
\* byte can be read back, a DevTools client finds the payload of every answer, and the DevTools
\* server is given every payload of up to 16 MiB.  Overlong frames are refused, or panic.
THEOREM FramesAreReadable == FrameSpec => []FramesReadable
<1>1. FrameInit => FrameInv
  BY Zenon DEF FrameInit, FrameInv
<1> QED BY <1>1, FrameInvHolds, FrameInvMeans, PTL DEF FrameSpec

-----------------------------------------------------------------------------
(* What the sandbox writes of a long message. *)

\* What the reader makes of it is another length, or nothing.
LengthLost(r, n) == r = <<"misread">> \/ r[2] # n

\* A number and another.
LEMMA TailOfTwo == ASSUME NEW x \in Nat, NEW y \in Nat PROVE <<x, y>>[1] = x /\ Tail(<<x, y>>) = <<y>>
<1>1. Len(Tail(<<x, y>>)) = 1 /\ Tail(<<x, y>>)[1] = y /\ Tail(<<x, y>>) \in Seq(Nat)
  BY SMT
<1> QED BY <1>1, SMT

\* The three encodings of the length.
IsMedium(n) == 126 <= n /\ n < 65536
IsLong(n) == 65536 <= n

\* The header that the sandbox writes.
LEMMA LongClientHeaders ==
  ASSUME NEW op \in Nat, NEW n \in Nat
  PROVE  /\ IsMedium(n) => ClientHeader(op, n) =
              (<<SetHighBit(op), SetHighBit(BigEndian(n, 2)[1])>> \o Tail(BigEndian(n, 2))) \o MaskKey
         /\ IsLong(n) => ClientHeader(op, n) =
              (<<SetHighBit(op), SetHighBit(BigEndian64(n)[1])>> \o Tail(BigEndian64(n))) \o MaskKey
<1> DEFINE lenBytes == IF n < 126 THEN <<n>>
                       ELSE IF n < 65536 THEN BigEndian(n, 2)
                       ELSE BigEndian64(n)
<1>1. ClientHeader(op, n)
        = (<<SetHighBit(op), SetHighBit(lenBytes[1])>> \o Tail(lenBytes)) \o MaskKey
  BY SMT DEF ClientHeader
<1>2. /\ IsMedium(n) => lenBytes = BigEndian(n, 2)
      /\ IsLong(n) => lenBytes = BigEndian64(n)
  BY SMT DEF IsMedium, IsLong
<1> HIDE DEF lenBytes
<1> QED BY <1>1, <1>2, Zenon

\* From 126 to 65535 bytes: without the marker 126 the upper byte of the length stands where
\* the reader looks for the length or for a marker.
LEMMA MediumIsMisread ==
  ASSUME NEW op \in Nat, NEW n \in Nat, IsMedium(n)
  PROVE  LengthLost(ReadFrame(ClientHeader(op, n)), n)
<1> DEFINE h == ClientHeader(op, n)
           x == SetHighBit(op)
           a == B3(n)
           b == B4(n)
           y == SetHighBit(a)
           v == a % 128
<1> HIDE DEF h, x, a, b, y, v
<1>1. a \in Nat /\ b \in Nat /\ a * 256 + b = n /\ b < 256
  <2>1. a \in Nat /\ b \in Nat
    BY BytesMakeNumber, SMT DEF a, b
  <2>2. n < 65536
    BY SMT DEF IsMedium
  <2>3. a * 256 + b = n
    BY <2>2, BytesMakeNumber, SMT DEF a, b
  <2>4. b < 256
    BY SMT DEF b, B4
  <2> QED BY <2>1, <2>3, <2>4
<1>2. BigEndian(n, 2) = <<a, b>>
  BY BytesAre, Zenon DEF a, b
<1>3. BigEndian(n, 2)[1] = a /\ Tail(BigEndian(n, 2)) = <<b>>
  <2>1. <<a, b>>[1] = a /\ Tail(<<a, b>>) = <<b>>
    BY <1>1, TailOfTwo
  <2> QED BY <1>2, <2>1, Zenon
<1>4. h = (<<x, y>> \o <<b>>) \o <<0, 0, 0, 0>>
  BY <1>3, LongClientHeaders, Zenon DEF h, x, y, MaskKey
<1>5. y = 128 + v /\ v \in 0..127
  BY <1>1, SMT DEF SetHighBit, y, v
<1>6. Len(h) = 7 /\ h[2] = y /\ h[3] = b /\ h[4] = 0
  BY <1>1, <1>4, <1>5, SMT
<1>7. h[2] % 128 = v
  BY <1>5, <1>6, SMT
<1>8. CASE v < 126
  <2>1. ExtendedBytes(h) = 0
    BY <1>5, <1>7, <1>8, SMT DEF ExtendedBytes
  <2>2. ReadFrame(h)[2] = v
    BY <1>6, <1>7, <2>1, SMT DEF ReadFrame
  <2>3. v # n
    BY <1>5, <1>8, SMT DEF IsMedium
  <2> QED BY <2>2, <2>3, Zenon DEF LengthLost, h
<1>9. CASE v = 126
  <2>1. ExtendedBytes(h) = 2
    BY <1>7, <1>9, SMT DEF ExtendedBytes
  <2>2. FromBytes(h, 3, 2) = b * 256
    BY <1>1, <1>6, SMT DEF FromBytes
  <2>3. ReadFrame(h)[2] = b * 256
    BY <1>6, <2>1, <2>2, SMT DEF ReadFrame
  <2>4. a # 0
    BY <1>9, SMT DEF v
  <2>5. b * 256 # n
    BY <1>1, <2>4, SMT
  <2> QED BY <2>3, <2>5, Zenon DEF LengthLost, h
<1>10. CASE v = 127
  <2>1. ExtendedBytes(h) = 8
    BY <1>7, <1>10, SMT DEF ExtendedBytes
  <2>2. Len(h) < 2 + ExtendedBytes(h)
    BY <1>6, <2>1, SMT
  <2>3. ReadFrame(h) = <<"misread">>
    BY <2>2, Zenon DEF ReadFrame
  <2> QED BY <2>3, Zenon DEF LengthLost, h
<1>11. v < 126 \/ v = 126 \/ v = 127
  BY <1>5, SMT
<1> QED BY <1>8, <1>9, <1>10, <1>11

\* From 65536 bytes on: the first of the eight bytes of the length is zero, and so is the
\* length that is read.
LEMMA LongIsMisread ==
  ASSUME NEW op \in Nat, NEW n \in Nat, IsLong(n)
  PROVE  LengthLost(ReadFrame(ClientHeader(op, n)), n)
<1> DEFINE h == ClientHeader(op, n)
           x == SetHighBit(op)
           a == B1(n)
           b == B2(n)
           c == B3(n)
           d == B4(n)
           l == BigEndian64(n)
           t == Tail(l)
<1> HIDE DEF h, x, a, b, c, d, l, t
<1>1. l = <<0, 0, 0, 0>> \o <<a, b, c, d>>
  BY BytesAre, Zenon DEF a, b, c, d, l
<1>2. h = (<<x, SetHighBit(l[1])>> \o t) \o <<0, 0, 0, 0>>
  BY LongClientHeaders, Zenon DEF h, x, t, l, MaskKey
<1>3. l[1] = 0 /\ l \in Seq({0, a, b, c, d}) /\ Len(l) = 8
  BY <1>1, SMT
<1>4. t \in Seq({0, a, b, c, d}) /\ Len(t) = 7
  BY <1>3, SMT DEF t
<1>5. SetHighBit(l[1]) = 128
  BY <1>3, SMT DEF SetHighBit
<1>6. x = 128 + (op % 128) /\ x \in Nat
  BY SMT DEF SetHighBit, x
<1> DEFINE y == SetHighBit(l[1])
           S == {x, y, 0, a, b, c, d}
<1> HIDE DEF S, y
<1>7. <<x, y>> \in Seq(S) /\ t \in Seq(S) /\ <<0, 0, 0, 0>> \in Seq(S)
  BY <1>4, SMT DEF S
<1>8. Len(h) = 13 /\ h[2] = 128
  <2>1. h = (<<x, y>> \o t) \o <<0, 0, 0, 0>> /\ y = 128
    BY <1>2, <1>5, Zenon DEF y
  <2> DEFINE g == <<x, y>> \o t
  <2> HIDE DEF g
  <2>2. g \in Seq(S) /\ Len(g) = 9 /\ g[2] = y
    <3> DEFINE p == <<x, y>>
    <3>1. p \in Seq(S) /\ Len(p) = 2 /\ p[2] = y
      BY <1>7, SMT
    <3> HIDE DEF p
    <3>2. g = p \o t
      BY DEF g, p
    <3>3. /\ g \in Seq(S) /\ Len(g) = Len(p) + Len(t)
          /\ \A i \in 1..(Len(p) + Len(t)) : g[i] = IF i <= Len(p) THEN p[i] ELSE t[i - Len(p)]
      BY <1>7, <3>1, <3>2, ConcatProperties, Zenon
    <3> QED BY <1>4, <3>1, <3>3, SMT
  <2>3. h = g \o <<0, 0, 0, 0>>
    BY <2>1, Zenon DEF g
  <2>4. Len(h) = 13 /\ h[2] = g[2]
    <3> DEFINE p == <<0, 0, 0, 0>>
    <3>1. p \in Seq(S) /\ Len(p) = 4
      BY <1>7, SMT
    <3> HIDE DEF p
    <3>2. h = g \o p
      BY <2>3 DEF p
    <3>3. /\ Len(h) = Len(g) + Len(p)
          /\ \A i \in 1..(Len(g) + Len(p)) : h[i] = IF i <= Len(g) THEN g[i] ELSE p[i - Len(g)]
      BY <2>2, <3>1, <3>2, ConcatProperties, Zenon
    <3> QED BY <2>2, <3>1, <3>3, SMT
  <2> QED BY <2>1, <2>2, <2>4, SMT
<1>9. ExtendedBytes(h) = 0
  BY <1>8, SMT DEF ExtendedBytes
<1>10. ReadFrame(h)[2] = 0
  BY <1>8, <1>9, SMT DEF ReadFrame
<1>11. n # 0
  BY SMT DEF IsLong
<1> QED BY <1>10, <1>11, Zenon DEF LengthLost, h

\* A frame of the sandbox has the header that writeFrame gave it.
ClientInv ==
  header # Nothing /\ sender = "client" => header = ClientHeader(opcode, length)

\* websocket.go:193, the cause of the disagreement that the run frames_long shows: not one
\* message of 126 bytes or more arrives.  The peer reads another length than was sent or
\* takes payload for the header, whatever the opcode and the length.
THEOREM LongClientFramesAreMisread ==
  FrameSpec => [](sender = "client" /\ length >= 126 /\ read # Nothing => LengthLost(read, length))
<1>1. FrameInit => FrameInv /\ ClientInv
  BY Zenon DEF FrameInit, FrameInv, ClientInv
<1>2. ClientInv /\ [FrameNext]_frameVars => ClientInv'
  <2> SUFFICES ASSUME ClientInv, [FrameNext]_frameVars PROVE ClientInv'
    OBVIOUS
  <2>1. ASSUME NEW op, NEW n, WriteFrame(op, n) PROVE ClientInv'
    <3>1. sender' = "client" /\ opcode' = op /\ length' = n /\ header' = ClientHeader(op, n)
      BY <2>1, Zenon DEF WriteFrame, Put
    <3> QED BY <3>1, Zenon DEF ClientInv
  <2>2. ASSUME sender' # "client" PROVE ClientInv'
    BY <2>2, Zenon DEF ClientInv
  <2>3. ASSUME NEW op, NEW n, ServerWrites(op, n) \/ DevToolsWrites(op, n) \/ CdpWrites(n)
        PROVE  ClientInv'
    <3>1. sender' \in {"server", "devtools", "debug server"}
      BY <2>3 DEF ServerWrites, DevToolsWrites, CdpWrites, Put
    <3> QED BY <2>2, <3>1
  <2>6. ASSUME NEW op, NEW top, ServerOverdoes(op, top) \/ DevToolsOverdoes(op, top)
        PROVE  ClientInv'
    <3>1. sender' \in {"overlong server", "overlong devtools"}
      BY <2>6 DEF ServerOverdoes, DevToolsOverdoes, Put
    <3> QED BY <2>2, <3>1
  <2>4. CASE Read \/ UNCHANGED frameVars
    <3>1. UNCHANGED <<sender, opcode, length, header>>
      BY <2>4, Zenon DEF Read, frameVars
    <3> QED BY <3>1, Zenon DEF ClientInv
  <2>5. CASE NextFrame
    BY <2>5, Zenon DEF NextFrame, ClientInv
  <2> QED BY <2>1, <2>3, <2>4, <2>5, <2>6, Zenon DEF FrameNext
<1>3. FrameInv /\ ClientInv =>
        (sender = "client" /\ length >= 126 /\ read # Nothing => LengthLost(read, length))
  <2> SUFFICES ASSUME FrameInv, ClientInv, sender = "client", length >= 126, read # Nothing
               PROVE  LengthLost(read, length)
    OBVIOUS
  <2>1. header # Nothing /\ read = ReadBy(sender, header)
    BY Zenon DEF FrameInv
  <2>2. opcode \in Nat /\ length \in Nat
    BY <2>1, Zenon DEF FrameInv
  <2>3. read = ReadFrame(ClientHeader(opcode, length))
    BY <2>1 DEF ReadBy, ClientInv
  <2>4. IsMedium(length) \/ IsLong(length)
    BY <2>2, SMT DEF IsMedium, IsLong
  <2> QED BY <2>2, <2>3, <2>4, MediumIsMisread, LongIsMisread, Zenon
<1> QED BY <1>1, <1>2, <1>3, FrameInvHolds, PTL DEF FrameSpec
=============================================================================
