------------------------------ MODULE CDPServer ------------------------------
(***************************************************************************)
(* The DevTools server of internal/debug: per connection a goroutine that  *)
(* reads frames into a bounded queue and the handler's own loop that       *)
(* answers what is queued, one after the other; a debugger state that all  *)
(* connections share.  Runtime.evaluate is an operation that pins its      *)
(* session like those of module BridgeService; here it is a request like   *)
(* any other, whose answer is a result or an error.                        *)
(*                                                                         *)
(* The two directions of a connection are sequences of whole frames (how   *)
(* a frame is laid out is in module WSFrame).  A request is its number and *)
(* what it asks for.                                                       *)
(***************************************************************************)
EXTENDS Integers, Sequences

CONSTANTS
  Clients,      \* DevTools connections
  QueueSize,    \* capacity of CDPClient.requests (100 in the code)
  MaxFrames     \* bound: frames that each client sends

VARIABLES
  conn,         \* "away", "open", "left" (by the client) or "closed" (by the server)
  wire,         \* frames on their way to the server
  queue,        \* CDPClient.requests
  reader,       \* the reading goroutine: "none", "read", "push" or "ended"
  hand,         \* the request that the reader is pushing
  handler,      \* where the handler is: "none", "take", "state", "handle", "write" or "ended"
  handling,     \* the request that the handler works on
  clients,      \* CDPServer.clients
  dbgState,     \* "nil", or the breakpoints and the last number given to one
  replies,      \* the numbers of the requests each client was answered
  asked,        \* history: what each client asked for before it closed
  given         \* history: the breakpoints that were set and not removed, and by whom

linkVars == <<conn, wire, clients>>
readVars == <<reader, hand>>
sharedVars == <<dbgState, given>>
cdpVars == <<linkVars, readVars, queue, handler, handling, sharedVars, replies, asked>>

Methods == {"set", "clear", "other"}      \* other: every method that changes nothing here
Others == {"junk", "close"}     \* not JSON (a ping, for instance); a close or oversized frame

NoFrame == [n |-> 0, what |-> "other"]
NoBreakpoints == [ids |-> {}, last |-> 0]

CdpInit ==
  /\ conn = [c \in Clients |-> "away"]
  /\ wire = [c \in Clients |-> <<>>]
  /\ queue = [c \in Clients |-> [frames |-> <<>>, open |-> "yes"]]
  /\ reader = [c \in Clients |-> "none"]
  /\ hand = [c \in Clients |-> NoFrame]
  /\ handler = [c \in Clients |-> "none"]
  /\ handling = [c \in Clients |-> NoFrame]
  /\ clients = {}
  /\ dbgState = [NoBreakpoints EXCEPT !.last = -1]     \* nil
  /\ replies = [c \in Clients |-> <<>>]
  /\ asked = [c \in Clients |-> [all |-> <<>>, sent |-> 0, closed |-> "no"]]
  /\ given = {}

-----------------------------------------------------------------------------
(* The clients. *)

\* handleWebSocket up to its two loops.
Connect(c) ==
  /\ conn[c] = "away"
  /\ conn' = [conn EXCEPT ![c] = "open"]
  /\ clients' = clients \cup {c}
  /\ reader' = [reader EXCEPT ![c] = "read"]
  /\ handler' = [handler EXCEPT ![c] = "take"]
  /\ UNCHANGED <<wire, hand, queue, handling, sharedVars, replies, asked>>

Send(c, what) ==
  /\ conn[c] = "open" /\ asked[c].sent < MaxFrames[c]
  /\ wire' = [wire EXCEPT ![c] = Append(@, [n |-> asked[c].sent + 1, what |-> what])]
  /\ asked' = [asked EXCEPT
       ![c].sent = @ + 1,
       ![c].all = IF what \in Methods /\ asked[c].closed = "no"
                  THEN Append(@, asked[c].sent + 1) ELSE @,
       ![c].closed = IF what = "close" THEN "yes" ELSE @]
  /\ UNCHANGED <<conn, clients, readVars, queue, handler, handling, sharedVars, replies>>

\* What was sent before is still delivered; what is answered from now on may fail.
Leave(c) ==
  /\ conn[c] = "open"
  /\ conn' = [conn EXCEPT ![c] = "left"]
  /\ UNCHANGED <<wire, clients, readVars, queue, handler, handling, sharedVars, replies, asked>>

-----------------------------------------------------------------------------
(* The reading goroutine. *)

EndReading(c) ==
  /\ queue' = [queue EXCEPT ![c].open = "no"]      \* close(client.requests)
  /\ reader' = [reader EXCEPT ![c] = "ended"]
  /\ UNCHANGED hand

ReadFrame(c) ==
  /\ reader[c] = "read" /\ wire[c] # <<>>
  /\ wire' = [wire EXCEPT ![c] = Tail(@)]
  /\ LET f == Head(wire[c]) IN
       \/ f.what = "junk" /\ UNCHANGED <<readVars, queue>>
       \/ f.what = "close" /\ EndReading(c)
       \/ /\ f.what \in Methods
          /\ hand' = [hand EXCEPT ![c] = f]
          /\ reader' = [reader EXCEPT ![c] = "push"]
          /\ UNCHANGED queue
  /\ UNCHANGED <<conn, clients, handler, handling, sharedVars, replies, asked>>

\* The end of the stream, or the connection that the handler has closed.
ReadError(c) ==
  /\ reader[c] = "read"
  /\ conn[c] = "closed" \/ (conn[c] = "left" /\ wire[c] = <<>>)
  /\ EndReading(c)
  /\ UNCHANGED <<linkVars, handler, handling, sharedVars, replies, asked>>

\* Mutant: a request that finds the queue full is dropped.
PushOrDrop(c) ==
  /\ reader[c] = "push"
  /\ queue' = [queue EXCEPT ![c].frames =
       IF Len(@) < QueueSize THEN Append(@, hand[c]) ELSE @]
  /\ reader' = [reader EXCEPT ![c] = "read"]
  /\ UNCHANGED <<linkVars, hand, handler, handling, sharedVars, replies, asked>>

\* The reader waits while the queue is full.
Push(c) ==
  /\ reader[c] = "push" /\ Len(queue[c].frames) < QueueSize
  /\ queue' = [queue EXCEPT ![c].frames = Append(@, hand[c])]
  /\ reader' = [reader EXCEPT ![c] = "read"]
  /\ UNCHANGED <<linkVars, hand, handler, handling, sharedVars, replies, asked>>

-----------------------------------------------------------------------------
(* The handler's loop. *)

Proceed(c, to) == handler' = [handler EXCEPT ![c] = to]

\* handleCDPRequest: the methods of the debugger need its state.
Take(c) ==
  /\ handler[c] = "take" /\ queue[c].frames # <<>>
  /\ handling' = [handling EXCEPT ![c] = Head(queue[c].frames)]
  /\ queue' = [queue EXCEPT ![c].frames = Tail(@)]
  /\ Proceed(c, IF Head(queue[c].frames).what \in {"set", "clear"} THEN "state" ELSE "handle")
  /\ UNCHANGED <<linkVars, readVars, sharedVars, replies, asked>>

\* The state is created by the first who needs it, under the server's lock.
DebuggerState(c) ==
  /\ handler[c] = "state"
  /\ dbgState' = IF dbgState.last = -1 THEN NoBreakpoints ELSE dbgState
  /\ Proceed(c, "handle")
  /\ UNCHANGED <<linkVars, readVars, queue, handling, given, replies, asked>>

\* Debugger.setBreakpointByUrl, under the state's own lock.
SetBreakpoint(c) ==
  /\ handler[c] = "handle" /\ handling[c].what = "set"
  /\ LET id == dbgState.last + 1 IN
       /\ dbgState' = [ids |-> dbgState.ids \cup {id}, last |-> id]
       /\ given' = given \cup {[id |-> id, by |-> c]}
  /\ Proceed(c, "write")
  /\ UNCHANGED <<linkVars, readVars, queue, handling, replies, asked>>

\* Debugger.removeBreakpoint; a client may name any breakpoint, its own or another's, or none.
RemoveBreakpoint(c, id) ==
  /\ handler[c] = "handle" /\ handling[c].what = "clear"
  /\ dbgState' = [dbgState EXCEPT !.ids = @ \ {id}]
  /\ given' = {b \in given : b.id # id}
  /\ Proceed(c, "write")
  /\ UNCHANGED <<linkVars, readVars, queue, handling, replies, asked>>

\* Runtime.evaluate, the other domains, and the debugger's methods that keep no state.
Handle(c) ==
  /\ handler[c] = "handle" /\ handling[c].what = "other"
  /\ Proceed(c, "write")
  /\ UNCHANGED <<linkVars, readVars, queue, handling, sharedVars, replies, asked>>

WriteReply(c) ==
  /\ handler[c] = "write" /\ conn[c] \in {"open", "left"}
  /\ replies' = [replies EXCEPT ![c] = Append(@, handling[c].n)]
  /\ Proceed(c, "take")
  /\ UNCHANGED <<linkVars, readVars, queue, handling, sharedVars, asked>>

\* The handler returns: the client is forgotten and the connection is closed.
HandlerReturns(c) ==
  /\ clients' = clients \ {c}
  /\ conn' = [conn EXCEPT ![c] = "closed"]
  /\ Proceed(c, "ended")
  /\ UNCHANGED <<wire, readVars, queue, handling, sharedVars, replies, asked>>

WriteError(c) == handler[c] = "write" /\ conn[c] = "left" /\ HandlerReturns(c)

QueueDrained(c) ==
  handler[c] = "take" /\ queue[c].frames = <<>> /\ queue[c].open = "no" /\ HandlerReturns(c)

CdpNext ==
  \E c \in Clients :
       \/ Connect(c) \/ Leave(c)
       \/ \E what \in Methods \cup Others : Send(c, what)
       \/ ReadFrame(c) \/ ReadError(c) \/ Push(c)
       \/ Take(c) \/ DebuggerState(c) \/ SetBreakpoint(c) \/ Handle(c)
       \/ \E id \in 0..dbgState.last : RemoveBreakpoint(c, id)
       \/ WriteReply(c) \/ WriteError(c) \/ QueueDrained(c)

CdpSpec == CdpInit /\ [][CdpNext]_cdpVars

-----------------------------------------------------------------------------
\* Requests are answered in the order in which they were sent, each once, however far the
\* reader is ahead of the handler; and a handler that ends although its writes succeeded has
\* answered everything that was sent before the client closed.
AnsweredInOrder(c) ==
  LET all == asked[c].all
      done == replies[c]
  IN /\ Len(done) <= Len(all) /\ done = SubSeq(all, 1, Len(done))
     /\ (handler[c] = "ended" /\ handling[c].n \in {0} \cup {done[i] : i \in 1..Len(done)}) => done = all

\* A breakpoint that a client was given stays until somebody removes it, whoever else comes,
\* goes or touches the debugger for the first time; and no number is given twice.
BreakpointsKept ==
  /\ dbgState.ids = {b.id : b \in given}
  /\ \A b1, b2 \in given : b1.id = b2.id => b1 = b2

\* The two together: what a DevTools window is told.
DevToolsToldRight == BreakpointsKept /\ \A c \in Clients : AnsweredInOrder(c)
=============================================================================
