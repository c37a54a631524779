---------------------------- MODULE FlowControl ----------------------------
(***************************************************************************)
(* HTTP/2 flow control of one response, in numbers only: what the windows  *)
(* announced by requestH2 and refreshed by readH2Response                  *)
(* (internal/netlayer/h2client.go) promise to a server that sends DATA on  *)
(* stream 1.  H2Client implements it with the frames themselves.           *)
(*                                                                         *)
(* The server may send as long as both of its send windows are positive.   *)
(* The client keeps a window of its own for the stream and for the         *)
(* connection, takes every DATA frame off both and, when one has fallen to *)
(* half of its size, fills it up again with a WINDOW_UPDATE.               *)
(***************************************************************************)
EXTENDS Integers

CONSTANTS
  InitialWindow,     \* h2.initialWindowSize: SETTINGS_INITIAL_WINDOW_SIZE
  ConnWindowUpdate,  \* h2.connWindowUpdate: the increment sent with the preface
  DefaultWindow      \* the protocol's own connection window, 65535

(* The client counts the connection's window from InitialWindow, the server
   from DefaultWindow: the refill at half comes in time only if the client's
   head start is within what the server was really given.  Every row of
   chromeFingerprintLadder satisfies it (6291456, 15663105, 65535). *)
ASSUME WindowsAssumption ==
  /\ InitialWindow \in Nat \ {0}
  /\ ConnWindowUpdate \in Nat
  /\ DefaultWindow \in Nat \ {0}
  /\ InitialWindow <= ConnWindowUpdate + 2 * DefaultWindow

VARIABLES
  sendStream, sendConn,      \* the server's two send windows
  inFlight,                  \* DATA bytes sent and not yet consumed
  streamWindow, connWindow,  \* the client's own accounts
  toStream, toConn           \* WINDOW_UPDATE increments not yet received

flowVars == <<sendStream, sendConn, inFlight, streamWindow, connWindow, toStream, toConn>>

ConnWindowTotal == InitialWindow + ConnWindowUpdate

FlowInit ==
  /\ sendStream = InitialWindow
  /\ sendConn = DefaultWindow + ConnWindowUpdate
  /\ inFlight = 0
  /\ streamWindow = InitialWindow
  /\ connWindow = ConnWindowTotal
  /\ toStream = 0
  /\ toConn = 0

(* Mutant of Refill: a window is filled up only when it is used up. *)
RefillWhenEmpty(w, total) == IF w <= 0 THEN total ELSE w

(* What a window is worth once w is left of total: filled up at half. *)
Refill(w, total) == IF w <= total \div 2 THEN total ELSE w

(* The server sends a DATA frame of n bytes, padding included. *)
SendData(n) ==
  /\ n <= sendStream
  /\ n <= sendConn
  /\ sendStream' = sendStream - n
  /\ sendConn' = sendConn - n
  /\ inFlight' = inFlight + n
  /\ UNCHANGED <<streamWindow, connWindow, toStream, toConn>>

(* The client consumes a DATA frame of n bytes and sends what it owes. *)
Consume(n) ==
  /\ n <= inFlight
  /\ inFlight' = inFlight - n
  /\ streamWindow' = Refill(streamWindow - n, InitialWindow)
  /\ connWindow' = Refill(connWindow - n, ConnWindowTotal)
  /\ toStream' = toStream + streamWindow' - (streamWindow - n)
  /\ toConn' = toConn + connWindow' - (connWindow - n)
  /\ UNCHANGED <<sendStream, sendConn>>

(* The server receives a WINDOW_UPDATE of k for the stream, the connection. *)
GrantStream(k) ==
  /\ k <= toStream
  /\ toStream' = toStream - k
  /\ sendStream' = sendStream + k
  /\ UNCHANGED <<sendConn, inFlight, streamWindow, connWindow, toConn>>

GrantConn(k) ==
  /\ k <= toConn
  /\ toConn' = toConn - k
  /\ sendConn' = sendConn + k
  /\ UNCHANGED <<sendStream, inFlight, streamWindow, connWindow, toStream>>

(* An empty DATA frame changes nothing, hence the positive amounts. *)
FlowNext == \E n \in Nat \ {0} : SendData(n) \/ Consume(n) \/ GrantStream(n) \/ GrantConn(n)

FlowSpec == FlowInit /\ [][FlowNext]_flowVars

(* The two sides' accounts agree: a byte the client has not given back is in
   the server's window, on its way, or in an update on its way back; and the
   client never lets an account fall to half. *)
Accounts ==
  /\ sendStream + inFlight + toStream = streamWindow
  /\ sendConn + inFlight + toConn = connWindow - InitialWindow + DefaultWindow
  /\ InitialWindow \div 2 < streamWindow /\ streamWindow <= InitialWindow
  /\ ConnWindowTotal \div 2 < connWindow /\ connWindow <= ConnWindowTotal

(* With nothing on its way in either direction the server may send: a body
   larger than the windows does not leave it waiting for an update that never
   comes ("hangs" in the comment of readH2Response). *)
NoStall ==
  inFlight = 0 /\ toStream = 0 /\ toConn = 0 => sendStream > 0 /\ sendConn > 0

(* The updates never raise a window above what was announced first, so they
   cannot overflow it. *)
NeverAboveAnnounced ==
  /\ sendStream <= InitialWindow
  /\ sendConn <= DefaultWindow + ConnWindowUpdate
=============================================================================
